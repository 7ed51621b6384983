\* Two deposits, three signers of whom any two suffice at first.
SPECIFICATION EthSpec
CONSTANTS
    s1 = s1  s2 = s2  s3 = s3
    Users = {alice, bob}
    Signers = {s1, s2, s3}
    Zero = Zero
    BridgeAddr = bridge
    Deployer = alice
    InitialSigners <- MCInitialSigners
    InitialThreshold = 2
    MIN_DEPOSIT = 1
    MAX_DEPOSIT = 2
    MAX_SIGNERS = 3
    InitialUsdc = 3
    NoRecipient = NoRecipient
    ObscuraRecipients = {c1}
    DepositSums = {0, 2, 3}
    Nonces = {w1, w2}
    SignatureLists <- MCSignatureLists
    MaxDeposits = 2
    MaxBlock = 1
INVARIANTS
    EthTypeOK
    ThresholdReachable
    MultisigExact
    ReleasedOnce
    Solvent
