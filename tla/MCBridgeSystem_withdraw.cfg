\* One deposit and two concurrent withdrawal requests for it.
SPECIFICATION SystemSpec
CONSTANTS
    s1 = s1  s2 = s2  s3 = s3  usdc_asset = usdc_asset
    TREE_DEPTH = 1
    ROOTS_HISTORY_SIZE = 2
    Zero32 = Zero32
    hash_pair <- MCHashPair
    HashNote <- MCHashNote
    Assets = {usdc_asset}
    Nullifiers = {}
    Ciphertexts = {}
    Senders = {}
    Commitments = {c1}
    Notes = {}
    Amounts = {}
    NullifierLists = {}
    OutputLists = {}
    EncryptedLists = {}
    SanctionsRoots = {}
    Timestamps = {}
    Clock = {}
    SANCTIONS_PROOF_MAX_AGE_SECS = 2
    U64 = 16
    BridgeContract = bridge
    BridgedUsdc = usdc_asset
    Contracts = {bridge}
    DepositIds = {0}
    DepositAmounts = {2}
    Recipients = {c1}
    EthBlocks = {1, 2}
    EthRecipients = {alice, bob}
    BeaconRoots = {}
    Slots = {}
    InitialBeaconRoot = Zero32
    InitialSlot = 0
    MaxSlotGap = 1
    Users = {alice, bob}
    Signers = {s1, s2, s3}
    Zero = Zero
    BridgeAddr = bridge
    Deployer = owner
    InitialSigners <- MCInitialSigners
    InitialThreshold = 2
    MIN_DEPOSIT = 1
    MAX_DEPOSIT = 9
    MAX_SIGNERS = 3
    InitialUsdc = 9
    NoRecipient = Zero32
    ObscuraRecipients = {c1}
    DepositSums = {2}
    Nonces <- MCNonces
    SignatureLists <- MCSignatureLists
    MaxDeposits = 1
    MaxBlock = 1
    START_BACK = 2
    SCAN_SPAN = 1
    Handlers = {h1, h2}
    signer1 = s1
    signer2 = s2
    Minutes = {0, 1}
    OtherCalls = {"claim", "withdraw"}
    MaxCrashes = 1
PROPERTIES
    Lifecycle
