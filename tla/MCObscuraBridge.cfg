\* Two deposits, amounts whose sum overflows, a tree of four leaves shared
\* with pool transactions, Helios switched on by the first head update.
SPECIFICATION BridgeSpec
CONSTANTS
    n1 = n1  usdc = usdc  c1 = c1  c2 = c2  r0 = r0  r1 = r1  s0 = s0
    TREE_DEPTH = 2
    ROOTS_HISTORY_SIZE = 2
    Zero32 = Zero32
    hash_pair <- MCHashPair
    HashNote <- MCHashNote
    Assets = {usdc}
    Nullifiers = {n1}
    Ciphertexts = {}
    Senders = {alice}
    Commitments = {c1, c2}
    Notes <- MCNotes
    Amounts = {1}
    NullifierLists <- MCNullifierLists
    OutputLists <- MCOutputLists
    EncryptedLists <- MCEncryptedLists
    SanctionsRoots = {Zero32}
    Timestamps = {0}
    Clock = {1}
    SANCTIONS_PROOF_MAX_AGE_SECS = 2
    U64 = 4
    BridgeContract = bridge
    BridgedUsdc = usdc
    Contracts = {bridge, another}
    DepositIds = {0, 1}
    DepositAmounts = {0, 1, 3}
    Recipients = {Zero32, c2}
    EthBlocks = {b1, b2}
    EthRecipients = {alice}
    BeaconRoots = {r0, r1}
    Slots = {1, 2, 4}
    InitialBeaconRoot = r0
    InitialSlot = 0
    MaxSlotGap = 1
INVARIANTS
    BridgeTypeOK
    DepositsLandOnce
    WithdrawalsBacked
    TotalsMatchRecords
    ClaimsAreFinalized
