\* Two blocks, one reorganisation, one kind of deposit, one restart.
SPECIFICATION RelaySpec
CONSTANTS
    usdc = usdc  c1 = c1  c2 = c2  bridge = bridge
    TREE_DEPTH = 2
    ROOTS_HISTORY_SIZE = 2
    Zero32 = Zero32
    hash_pair <- MCHashPair
    HashNote <- MCHashNote
    Assets = {usdc}
    Nullifiers = {}
    Ciphertexts = {}
    Senders = {}
    Commitments = {c1, c2}
    Notes = {}
    Amounts = {}
    NullifierLists = {}
    OutputLists = {}
    EncryptedLists = {}
    SanctionsRoots = {}
    Timestamps = {}
    Clock = {}
    SANCTIONS_PROOF_MAX_AGE_SECS = 2
    U64 = 8
    BridgeContract = bridge
    BridgedUsdc = usdc
    Contracts = {bridge}
    DepositIds = {0, 1, 2}
    DepositAmounts = {1, 2}
    Recipients = {c1, c2}
    EthBlocks <- MCBlocks
    EthRecipients = {}
    BeaconRoots <- MCRoots
    Slots = {1, 2, 3}
    InitialBeaconRoot = Zero32
    InitialSlot = 0
    MaxSlotGap = 1
    START_BLOCK = 1
    SLOTS_PER_EPOCH = 1
    DepositChoices <- MCDeposit
    NoDeposit = NoDeposit
    MaxHeight = 2
    MaxReorgs = 1
    MaxRestarts = 1
    MaxInFlight = 1
INVARIANTS
    HeadIsFinal
    ClaimsSurviveReorgs
