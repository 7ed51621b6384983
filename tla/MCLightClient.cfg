\* Four slots after genesis, a relayer with mock proofs and one without, one
\* failure; an update may bring the head one slot forward.
SPECIFICATION LightSpec
CONSTANTS
    usdc = usdc  bridge = bridge
    TREE_DEPTH = 1
    ROOTS_HISTORY_SIZE = 2
    Zero32 = Zero32
    ZeroChunk = Zero32
    hash_pair <- MCHashPair
    HashNote <- MCHashNote
    Assets = {usdc}
    Nullifiers = {}
    Ciphertexts = {}
    Senders = {}
    Commitments = {}
    Notes = {}
    Amounts = {}
    NullifierLists = {}
    OutputLists = {}
    EncryptedLists = {}
    SanctionsRoots = {}
    Timestamps = {}
    Clock = {}
    SANCTIONS_PROOF_MAX_AGE_SECS = 2
    U64 = 8
    U64Width = 10000
    U128Width = 10000
    BridgeContract = bridge
    BridgedUsdc = usdc
    Contracts = {bridge}
    DepositIds = {}
    DepositAmounts = {}
    Recipients = {}
    EthBlocks <- MCBlocks
    EthRecipients = {}
    BeaconRoots = {}
    Slots = {}
    InitialBeaconRoot = Zero32
    InitialSlot = 0
    MaxSlotGap = 1
    Relayers = {"mock", "native"}
    MockRelayers = {"mock"}
    FinalityLag = 1
    MaxSlot = 4
    MaxFailures = 1
INVARIANTS
    WitnessAccepted
    HeadIsOneBlock
PROPERTY
    HeadCatchesUp
