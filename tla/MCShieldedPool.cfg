\* Four leaves, a ring of three roots, balances of three bits.
SPECIFICATION PoolSpec
CONSTANTS
    n1 = n1  n2 = n2  usdc = usdc  c1 = c1  c2 = c2  e1 = e1
    TREE_DEPTH = 2
    ROOTS_HISTORY_SIZE = 3
    Zero32 = Zero32
    hash_pair <- MCHashPair
    HashNote <- MCHashNote
    Assets = {usdc}
    Nullifiers = {n1, n2}
    Ciphertexts = {e1}
    Senders = {alice}
    Commitments = {c1, c2}
    Notes <- MCNotes
    Amounts = {3}
    NullifierLists <- MCNullifierLists
    OutputLists <- MCOutputLists
    EncryptedLists <- MCEncryptedLists
    SanctionsRoots = {Zero32, s1, s2}
    Timestamps = {0, 1}
    Clock = {2, 4}
    SANCTIONS_PROOF_MAX_AGE_SECS = 2
    U64 = 4
INVARIANTS
    PoolTypeOK
    KnownRootsAreRecent
    RevealedAtMostOnce
    SupplyAccounting
    RootsMatchRebuild
    PathsVerify
