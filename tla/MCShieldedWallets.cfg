\* Two wallets, a tree of four leaves, a ring of two roots, two proofs in
\* flight; the sanctions list is published once, and a proof is too old
\* after a second.
SPECIFICATION WalletsSpec
CONSTANTS
    usdc = usdc
    TREE_DEPTH = 2
    ROOTS_HISTORY_SIZE = 2
    Zero32 = 0
    hash_pair <- MCHashPair
    HashNote <- MCHashNote
    Assets = {usdc}
    Nullifiers <- MCNullifiers
    Ciphertexts = {}
    Senders = {oracle}
    Commitments <- MCCommitments
    Notes <- MCNotes
    Amounts = {}
    NullifierLists = {}
    OutputLists = {}
    EncryptedLists = {}
    SanctionsRoots = {ofac}
    Timestamps = {}
    Clock = {}
    SANCTIONS_PROOF_MAX_AGE_SECS = 0
    U64 = 5
    U32 = 5
    U16 = 256
    Wallets = {"alice", "bob"}
    Shielders = {"alice"}
    ShieldAmounts = {2}
    PayAmounts = {0, 1, 2}
    ProofSlots = {1, 2}
    MaxSalt = 4
    MaxTime = 2
INVARIANTS
    ValueConserved
    NotesReachOwners
    AuditAgrees
    AggregateBinds
PROPERTY
    ProofsSettle
CHECK_DEADLOCK FALSE
