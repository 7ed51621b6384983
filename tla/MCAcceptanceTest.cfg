\* One rollup version of three blocks: two for the manual setup, one for the
\* soak, three more after the resync.
SPECIFICATION Spec
CONSTANTS
    Versions = 1
    BlocksPerVersion = 3
    FirstThroughputBatch = 1
    EarlySlots = 1
    NearEnd = 2
    MaxRuns = 3
    MaxSlots = 7
    MaxEmpty = 0
    MaxCrashes = 1
    FullSlotSaveInterval = 2
    Policies = {"error", "clobber"}
INVARIANTS
    PassMeansReplayed
    AlarmHasCause
    NothingOutlives
    NoFalseAssertion
PROPERTY
    SignalEndsRun
CHECK_DEADLOCK FALSE
