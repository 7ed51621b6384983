\* Two chains that share the file; the polls of one of them overlap.
SPECIFICATION VaultSpec
CONSTANTS
    a = a  b = b
    Chains = {a, b}
    Polls <- MCPolls
    START_WINDOW = 2
    blockRange = 1
    MaxBlock = 2
    MaxReboots = 1
    MaxReleases = 2
INVARIANTS
    ProcessedWasSent
    PositionsWereScanned
