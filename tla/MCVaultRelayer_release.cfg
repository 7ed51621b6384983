\* One chain, two polls that may overlap.
SPECIFICATION VaultSpec
CONSTANTS
    a = a  b = b
    Chains = {a}
    Polls <- MCPolls
    START_WINDOW = 2
    blockRange = 1
    MaxBlock = 2
    MaxReboots = 0
    MaxReleases = 2
INVARIANTS
    ReleasedAtMostOnce
