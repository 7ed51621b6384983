\* Every list of six addresses at the start, another published, two refreshes
\* that overlap.
SPECIFICATION OracleSpec
CONSTANTS
    Addresses = {1, 2, 3, 4, 5, 6}
    hash_addr <- MCHashAddr
    MAX_KEY = 7
    INDEX_WIDTH = 16
    FirstLists <- MCFirstLists
    Updates <- MCUpdates
    Refreshers = {f1, f2}
    RefreshSecret = s1
    Secrets = {s1, s2}
    None = None
    MaxPublished = 2
INVARIANTS
    RootNamesList
    WitnessesVerify
    CircuitSound
