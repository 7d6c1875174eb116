SPECIFICATION Spec
CONSTANTS
    Failures = {"timeout"}
    MaxInputs = 2
    MaxDirect = 1
    MaxFaults = 2
INVARIANTS
    AdoptionIsEarned
    ToldMeansTraced
    MemoriesAreTraced
CHECK_DEADLOCK FALSE
