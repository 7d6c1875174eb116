SPECIFICATION FairSpec
CONSTANTS
    None = None
    Tolerance = 1
    MaxWall = 4
    MaxStep = 2
    MaxFaults = 3
INVARIANTS
    InternalFollowsWall
PROPERTIES
    TimeNeverRunsBack
    LifeGoesOn
