SPECIFICATION Spec
CONSTANTS
    stage14 = stage14
    stage15 = stage15
    stage16 = stage16
    NoVersion = NoVersion
    Versions <- MCVersions
    UpgradesFrom <- MCUpgradesFrom
    KeepLatest = 2
    MaxSequence = 5
    MaxOpens = 4
    MaxDamage = 1
CHECK_DEADLOCK FALSE
INVARIANTS
    OneSubject
    ResumesWhatWasCommitted
    BornMeansOpenable
