SPECIFICATION Spec
CONSTANTS
    cats = cats
    tea = tea
    Redacted = Redacted
    Meanings <- MCMeanings
    KeepLatest = 2
    MaxInputs = 5
    MaxItems = 3
    MaxGenerations = 3
SYMMETRY Symmetry
INVARIANTS
    CompletedMeansGone
    PendingIsCurrent
    VersionsIdentify
PROPERTIES
    DeletionIsFinal
