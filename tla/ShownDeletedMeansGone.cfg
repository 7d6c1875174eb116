SPECIFICATION Spec
CONSTANTS
    cats = cats
    tea = tea
    Redacted = Redacted
    Meanings <- MCMeanings
    KeepLatest = 2
    MaxInputs = 4
    MaxItems = 2
    MaxGenerations = 3
INVARIANT ShownDeletedMeansGone
