SPECIFICATION Spec
CONSTANTS
    Contents = {"a", "b"}
    Ttl = 2
    MaxTime = 3
    Limits = {2, 4}
    MaxChanges = 6
    MaxRefused = 1
INVARIANTS
    HistoryExplainsItems
PROPERTIES
    ConfirmedSeparately
    WithdrawnStaysWithdrawn
CHECK_DEADLOCK FALSE
