SPECIFICATION Spec
CONSTANTS
    MaxLifecycles = 4
    MaxItems = 2
CHECK_DEADLOCK FALSE
INVARIANTS
    DeletedMeansRedacted
PROPERTIES
    WindowsHoldNothingWithdrawn
    RedactionIsPrecise
