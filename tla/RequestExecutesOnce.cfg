SPECIFICATION Spec
CONSTANTS
    Failures = {"timeout"}
    MaxInputs = 2
    MaxDirect = 1
    MaxFaults = 2
INVARIANT RequestExecutesOnce
CHECK_DEADLOCK FALSE
