SPECIFICATION ProtectionSpec
CONSTANTS
    o1 = o1
    o2 = o2
    a1 = a1
    a2 = a2
    NoActivation = NoActivation
    Observations <- MCObservations
    Activations <- MCActivations
    MaxIssued = 3
    MaxEvaluations = 1
SYMMETRY Symmetry
INVARIANTS
    OneExecutionPerReservation
