SPECIFICATION Spec
CONSTANTS
    k1 = k1
    k2 = k2
    readme = readme
    notes = notes
    local = local
    other = other
    Keys <- MCKeys
    Targets <- MCTargets
    Authorities <- MCAuthorities
    Grants <- MCGrants
    Counterpart = local
    NoCall = NoCall
    MaxRequests = 3
SYMMETRY Symmetry
INVARIANTS
    OutcomesAreTrue
    EvidenceIsCompleted
PROPERTIES
    ImplementsAtMostOnce
    ReadsAreGranted
