SPECIFICATION Spec
CONSTANTS
    Topics = {"tea"}
    Objects = {"file"}
    Values = {"brief", "ask_first"}
    Budgets = {24, 256}
    Ttl = 1
    MaxTime = 1
    MaxContexts = 2
    MaxEvents = 6
    MaxAside = 1
INVARIANTS
    TypeOK
    PendingStaysValid
    EvidenceIsTheLastReply
    AskFirstIsKept
    EveryStateCanBeSaved
PROPERTIES
    ConfirmedSeparately
    HomeIsKept
CHECK_DEADLOCK FALSE
