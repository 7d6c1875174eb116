SPECIFICATION WindowSpec
CONSTANTS
    MaxSelected = 1
    MaxCharacters = 6
    Sizes = {1, 3}
    InputLimits = {3, 8}
    Lengths = {1, 6}
    Reply = 1
    MaxExchanges = 2
    Experiences = {"brief"}
    MaxItems = 2
    MaxAltered = 1
    MaxLifecycles = 3
INVARIANTS
    NothingReturnsUnlessRaised
CHECK_DEADLOCK FALSE
