SPECIFICATION WindowSpec
CONSTANTS
    MaxSelected = 2
    MaxCharacters = 4
    Sizes = {1, 2}
    InputLimits = {8}
    Lengths = {1, 5}
    Reply = 1
    MaxExchanges = 2
    Experiences = {}
    MaxItems = 3
    MaxAltered = 1
    MaxLifecycles = 2
INVARIANTS
    RecordCoversModelInput
CHECK_DEADLOCK FALSE
