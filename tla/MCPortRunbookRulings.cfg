CONSTANTS
    PhoneWalks = 1
    WalkLength = 1
    ToggleStates = {"off"}
    MaxRequests = 0
    Raisable = {"e1"}
    MaxBuilds = 2
    Unstated = Unstated
SPECIFICATION RunbookSpec
INVARIANT FinishedBuildCarriesTheRulings
CHECK_DEADLOCK FALSE
