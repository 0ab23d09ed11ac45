CONSTANTS
    MaxDrives = 2
    MaxDecisions = 2
    MaxAdmits = 4
    MaxTime = 4
    GateTimeout = 2
    Grace = 1
    Skew = 1
    MaxTries = 2
    NoDecision = NoDecision
SPECIFICATION FairRunSpec
INVARIANTS
    VerifiesOnlyConsent
    AnswersTheGateSeen
PROPERTIES
    GrantIsSingleShot
    DriveEnds
CHECK_DEADLOCK FALSE
