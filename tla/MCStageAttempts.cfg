CONSTANTS
    build = build
    verify = verify
    a1 = a1
    a2 = a2
    a3 = a3
    legacy = legacy
    Nobody = Nobody
    NoOutput = NoOutput
    Keys = {build, verify}
    Inputs = {"input"}
    Input = "input"
    Owners = {a1, a2, a3, legacy}
    LegacyOwner = legacy
    Contents = {a1, a2, a3}
    MaxClaims = 4
    StageOrder <- MCStageOrder
    Requires <- MCRequires
    Absorbing = {verify}
    MaxTries = 2
    NonRetryable <- MCNonRetryable
SPECIFICATION FairStageSpec
INVARIANTS
    SuccessIsTheCompletedOutput
    QuarantinedByItsOwner
    FailureLeavesNoClaim
    OneProcessPerOperation
PROPERTIES
    RunEnds
    EffectIsAdopted
CHECK_DEADLOCK FALSE
