CONSTANTS
    c1 = c1
    k1 = k1
    o1 = o1
    s1 = s1
    Nobody = Nobody
    NoOutput = NoOutput
    NoAuthority = NoAuthority
    Keys = {k1, k2}
    Inputs = {"input"}
    Input = "input"
    Owners = {o1, o2}
    LegacyOwner = o2
    Contents = {s1, s2}
    MaxClaims = 4
    Calls = {c1, c2}
    Actors = {"human"}
    MaxCrashes = 1
SPECIFICATION MCAssessmentSpec
PROPERTIES
    FiledBecomesResolvable
CHECK_DEADLOCK FALSE
