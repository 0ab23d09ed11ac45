CONSTANTS
    Keys = {k1, k2}
    Inputs = {in1, in2}
    Owners = {o1, o2, legacy}
    Contents = {c1, c2}
    Nobody = Nobody
    NoOutput = NoOutput
    LegacyOwner = legacy
    MaxClaims = 3
SPECIFICATION LedgerSpec
INVARIANTS
    HistoryTellsClaim
    CompletionIsProvable
PROPERTIES
    SettledIsFinal
    ImplementsOneOutcome
