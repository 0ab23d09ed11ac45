CONSTANTS
    NoFile = NoFile
    Writers = {w1, w2, w3}
    Readers = {r1}
    MaxKills = 1
    MaxCuts = 1
SPECIFICATION FairStoreSpec
INVARIANTS
    ReturnedStaysReadable
    SecondLinkHasAReason
PROPERTIES
    CallsEnd
    ImplementsDurableBlob
CHECK_DEADLOCK FALSE
