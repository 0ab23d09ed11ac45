CONSTANTS
    NoFile = NoFile
    Writers = {w1, w2}
    Readers = {r1}
    MaxKills = 1
    MaxCuts = 0
SPECIFICATION StoreSpec
INVARIANTS
    NoFalseCollision
CHECK_DEADLOCK FALSE
