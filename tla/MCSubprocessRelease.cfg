CONSTANTS
    Waits = {FALSE}
    MaxCancels = 3
SPECIFICATION FairSpec
INVARIANTS
    ReleasedOnlyAfterExit
