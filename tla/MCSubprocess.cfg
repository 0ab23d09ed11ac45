CONSTANTS
    Waits = {TRUE, FALSE}
    MaxCancels = 3
SPECIFICATION FairSpec
INVARIANTS
    CleanCancellationIsReleased
    ProceedsOnCleanWorkspace
PROPERTIES
    InterruptedStageDecides
    ChildDiesWithItsStage
