------------------------- MODULE SubprocessSupervision -------------------------
(***************************************************************************)
(* One subprocess run on behalf of a replay stage: execute() of executor.py *)
(* with its launch, cleanup and late-launch supervision, the verification    *)
(* stage's wait around it (_await_verification_execution), and the verdict   *)
(* the stage's except block reaches about its claim (_releasable).           *)
(*                                                                         *)
(* The coroutine, the launch, the process and the cleanup task are separate  *)
(* activities: a cancellation, an expired budget or an exit may fall between *)
(* any two of their steps.                                                  *)
(***************************************************************************)
EXTENDS Naturals

CONSTANTS
    Waits,      \* the kinds of wait around execute(): TRUE, the verification
                \* stage's, which absorbs repeated cancellations; FALSE, that of
                \* the other stages, which await execute() itself
    MaxCancels  \* bound on the cancellations delivered to the stage

ASSUME SupervisionAssumption == Waits \subseteq BOOLEAN /\ MaxCancels \in Nat

VARIABLES
    shielded, \* which of the waits this stage has
    co,       \* where the execute() coroutine stands
    launch,   \* the launch task: its handle is pending, returned or failed
    tree,     \* who holds the pipes: the direct child (and what it started),
              \* only a grandchild that outlived it, or nobody any more
    killed,   \* whether a kill was sent to the direct child
    cleaner,  \* the shielded _clean_up task
    minder,   \* the done-callback of _supervise_late_launch
    dirty,    \* whether an undeclared path of the workspace was mutated
    first,    \* what interrupted communicate(), if anything did
    raised,   \* the exception execute() ended with, and whether it is marked
    cancels,  \* cancellations delivered to the stage so far
    late,     \* whether one of them came when execute() had ended
    verdict   \* what the stage then does with its claim

vars == <<shielded, co, launch, tree, killed, cleaner, minder, dirty, first, raised, cancels,
          late, verdict>>

Errors == {"none", "Cancelled", "TimeoutError", "PermissionError",
           "ProcessNotReaped", "LaunchError"}

NoError == [error |-> "none", marked |-> FALSE]
Plain(e) == [error |-> e, marked |-> FALSE]

Init ==
    /\ shielded \in Waits
    /\ co = "launching" /\ launch = "pending" /\ tree = "none"
    /\ killed = FALSE /\ cleaner = "idle" /\ minder = FALSE /\ dirty = FALSE
    /\ first = "none" /\ raised = NoError /\ cancels = 0 /\ late = FALSE /\ verdict = "none"

Ended == co \in {"returned", "raised"}

-----------------------------------------------------------------------------
(* The launch task and the process.                                         *)

\* Mutant: a handle that arrives after the stage gave up is dropped.
LaunchReturnsUnminded ==
    /\ launch = "pending"
    /\ launch' = "handle"
    /\ tree' = "child"
    /\ co' = CASE co = "launching"        -> "talking"
               [] co = "launch_cancelled" -> "launch_cleanup"
               [] OTHER                   -> co
    /\ cleaner' = IF co = "launch_cancelled" THEN "created" ELSE cleaner
    /\ UNCHANGED <<shielded, killed, minder, dirty, first, raised, cancels, late, verdict>>

\* create_subprocess_exec hands back a process.  A coroutine that gave up on the
\* launch is not told; the late-launch supervisor, if installed, cleans up.
LaunchReturns ==
    /\ launch = "pending"
    /\ launch' = "handle"
    /\ tree' = "child"
    /\ co' = CASE co = "launching"        -> "talking"
               [] co = "launch_cancelled" -> "launch_cleanup"
               [] OTHER                   -> co
    /\ cleaner' = IF co = "launch_cancelled" \/ minder THEN "created" ELSE cleaner
    /\ UNCHANGED <<shielded, killed, minder, dirty, first, raised, cancels, late, verdict>>

\* Nothing was started.  A waiting coroutine gets the launch's own error.
LaunchFails ==
    /\ launch = "pending"
    /\ launch' = "failed"
    /\ IF co \in {"launching", "launch_cancelled"}
       THEN co' = "raised" /\ raised' = Plain("LaunchError")
       ELSE UNCHANGED <<co, raised>>
    /\ UNCHANGED <<shielded, tree, killed, cleaner, minder, dirty, first, cancels, late, verdict>>

\* The process, or a grandchild of it, writes outside the declared paths.
TreeMutates ==
    /\ tree \in {"child", "stray"}
    /\ dirty' = TRUE
    /\ UNCHANGED <<shielded, co, launch, tree, killed, cleaner, minder, first, raised,
                   cancels, late, verdict>>

\* The direct child ends, killed or of its own accord, and may leave a grandchild
\* holding its pipes.
ChildExits ==
    /\ tree = "child"
    /\ tree' \in {"stray", "gone"}
    /\ UNCHANGED <<shielded, co, launch, killed, cleaner, minder, dirty, first, raised,
                   cancels, late, verdict>>

StrayExits ==
    /\ tree = "stray"
    /\ tree' = "gone"
    /\ UNCHANGED <<shielded, co, launch, killed, cleaner, minder, dirty, first, raised,
                   cancels, late, verdict>>

-----------------------------------------------------------------------------
(* The cleanup task: kill, then wait a bounded time for the pipes to close.  *)

\* Only the direct child is killed, and only while it has not exited.
CleanerStarts ==
    /\ cleaner = "created"
    /\ cleaner' = "waiting"
    /\ killed' = (killed \/ tree = "child")
    /\ UNCHANGED <<shielded, co, launch, tree, minder, dirty, first, raised, cancels,
                   late, verdict>>

\* Mutant: the mark is set whether or not the cleanup failed.
AfterCleanupMarking(mark) ==
    raised' = [error |-> IF dirty THEN "PermissionError" ELSE first, marked |-> TRUE]

\* Re-raise what interrupted communicate(), unless the workspace was mutated
\* outside the declared paths: the snapshot comparison comes first and its
\* PermissionError replaces the interruption.
AfterCleanup(mark) ==
    raised' = IF dirty
              THEN [error |-> "PermissionError", marked |-> mark]
              ELSE [error |-> first, marked |-> mark]

CleanerReaps ==
    /\ cleaner = "waiting" /\ tree = "gone"
    /\ cleaner' = "reaped"
    /\ CASE co = "cleaning"       -> co' = "raised" /\ AfterCleanup(FALSE)
         [] co = "launch_cleanup" -> co' = "raised" /\ raised' = Plain("Cancelled")
         [] OTHER                 -> UNCHANGED <<co, raised>>
    /\ UNCHANGED <<shielded, launch, tree, killed, minder, dirty, first, cancels, late, verdict>>

\* Mutant: the wait after the kill has no budget.
CleanerWaitsForEver == FALSE

\* The cleanup budget expires with the pipes still held.  Around communicate()
\* the fact is marked on the interruption; around a launch it replaces it.
CleanerGivesUp ==
    /\ cleaner = "waiting" /\ tree # "gone"
    /\ cleaner' = "gave_up"
    /\ CASE co = "cleaning"       -> co' = "raised" /\ AfterCleanup(TRUE)
         [] co = "launch_cleanup" -> co' = "raised" /\ raised' = Plain("ProcessNotReaped")
         [] OTHER                 -> UNCHANGED <<co, raised>>
    /\ UNCHANGED <<shielded, launch, tree, killed, minder, dirty, first, cancels, late, verdict>>

-----------------------------------------------------------------------------
(* The coroutine.                                                           *)

\* Mutant: the second snapshot is not compared.
TalkEndsUnchecked ==
    /\ co = "talking" /\ tree = "gone"
    /\ co' = "returned"
    /\ UNCHANGED <<shielded, launch, tree, killed, cleaner, minder, dirty, first, raised,
                   cancels, late, verdict>>

\* communicate() returned before its budget: the second snapshot decides.
TalkEnds ==
    /\ co = "talking" /\ tree = "gone"
    /\ IF dirty
       THEN co' = "raised" /\ raised' = Plain("PermissionError")
       ELSE co' = "returned" /\ UNCHANGED raised
    /\ UNCHANGED <<shielded, launch, tree, killed, cleaner, minder, dirty, first,
                   cancels, late, verdict>>

TalkTimesOut ==
    /\ co = "talking"
    /\ co' = "cleaning" /\ first' = "TimeoutError" /\ cleaner' = "created"
    /\ UNCHANGED <<shielded, launch, tree, killed, minder, dirty, raised, cancels, late, verdict>>

\* The launch did not hand back a process within the cleanup budget.
LaunchWaitTimesOut ==
    /\ co = "launch_cancelled" /\ launch = "pending"
    /\ co' = "raised" /\ raised' = Plain("ProcessNotReaped") /\ minder' = TRUE
    /\ UNCHANGED <<shielded, launch, tree, killed, cleaner, dirty, first, cancels, late, verdict>>

\* A cancellation reaches the await the coroutine is suspended at.  The first
\* one starts the cleanup; one that arrives during the cleanup ends the
\* coroutine there and then with an exception nobody marked.
CancelCoroutine ==
    CASE co = "launching" ->
            /\ co' = "launch_cancelled"
            /\ UNCHANGED <<first, cleaner, raised>>
      [] co = "talking" ->
            /\ co' = "cleaning" /\ first' = "Cancelled" /\ cleaner' = "created"
            /\ UNCHANGED raised
      [] co \in {"launch_cancelled", "launch_cleanup", "cleaning"} ->
            /\ co' = "raised" /\ raised' = Plain("Cancelled")
            /\ UNCHANGED <<first, cleaner>>

\* The verification stage passes its first cancellation on to the coroutine and
\* keeps waiting whatever comes after it; a coroutine that has ended is left be.
CancelStage ==
    /\ verdict = "none" /\ cancels < MaxCancels
    /\ ~Ended \/ shielded
    /\ cancels' = cancels + 1
    /\ IF Ended \/ (shielded /\ cancels > 0)
       THEN UNCHANGED <<co, first, cleaner, raised>>
       ELSE CancelCoroutine
    /\ late' = (late \/ Ended)
    /\ UNCHANGED <<shielded, launch, tree, killed, minder, dirty, verdict>>

-----------------------------------------------------------------------------
(* The stage's except block.                                                *)

\* process_not_reaped walks the exception and its chain.
NotReaped(r) == r.error = "ProcessNotReaped" \/ r.marked

\* What the stage catches.  The verification wait, once cancelled, raises its
\* own CancelledError: an error of the coroutine other than a cancellation stays
\* in its chain when it is what ends the wait, and is left to a note when a
\* cancellation does; a cancellation of the coroutine is dropped.
Caught ==
    IF shielded /\ cancels > 0
    THEN [error  |-> "Cancelled",
          marked |-> ~late /\ raised.error # "Cancelled" /\ NotReaped(raised)]
    ELSE raised

Releasable(r) == r.error = "Cancelled" /\ ~NotReaped(r)

Decide ==
    /\ Ended /\ verdict = "none"
    /\ verdict' = CASE co = "returned" /\ ~(shielded /\ cancels > 0) -> "proceed"
                    [] Releasable(Caught)                          -> "release"
                    [] OTHER                                       -> "quarantine"
    /\ UNCHANGED <<shielded, co, launch, tree, killed, cleaner, minder, dirty, first,
                   raised, cancels, late>>

\* A stage that has decided, with nothing left running, has no step to take.
Finished ==
    /\ verdict # "none" /\ launch # "pending" /\ tree \notin {"child", "stray"}
    /\ cleaner \in {"idle", "reaped", "gave_up"}
    /\ UNCHANGED vars

Next ==
    \/ LaunchReturns \/ LaunchFails
    \/ TreeMutates \/ ChildExits \/ StrayExits
    \/ CleanerStarts \/ CleanerReaps \/ CleanerGivesUp
    \/ TalkEnds \/ TalkTimesOut \/ LaunchWaitTimesOut
    \/ CancelStage
    \/ Decide
    \/ Finished

Spec == Init /\ [][Next]_vars

\* The event loop runs the tasks that are ready and its timers expire; the
\* operating system answers a launch and ends a child that was killed.  Nothing
\* else makes a process exit.
Fairness ==
    /\ WF_vars(LaunchReturns \/ LaunchFails)
    /\ WF_vars(killed /\ ChildExits)
    /\ WF_vars(CleanerStarts) /\ WF_vars(CleanerReaps \/ CleanerGivesUp)
    /\ WF_vars(TalkEnds \/ TalkTimesOut) /\ WF_vars(LaunchWaitTimesOut)
    /\ WF_vars(Decide)

FairSpec == Spec /\ Fairness

-----------------------------------------------------------------------------
(* Properties.                                                             *)

TypeOK ==
    /\ shielded \in Waits
    /\ co \in {"launching", "launch_cancelled", "launch_cleanup", "talking", "cleaning",
               "returned", "raised"}
    /\ launch \in {"pending", "handle", "failed"}
    /\ tree \in {"none", "child", "stray", "gone"}
    /\ killed \in BOOLEAN /\ minder \in BOOLEAN /\ dirty \in BOOLEAN
    /\ cleaner \in {"idle", "created", "waiting", "reaped", "gave_up"}
    /\ first \in {"none", "TimeoutError", "Cancelled"}
    /\ raised \in [error : Errors, marked : BOOLEAN]
    /\ cancels \in 0..MaxCancels /\ late \in BOOLEAN
    /\ verdict \in {"none", "proceed", "release", "quarantine"}

\* A claim is released only when no process of the attempt can still be writing,
\* nor be about to start: a release is what lets a second attempt begin.
\* (_releasable: "Only a cancellation, and only one whose subprocess was shown to
\* have exited.")
ReleasedOnlyAfterExit ==
    verdict = "release" => tree \notin {"child", "stray"} /\ launch # "pending"


\* The other way round, which costs a run its operation key for good: a
\* cancellation whose process was reaped and which wrote nothing undeclared is
\* never quarantined, however many cancellations and timers raced with it.
CleanCancellationIsReleased ==
    verdict = "quarantine" /\ first = "Cancelled" => dirty \/ cleaner = "gave_up"

\* A stage proceeds to capture its workspace only after every writer is gone and
\* the mutations were all declared, whatever was cancelled on the way.
ProceedsOnCleanWorkspace ==
    verdict = "proceed" => tree = "gone" /\ ~dirty

\* A stage interrupted by its budget or by a cancellation ends, whatever its
\* process does: even a grandchild that never closes the pipes cannot hold it.
InterruptedStageDecides == cancels > 0 \/ first # "none" ~> verdict # "none"

\* The direct child never outlives its stage for good, not even one whose launch
\* returned after the stage had given up on it.  A stage that awaits execute()
\* itself promises this for one cancellation only: a second one that arrives while
\* the launch is pending is let through before the late launch has a minder.
ChildDiesWithItsStage ==
    verdict # "none" /\ (shielded \/ cancels < 2) ~> tree # "child"

=============================================================================
