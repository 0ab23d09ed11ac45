----------------------- MODULE SubprocessSupervisionProofs ----------------------
(***************************************************************************)
(* What a stage may conclude from how its subprocess ended, for any number   *)
(* of cancellations: the type invariant, that a stage proceeds only over a   *)
(* workspace nobody writes any more, and that a clean cancellation is never   *)
(* quarantined.                                                             *)
(***************************************************************************)
EXTENDS SubprocessSupervision, TLAPS

\* Before the launch has answered there is nothing to clean up and nothing was
\* interrupted.
PendingInv ==
    launch = "pending" =>
      /\ co \in {"launching", "launch_cancelled", "raised"}
      /\ tree = "none" /\ cleaner = "idle" /\ first = "none"

\* What communicate() was interrupted by is known from its cleanup on only.
FirstInv ==
    /\ co \in {"launching", "launch_cancelled", "launch_cleanup", "talking", "returned"} =>
         first = "none"
    /\ co = "cleaning" => first # "none"

\* The coroutine returns only when the pipes are closed and nothing undeclared
\* was written; nothing can write after that.
ReturnedInv == co = "returned" => launch # "pending" /\ tree = "gone" /\ ~dirty

\* A cancelled communicate() ends with the cancellation, or with what the second
\* snapshot showed; it is marked only by a cleanup that gave up.
CancelledInv ==
    first = "Cancelled" /\ co = "raised" =>
      /\ raised.error \in {"Cancelled", "PermissionError"}
      /\ raised.error = "PermissionError" => dirty
      /\ raised.marked => cleaner = "gave_up"

VerdictInv ==
    /\ verdict # "none" => Ended
    /\ verdict = "proceed" => co = "returned"
    /\ CleanCancellationIsReleased

SupervisionInv ==
    TypeOK /\ PendingInv /\ FirstInv /\ ReturnedInv /\ CancelledInv /\ VerdictInv

-----------------------------------------------------------------------------
(* The type invariant in three parts: phases and counters, flags, exceptions. *)

PhaseOK ==
    /\ co \in {"launching", "launch_cancelled", "launch_cleanup", "talking", "cleaning",
               "returned", "raised"}
    /\ launch \in {"pending", "handle", "failed"}
    /\ tree \in {"none", "child", "stray", "gone"}
    /\ cleaner \in {"idle", "created", "waiting", "reaped", "gave_up"}
    /\ first \in {"none", "TimeoutError", "Cancelled"}
    /\ cancels \in 0..MaxCancels
    /\ verdict \in {"none", "proceed", "release", "quarantine"}

FlagOK ==
    /\ shielded \in Waits /\ killed \in BOOLEAN /\ minder \in BOOLEAN
    /\ dirty \in BOOLEAN /\ late \in BOOLEAN

Exceptions == [error : Errors, marked : BOOLEAN]

LEMMA Exception == \A e \in Errors, m \in BOOLEAN : [error |-> e, marked |-> m] \in Exceptions
  BY Zenon DEF Exceptions

LEMMA TypeParts == TypeOK <=> PhaseOK /\ FlagOK /\ raised \in Exceptions
  BY Zenon DEF TypeOK, PhaseOK, FlagOK, Exceptions

\* Whatever await a cancellation reaches, it starts the cleanup or ends the
\* coroutine with an unmarked cancellation; one that has ended is left as it is.
LEMMA CancelEffect ==
  ASSUME PhaseOK, CancelStage
  PROVE  \/ UNCHANGED <<co, first, cleaner, raised>>
         \/ /\ co = "launching" /\ co' = "launch_cancelled"
            /\ UNCHANGED <<first, cleaner, raised>>
         \/ /\ co = "talking" /\ co' = "cleaning"
            /\ first' = "Cancelled" /\ cleaner' = "created" /\ UNCHANGED raised
         \/ /\ co \in {"launch_cancelled", "launch_cleanup", "cleaning"} /\ co' = "raised"
            /\ raised' = Plain("Cancelled") /\ UNCHANGED <<first, cleaner>>
  <1>1. CASE Ended \/ (shielded /\ cancels > 0)
    BY <1>1 DEF CancelStage
  <1>2. CASE ~(Ended \/ (shielded /\ cancels > 0))
    <2>1. CancelCoroutine /\ co \notin {"returned", "raised"}
      BY <1>2 DEF CancelStage, Ended
    <2> QED
      BY <2>1 DEF CancelCoroutine, PhaseOK
  <1> QED
    BY <1>1, <1>2

LEMMA InvInit == Init => SupervisionInv
  <1> SUFFICES ASSUME Init
               PROVE  SupervisionInv
    OBVIOUS
  <1>1. PhaseOK
    BY SupervisionAssumption DEF Init, PhaseOK
  <1>2. FlagOK
    BY Zenon DEF Init, FlagOK
  <1>3. raised \in Exceptions
    BY Exception DEF Init, NoError, Errors
  <1>4. PendingInv /\ FirstInv /\ ReturnedInv /\ CancelledInv /\ VerdictInv
    BY DEF Init, PendingInv, FirstInv, ReturnedInv, CancelledInv, VerdictInv,
           CleanCancellationIsReleased
  <1> QED
    BY <1>1, <1>2, <1>3, <1>4, TypeParts DEF SupervisionInv

LEMMA TypeStep == TypeOK /\ [Next]_vars => TypeOK'
  <1> SUFFICES ASSUME TypeOK, [Next]_vars
               PROVE  TypeOK'
    OBVIOUS
  <1> USE TypeParts
  <1>1. CASE LaunchReturns
    <2>1. PhaseOK'
      BY <1>1 DEF PhaseOK, LaunchReturns
    <2>2. FlagOK'
      BY Zenon, <1>1 DEF FlagOK, LaunchReturns
    <2>3. raised' \in Exceptions
      BY <1>1 DEF LaunchReturns
    <2> QED
      BY Zenon, <2>1, <2>2, <2>3 DEF TypeOK, PhaseOK, FlagOK, Exceptions
  <1>2. CASE LaunchFails
    <2>1. PhaseOK'
      BY <1>2 DEF PhaseOK, LaunchFails
    <2>2. FlagOK'
      BY Zenon, <1>2 DEF FlagOK, LaunchFails
    <2>3. raised' \in Exceptions
      BY <1>2, Exception DEF LaunchFails, Plain, Errors
    <2> QED
      BY Zenon, <2>1, <2>2, <2>3 DEF TypeOK, PhaseOK, FlagOK, Exceptions
  <1>3. CASE TreeMutates
    <2>1. PhaseOK'
      BY <1>3 DEF PhaseOK, TreeMutates
    <2>2. FlagOK'
      BY Zenon, <1>3 DEF FlagOK, TreeMutates
    <2>3. raised' \in Exceptions
      BY <1>3 DEF TreeMutates
    <2> QED
      BY Zenon, <2>1, <2>2, <2>3 DEF TypeOK, PhaseOK, FlagOK, Exceptions
  <1>4. CASE ChildExits
    <2>1. PhaseOK'
      BY <1>4 DEF PhaseOK, ChildExits
    <2>2. FlagOK'
      BY Zenon, <1>4 DEF FlagOK, ChildExits
    <2>3. raised' \in Exceptions
      BY <1>4 DEF ChildExits
    <2> QED
      BY Zenon, <2>1, <2>2, <2>3 DEF TypeOK, PhaseOK, FlagOK, Exceptions
  <1>5. CASE StrayExits
    <2>1. PhaseOK'
      BY <1>5 DEF PhaseOK, StrayExits
    <2>2. FlagOK'
      BY Zenon, <1>5 DEF FlagOK, StrayExits
    <2>3. raised' \in Exceptions
      BY <1>5 DEF StrayExits
    <2> QED
      BY Zenon, <2>1, <2>2, <2>3 DEF TypeOK, PhaseOK, FlagOK, Exceptions
  <1>6. CASE CleanerStarts
    <2>1. PhaseOK'
      BY <1>6 DEF PhaseOK, CleanerStarts
    <2>2. FlagOK'
      BY Zenon, <1>6 DEF FlagOK, CleanerStarts
    <2>3. raised' \in Exceptions
      BY <1>6 DEF CleanerStarts
    <2> QED
      BY Zenon, <2>1, <2>2, <2>3 DEF TypeOK, PhaseOK, FlagOK, Exceptions
  <1>7. CASE CleanerReaps
    <2>1. PhaseOK'
      BY <1>7 DEF PhaseOK, CleanerReaps
    <2>2. FlagOK'
      BY Zenon, <1>7 DEF FlagOK, CleanerReaps
    <2>3. raised' \in Exceptions
      <3>1. CASE co = "cleaning"
        BY <1>7, <3>1, Exception DEF PhaseOK, CleanerReaps, AfterCleanup, Errors
      <3>2. CASE co = "launch_cleanup"
        BY <1>7, <3>2, Exception DEF CleanerReaps, Plain, Errors
      <3>3. CASE co \notin {"cleaning", "launch_cleanup"}
        BY <1>7, <3>3 DEF CleanerReaps
      <3> QED
        BY <3>1, <3>2, <3>3
    <2> QED
      BY Zenon, <2>1, <2>2, <2>3 DEF TypeOK, PhaseOK, FlagOK, Exceptions
  <1>8. CASE CleanerGivesUp
    <2>1. PhaseOK'
      BY <1>8 DEF PhaseOK, CleanerGivesUp
    <2>2. FlagOK'
      BY Zenon, <1>8 DEF FlagOK, CleanerGivesUp
    <2>3. raised' \in Exceptions
      <3>1. CASE co = "cleaning"
        BY <1>8, <3>1, Exception DEF PhaseOK, CleanerGivesUp, AfterCleanup, Errors
      <3>2. CASE co = "launch_cleanup"
        BY <1>8, <3>2, Exception DEF CleanerGivesUp, Plain, Errors
      <3>3. CASE co \notin {"cleaning", "launch_cleanup"}
        BY <1>8, <3>3 DEF CleanerGivesUp
      <3> QED
        BY <3>1, <3>2, <3>3
    <2> QED
      BY Zenon, <2>1, <2>2, <2>3 DEF TypeOK, PhaseOK, FlagOK, Exceptions
  <1>9. CASE TalkEnds
    <2>1. PhaseOK'
      BY <1>9 DEF PhaseOK, TalkEnds
    <2>2. FlagOK'
      BY Zenon, <1>9 DEF FlagOK, TalkEnds
    <2>3. raised' \in Exceptions
      BY <1>9, Exception DEF TalkEnds, Plain, Errors
    <2> QED
      BY Zenon, <2>1, <2>2, <2>3 DEF TypeOK, PhaseOK, FlagOK, Exceptions
  <1>10. CASE TalkTimesOut
    <2>1. PhaseOK'
      BY <1>10 DEF PhaseOK, TalkTimesOut
    <2>2. FlagOK'
      BY Zenon, <1>10 DEF FlagOK, TalkTimesOut
    <2>3. raised' \in Exceptions
      BY <1>10 DEF TalkTimesOut
    <2> QED
      BY Zenon, <2>1, <2>2, <2>3 DEF TypeOK, PhaseOK, FlagOK, Exceptions
  <1>11. CASE LaunchWaitTimesOut
    <2>1. PhaseOK'
      BY <1>11 DEF PhaseOK, LaunchWaitTimesOut
    <2>2. FlagOK'
      BY Zenon, <1>11 DEF FlagOK, LaunchWaitTimesOut
    <2>3. raised' \in Exceptions
      BY <1>11, Exception DEF LaunchWaitTimesOut, Plain, Errors
    <2> QED
      BY Zenon, <2>1, <2>2, <2>3 DEF TypeOK, PhaseOK, FlagOK, Exceptions
  <1>12. CASE CancelStage
    <2>1. PhaseOK'
      BY <1>12, CancelEffect, SupervisionAssumption DEF PhaseOK, CancelStage
    <2>2. FlagOK'
      BY Zenon, <1>12 DEF FlagOK, CancelStage
    <2>3. raised' \in Exceptions
      BY <1>12, CancelEffect, Exception DEF Plain, Errors
    <2> QED
      BY Zenon, <2>1, <2>2, <2>3 DEF TypeOK, PhaseOK, FlagOK, Exceptions
  <1>13. CASE Decide
    <2>1. PhaseOK'
      BY <1>13 DEF PhaseOK, Decide
    <2>2. FlagOK'
      BY Zenon, <1>13 DEF FlagOK, Decide
    <2>3. raised' \in Exceptions
      BY <1>13 DEF Decide
    <2> QED
      BY Zenon, <2>1, <2>2, <2>3 DEF TypeOK, PhaseOK, FlagOK, Exceptions
  <1>14. CASE UNCHANGED vars
    <2>1. PhaseOK' /\ FlagOK'
      BY <1>14 DEF vars, PhaseOK, FlagOK
    <2>2. raised' \in Exceptions
      BY <1>14 DEF vars
    <2> QED
      BY Zenon, <2>1, <2>2 DEF TypeOK, PhaseOK, FlagOK, Exceptions
  <1> QED
    BY <1>1, <1>2, <1>3, <1>4, <1>5, <1>6, <1>7, <1>8, <1>9,
       <1>10, <1>11, <1>12, <1>13, <1>14 DEF Next, Finished

\* The launch, the tree and the interruption keep in step.
LEMMA PhaseStep == SupervisionInv /\ [Next]_vars => (PendingInv /\ FirstInv)'
  <1> SUFFICES ASSUME SupervisionInv, [Next]_vars
               PROVE  (PendingInv /\ FirstInv)'
    OBVIOUS
  <1> USE TypeParts DEF SupervisionInv, PhaseOK, PendingInv, FirstInv
  <1>1. CASE LaunchReturns
    BY <1>1 DEF LaunchReturns
  <1>2. CASE LaunchFails
    BY <1>2 DEF LaunchFails, Plain
  <1>3. CASE TreeMutates
    BY <1>3 DEF TreeMutates
  <1>4. CASE ChildExits
    BY <1>4 DEF ChildExits
  <1>5. CASE StrayExits
    BY <1>5 DEF StrayExits
  <1>6. CASE CleanerStarts
    BY <1>6 DEF CleanerStarts
  <1>7. CASE CleanerReaps
    BY <1>7 DEF CleanerReaps, AfterCleanup, Plain
  <1>8. CASE CleanerGivesUp
    BY <1>8 DEF CleanerGivesUp, AfterCleanup, Plain
  <1>9. CASE TalkEnds
    BY <1>9 DEF TalkEnds, Plain
  <1>10. CASE TalkTimesOut
    BY <1>10 DEF TalkTimesOut
  <1>11. CASE LaunchWaitTimesOut
    BY <1>11 DEF LaunchWaitTimesOut, Plain
  <1>12. CASE CancelStage
    BY <1>12, CancelEffect DEF CancelStage
  <1>13. CASE Decide
    BY <1>13 DEF Decide, Ended
  <1>14. CASE UNCHANGED vars
    BY <1>14 DEF vars
  <1> QED
    BY <1>1, <1>2, <1>3, <1>4, <1>5, <1>6, <1>7, <1>8, <1>9,
       <1>10, <1>11, <1>12, <1>13, <1>14 DEF Next, Finished

\* Nothing writes after the coroutine returned.
LEMMA ReturnedStep == SupervisionInv /\ [Next]_vars => ReturnedInv'
  <1> SUFFICES ASSUME SupervisionInv, [Next]_vars
               PROVE  ReturnedInv'
    OBVIOUS
  <1> USE TypeParts DEF SupervisionInv, PhaseOK, PendingInv, ReturnedInv
  <1>1. CASE LaunchReturns
    BY <1>1 DEF LaunchReturns
  <1>2. CASE LaunchFails
    BY <1>2 DEF LaunchFails, Plain
  <1>3. CASE TreeMutates
    BY <1>3 DEF TreeMutates
  <1>4. CASE ChildExits
    BY <1>4 DEF ChildExits
  <1>5. CASE StrayExits
    BY <1>5 DEF StrayExits
  <1>6. CASE CleanerStarts
    BY <1>6 DEF CleanerStarts
  <1>7. CASE CleanerReaps
    BY <1>7 DEF CleanerReaps, AfterCleanup, Plain
  <1>8. CASE CleanerGivesUp
    BY <1>8 DEF CleanerGivesUp, AfterCleanup, Plain
  <1>9. CASE TalkEnds
    BY <1>9 DEF TalkEnds, Plain
  <1>10. CASE TalkTimesOut
    BY <1>10 DEF TalkTimesOut
  <1>11. CASE LaunchWaitTimesOut
    BY <1>11 DEF LaunchWaitTimesOut, Plain
  <1>12. CASE CancelStage
    BY <1>12, CancelEffect DEF CancelStage
  <1>13. CASE Decide
    BY <1>13 DEF Decide, Ended
  <1>14. CASE UNCHANGED vars
    BY <1>14 DEF vars
  <1> QED
    BY <1>1, <1>2, <1>3, <1>4, <1>5, <1>6, <1>7, <1>8, <1>9,
       <1>10, <1>11, <1>12, <1>13, <1>14 DEF Next, Finished

\* A second cancellation during the cleanup ends the coroutine unmarked; the
\* cleanup that ends it marks only when it gave up.
LEMMA CancelledStep == SupervisionInv /\ [Next]_vars => CancelledInv'
  <1> SUFFICES ASSUME SupervisionInv, [Next]_vars
               PROVE  CancelledInv'
    OBVIOUS
  <1> USE TypeParts DEF SupervisionInv, PhaseOK, PendingInv, FirstInv, CancelledInv
  <1>1. CASE LaunchReturns
    BY <1>1 DEF LaunchReturns
  <1>2. CASE LaunchFails
    BY <1>2 DEF LaunchFails, Plain
  <1>3. CASE TreeMutates
    BY <1>3 DEF TreeMutates
  <1>4. CASE ChildExits
    BY <1>4 DEF ChildExits
  <1>5. CASE StrayExits
    BY <1>5 DEF StrayExits
  <1>6. CASE CleanerStarts
    BY <1>6 DEF CleanerStarts
  <1>7. CASE CleanerReaps
    BY <1>7 DEF CleanerReaps, AfterCleanup, Plain
  <1>8. CASE CleanerGivesUp
    BY <1>8 DEF CleanerGivesUp, AfterCleanup, Plain
  <1>9. CASE TalkEnds
    BY <1>9 DEF TalkEnds, Plain
  <1>10. CASE TalkTimesOut
    BY <1>10 DEF TalkTimesOut
  <1>11. CASE LaunchWaitTimesOut
    BY <1>11 DEF LaunchWaitTimesOut, Plain
  <1>12. CASE CancelStage
    BY <1>12, CancelEffect DEF CancelStage, Plain
  <1>13. CASE Decide
    BY <1>13 DEF Decide, Ended
  <1>14. CASE UNCHANGED vars
    BY <1>14 DEF vars
  <1> QED
    BY <1>1, <1>2, <1>3, <1>4, <1>5, <1>6, <1>7, <1>8, <1>9,
       <1>10, <1>11, <1>12, <1>13, <1>14 DEF Next, Finished

\* Once the coroutine has ended, what it ended with does not change, so that the
\* verdict stays the right one.
LEMMA VerdictStep == SupervisionInv /\ [Next]_vars => VerdictInv'
  <1> SUFFICES ASSUME SupervisionInv, [Next]_vars
               PROVE  VerdictInv'
    OBVIOUS
  <1> USE TypeParts DEF SupervisionInv, PhaseOK, PendingInv, FirstInv, CancelledInv, VerdictInv,
          CleanCancellationIsReleased, Ended
  <1>1. CASE LaunchReturns
    BY <1>1 DEF LaunchReturns
  <1>2. CASE LaunchFails
    BY <1>2 DEF LaunchFails, Plain
  <1>3. CASE TreeMutates
    BY <1>3 DEF TreeMutates
  <1>4. CASE ChildExits
    BY <1>4 DEF ChildExits
  <1>5. CASE StrayExits
    BY <1>5 DEF StrayExits
  <1>6. CASE CleanerStarts
    BY <1>6 DEF CleanerStarts
  <1>7. CASE CleanerReaps
    BY <1>7 DEF CleanerReaps, AfterCleanup, Plain
  <1>8. CASE CleanerGivesUp
    BY <1>8 DEF CleanerGivesUp, AfterCleanup, Plain
  <1>9. CASE TalkEnds
    BY <1>9 DEF TalkEnds, Plain
  <1>10. CASE TalkTimesOut
    BY <1>10 DEF TalkTimesOut
  <1>11. CASE LaunchWaitTimesOut
    BY <1>11 DEF LaunchWaitTimesOut, Plain
  <1>12. CASE CancelStage
    BY <1>12, CancelEffect DEF CancelStage
  <1>13. CASE Decide
    <2>1. co \in {"returned", "raised"} /\ UNCHANGED <<co, first, dirty, cleaner>>
      BY <1>13 DEF Decide
    <2>2. verdict' = "proceed" => co = "returned"
      BY <1>13 DEF Decide
    <2>3. ASSUME verdict' = "quarantine", first = "Cancelled"
          PROVE  dirty \/ cleaner = "gave_up"
      <3>1. co = "raised"
        BY <2>1, <2>3
      <3>2. ~Releasable(Caught)
        BY <1>13, <2>3 DEF Decide
      <3>3. CASE shielded /\ cancels > 0
        BY <3>1, <3>2, <3>3, <2>3 DEF Releasable, Caught, NotReaped
      <3>4. CASE ~(shielded /\ cancels > 0)
        BY <3>1, <3>2, <3>4, <2>3 DEF Releasable, Caught, NotReaped
      <3> QED
        BY <3>3, <3>4
    <2> QED
      BY <2>1, <2>2, <2>3
  <1>14. CASE UNCHANGED vars
    BY <1>14 DEF vars
  <1> QED
    BY <1>1, <1>2, <1>3, <1>4, <1>5, <1>6, <1>7, <1>8, <1>9,
       <1>10, <1>11, <1>12, <1>13, <1>14 DEF Next, Finished

\* The inductive invariant, which says what each phase of the coroutine knows.
THEOREM SupervisionInvariant == Spec => []SupervisionInv
  <1>1. SupervisionInv /\ [Next]_vars => SupervisionInv'
    BY TypeStep, PhaseStep, ReturnedStep, CancelledStep, VerdictStep DEF SupervisionInv
  <1> QED
    BY InvInit, <1>1, PTL DEF Spec

\* A stage proceeds to capture its workspace only when every writer is gone and
\* everything written was declared.
THEOREM ProceedsClean == Spec => []ProceedsOnCleanWorkspace
  <1>1. SupervisionInv => ProceedsOnCleanWorkspace
    BY DEF SupervisionInv, ReturnedInv, VerdictInv, ProceedsOnCleanWorkspace
  <1> QED
    BY SupervisionInvariant, <1>1, PTL

\* A cancellation whose process was reaped and that wrote nothing undeclared does
\* not cost the run its operation key, however many cancellations arrived.
THEOREM CancellationReleased == Spec => []CleanCancellationIsReleased
  <1>1. SupervisionInv => CleanCancellationIsReleased
    BY DEF SupervisionInv, VerdictInv
  <1> QED
    BY SupervisionInvariant, <1>1, PTL

=============================================================================
