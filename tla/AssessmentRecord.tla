---------------------------- MODULE AssessmentRecord ---------------------------
(***************************************************************************)
(* Recording the feature assessment of one run (assessment_record.py): any  *)
(* number of callers of record(), each over the inputs it happened to read, *)
(* the operation they go through (OperationLedger, retry_safe), and the     *)
(* run-keyed authority row that makes the result reachable                  *)
(* (record_assessment_authority, resolve_with).                            *)
(*                                                                         *)
(* A key stands for one derivation: run, decode, manifest, policy revision,  *)
(* rulings and observations.  The document is a function of the key; the    *)
(* artifact also carries the hash of the surface bytes, which is Contents.   *)
(***************************************************************************)
EXTENDS OperationLedger

CONSTANTS
    Calls,      \* calls of record()
    Actors,     \* the actors a caller may name as allowed to decide
    Input,      \* what the operations pin
    MaxCrashes, \* bound on the calls that die
    NoAuthority

ASSUME AssessmentAssumption ==
    /\ Input \in Inputs
    /\ MaxCrashes \in Nat
    /\ NoAuthority \notin [key : Keys, actor : Actors]

VARIABLES
    pc,       \* where each call stands
    mine,     \* what it asks to be recorded: identity, owner token and surface
    found,    \* the artifact it adopted or wrote
    authority,\* the run's row of recorded_assessments_v1
    crashes

callVars == <<pc, mine, found, authority, crashes>>
vars == <<ledgerVars, callVars>>

Request == [key : Keys, actor : Actors, owner : Owners, surface : Contents]

\* assessment_identity: the surface and the manifest hash are left out of it.
Identity(request) == [key |-> request.key, actor |-> request.actor]

AssessmentInit ==
    /\ history = [k \in Keys |-> <<>>]
    /\ claim = [k \in Keys |-> Backfill(<<>>)]
    /\ pc = [c \in Calls |-> "called"]
    /\ mine \in [Calls -> Request]
    /\ found = [c \in Calls |-> NoOutput]
    /\ authority = NoAuthority
    /\ crashes = 0

Running(c) == pc[c] \in {"called", "checked", "granted", "recorded", "filing"}

Goto(c, label) == pc' = [pc EXCEPT ![c] = label]

Kept == UNCHANGED <<mine, crashes>>

\* The conflict that can be decided before anything is written.
Check(c) ==
    /\ pc[c] = "called"
    /\ IF authority \in {NoAuthority, Identity(mine[c])}
       THEN Goto(c, "checked")
       ELSE Goto(c, "refused")
    /\ UNCHANGED <<ledgerVars, found, authority>> /\ Kept

\* Mutant: the operation is not declared retry-safe.
BeginOnce(c) ==
    LET k == mine[c].key IN
    /\ pc[c] = "checked"
    /\ \/ /\ Adoptable(k, Input)
          /\ Goto(c, "filing")
          /\ found' = [found EXCEPT ![c] = claim[k].output]
          /\ UNCHANGED ledgerVars
       \/ /\ ~Adoptable(k, Input)
          /\ BeginOperation(k, Input, mine[c].owner, FALSE)
          /\ Goto(c, "granted")
          /\ UNCHANGED found
    /\ UNCHANGED authority /\ Kept

\* begin_operation, retry_safe.  A recorded artifact is adopted as it is found.
Begin(c) ==
    LET k == mine[c].key IN
    /\ pc[c] = "checked"
    /\ \/ /\ Adoptable(k, Input)
          /\ Goto(c, "filing")
          /\ found' = [found EXCEPT ![c] = claim[k].output]
          /\ UNCHANGED ledgerVars
       \/ /\ ~Adoptable(k, Input)
          /\ BeginOperation(k, Input, mine[c].owner, TRUE)
          /\ Goto(c, "granted")
          /\ UNCHANGED found
    /\ UNCHANGED authority /\ Kept

\* Mutant: a refused effect is taken for a recorded one.
RecordOutputUnheeded(c) ==
    LET k == mine[c].key
        out == [producer |-> k, content |-> mine[c].surface]
    IN
    /\ pc[c] = "granted"
    /\ \/ RecordEffect(k, mine[c].owner, out)
       \/ ~EffectWritable(k, mine[c].owner, out) /\ UNCHANGED ledgerVars
    /\ Goto(c, "filing")
    /\ found' = [found EXCEPT ![c] = out]
    /\ UNCHANGED authority /\ Kept

RecordOutput(c) ==
    LET k == mine[c].key
        out == [producer |-> k, content |-> mine[c].surface]
    IN
    /\ pc[c] = "granted"
    /\ \/ /\ RecordEffect(k, mine[c].owner, out)
          /\ Goto(c, "recorded")
          /\ found' = [found EXCEPT ![c] = out]
       \/ /\ ~EffectWritable(k, mine[c].owner, out) /\ ~EffectRepeated(k, mine[c].owner, out)
          /\ Goto(c, "refused")
          /\ UNCHANGED <<ledgerVars, found>>
    /\ UNCHANGED authority /\ Kept

CompleteOutput(c) ==
    /\ pc[c] = "recorded"
    /\ CompleteOperation(mine[c].key, found[c])
    /\ Goto(c, "filing")
    /\ UNCHANGED <<found, authority>> /\ Kept

\* Mutant: the row is overwritten.
FileOverwriting(c) ==
    /\ pc[c] = "filing"
    /\ Goto(c, "done") /\ authority' = Identity(mine[c])
    /\ UNCHANGED <<ledgerVars, found>> /\ Kept

\* record_assessment_authority: one row for the run; the same assessment again
\* is no error, another one is.
File(c) ==
    /\ pc[c] = "filing"
    /\ IF authority \in {NoAuthority, Identity(mine[c])}
       THEN Goto(c, "done") /\ authority' = Identity(mine[c])
       ELSE Goto(c, "refused") /\ UNCHANGED authority
    /\ UNCHANGED <<ledgerVars, found>> /\ Kept

\* A full disk or a power cut between two of the writes.
Crash(c) ==
    /\ Running(c) /\ crashes < MaxCrashes
    /\ Goto(c, "crashed")
    /\ crashes' = crashes + 1
    /\ UNCHANGED <<ledgerVars, mine, found, authority>>

Step(c) == Check(c) \/ Begin(c) \/ RecordOutput(c) \/ CompleteOutput(c) \/ File(c)

AssessmentNext == \E c \in Calls : Step(c) \/ Crash(c)

AssessmentSpec == AssessmentInit /\ [][AssessmentNext]_vars

\* A call that has not crashed runs on.
FairAssessmentSpec == AssessmentSpec /\ \A c \in Calls : WF_vars(Step(c))

\* resolve_with demands that the operation the row names is completed.
Resolvable == authority # NoAuthority /\ Completed(authority.key, Input)

-----------------------------------------------------------------------------
(* Properties.                                                             *)

AssessmentTypeOK ==
    /\ LedgerTypeOK
    /\ pc \in [Calls -> {"called", "checked", "granted", "recorded", "filing", "done",
                         "refused", "crashed"}]
    /\ mine \in [Calls -> Request]
    /\ found \in [Calls -> Output \cup {NoOutput}]
    /\ authority \in [key : Keys, actor : Actors] \cup {NoAuthority}
    /\ crashes \in 0..MaxCrashes

\* No two callers are told that different assessments were recorded for the run,
\* and every caller that is told so names the row the gate will be derived from:
\* "a run must not silently gain a second one".
EveryoneToldTheSame ==
    \A c \in Calls : pc[c] = "done" =>
      /\ authority = Identity(mine[c])
      /\ found[c] = claim[authority.key].output

\* A row is never filed for a derivation that has no artifact: the gate would be
\* a promise with nothing behind it.
AuthorityHasArtifact ==
    authority # NoAuthority =>
      claim[authority.key].status \in {"effect", "completed"}

\* A filed assessment can be resolved, at the latest when the callers that are
\* still running are done; otherwise nobody can ever answer the run's gate.
FiledBecomesResolvable == authority # NoAuthority ~> Resolvable

\* A retry gets through: a call made while no other is in flight ends with its
\* assessment recorded, whatever the calls before it left behind at whatever
\* point they died, unless it dies itself or the run has another assessment.
RetryGetsThrough ==
    \A c \in Calls :
      (pc[c] = "called" /\ \A d \in Calls \ {c} : ~Running(d)) ~>
        \/ pc[c] \in {"done", "crashed"}
        \/ pc[c] = "refused" /\ authority # Identity(mine[c])

=============================================================================
