----------------------------- MODULE StageAttempts -----------------------------
(***************************************************************************)
(* The attempts of the replay stages over the operation ledger: what the    *)
(* five *_checkpoint_activity functions of activities.py do with their      *)
(* claim, under the retries of ReplayRunWorkflow, lost workers, attempts    *)
(* the server has given up on that are still alive, re-driven runs, and the *)
(* operator of claims.py.                                                   *)
(*                                                                         *)
(* An attempt is named by its owner token (_activity_owner), and publishes  *)
(* its own token as content, so that whose work was adopted stays visible.  *)
(* What happens inside one subprocess is module SubprocessSupervision; here *)
(* only how it ends matters.                                                *)
(***************************************************************************)
EXTENDS OperationLedger

CONSTANTS
    StageOrder,        \* the operations of a run, in the order of its plan
    Requires,          \* the operations each one demands to be completed
    Input,             \* what the run's claims pin
    Absorbing,         \* the operations whose stage waits for its subprocess through
                       \* _await_verification_execution, and not for execute() itself
    MaxTries,          \* maximum_attempts of _STAGE_RETRY
    NonRetryable       \* its non_retryable_error_types

Attempts == Owners \ {LegacyOwner}

ASSUME StageAssumption ==
    /\ StageOrder \in Seq(Keys) /\ Len(StageOrder) > 0
    /\ Requires \in [Keys -> SUBSET Keys] /\ Absorbing \subseteq Keys
    /\ Input \in Inputs
    /\ Attempts \subseteq Contents
    /\ MaxTries \in Nat

VARIABLES
    pc,       \* where each attempt stands
    stage,    \* the operation it attempts
    proc,     \* the subprocess it launched
    got,      \* the output it adopted, or returned
    final,    \* whether the exception it ended with is of a class named in
              \* NonRetryable
    run,      \* the workflow: running, failed or completed
    at,       \* how many stages of the plan it has completed
    tries,    \* attempts made at the next one
    current,  \* the attempt the server is waiting for
    seen,     \* the owner the operator read from each claim
    orderly   \* TRUE: no cancellation reaches a stage while it is already
              \* cleaning up after its subprocess, and the operator has checked
              \* that a claim's owner and its process are gone

attemptVars == <<pc, stage, proc, got, final>>
serverVars  == <<run, at, tries, current>>
humanVars   == <<seen, orderly>>
vars == <<ledgerVars, attemptVars, serverVars, humanVars>>

StageInit ==
    /\ history = [k \in Keys |-> <<>>]
    /\ claim = [k \in Keys |-> Backfill(<<>>)]
    /\ pc = [a \in Attempts |-> "unused"]
    /\ stage = [a \in Attempts |-> StageOrder[1]]
    /\ proc = [a \in Attempts |-> "none"]
    /\ got = [a \in Attempts |-> NoOutput]
    /\ final = [a \in Attempts |-> FALSE]
    /\ run = "running" /\ at = 0 /\ tries = 0 /\ current = Nobody
    /\ seen = [k \in Keys |-> Nobody] /\ orderly \in BOOLEAN

Live(a) == pc[a] \in {"starting", "granted", "adopting", "working", "captured", "recorded"}

Own(a) == [producer |-> stage[a], content |-> a]

-----------------------------------------------------------------------------
(* The body of an attempt.                                                  *)

Goto(a, label) == pc' = [pc EXCEPT ![a] = label]

Ends(a, e) ==
    /\ Goto(a, "failed")
    /\ final' = [final EXCEPT ![a] = e \in NonRetryable]

Kept == UNCHANGED <<stage, serverVars, humanVars>>

PredecessorsCompleted(k) == \A p \in Requires[k] : Completed(p, Input)

\* The predecessors, then the claim: the work is refused, adopted or granted.
Begin(a) ==
    LET k == stage[a] IN
    /\ pc[a] = "starting"
    /\ \/ /\ ~PredecessorsCompleted(k) \/ BeginRefused(k, Input, a, FALSE)
          /\ Ends(a, "ValueError")
          /\ UNCHANGED <<ledgerVars, got>>
       \/ /\ PredecessorsCompleted(k) /\ Adoptable(k, Input)
          /\ Goto(a, "adopting")
          /\ got' = [got EXCEPT ![a] = claim[k].output]
          /\ UNCHANGED <<ledgerVars, final>>
       \/ /\ PredecessorsCompleted(k) /\ ~Adoptable(k, Input)
          /\ BeginOperation(k, Input, a, FALSE)
          /\ Goto(a, "granted")
          /\ UNCHANGED <<got, final>>
    /\ UNCHANGED proc /\ Kept

\* Mutant: a recorded output is answered as it is found, and left uncompleted.
AdoptUncompleted(a) ==
    /\ pc[a] = "adopting"
    /\ Goto(a, "succeeded")
    /\ UNCHANGED <<ledgerVars, proc, got, final>> /\ Kept

\* The adopted receipt is validated and its bytes are read before the claim is
\* completed with it; a receipt that fails this leaves the claim as it is.
Adopt(a) ==
    /\ pc[a] = "adopting"
    /\ \/ /\ CompleteOperation(stage[a], got[a])
          /\ Goto(a, "succeeded")
          /\ UNCHANGED final
       \/ /\ Ends(a, "ValueError")
          /\ UNCHANGED ledgerVars
    /\ UNCHANGED <<proc, got>> /\ Kept

\* Mutant: the handler re-raises without releasing.
HandlerReleasesNothing(a) == UNCHANGED ledgerVars

\* The release in the except block: a refusal becomes a note on the error.
HandlerReleases(a) ==
    \/ ReleasePending(stage[a], a)
    \/ ~Releasable(stage[a], a) /\ UNCHANGED ledgerVars

\* A failure before the attempt has a workspace of its own.
FailBeforeWorkspace(a) ==
    /\ pc[a] = "granted"
    /\ HandlerReleases(a)
    /\ Ends(a, "ValueError")
    /\ UNCHANGED <<proc, got>> /\ Kept

Launch(a) ==
    /\ pc[a] = "granted"
    /\ Goto(a, "working")
    /\ proc' = [proc EXCEPT ![a] = "running"]
    /\ UNCHANGED <<ledgerVars, got, final>> /\ Kept

ProcessExits(a) ==
    /\ proc[a] = "running"
    /\ proc' = [proc EXCEPT ![a] = "gone"]
    /\ UNCHANGED <<ledgerVars, pc, got, final>> /\ Kept

SubprocessReturns(a) ==
    /\ pc[a] = "working" /\ proc[a] = "gone"
    /\ Goto(a, "captured")
    /\ UNCHANGED <<ledgerVars, proc, got, final>> /\ Kept

\* A failure with a workspace: an exit code, an undeclared mutation, a receipt
\* that does not validate.  The claim is quarantined, if it is still this owner's.
Fault(a) ==
    /\ pc[a] \in {"working", "captured"} /\ proc[a] = "gone"
    /\ QuarantineOperation(stage[a], a)
    /\ \E e \in {"RuntimeError", "PermissionError", "ValueError"} : Ends(a, e)
    /\ UNCHANGED <<proc, got>> /\ Kept

\* The subprocess budget expires; the process may outlive the cleanup.
SubprocessTimesOut(a) ==
    /\ pc[a] = "working"
    /\ QuarantineOperation(stage[a], a)
    /\ Ends(a, "TimeoutError")
    /\ proc' \in {proc, [proc EXCEPT ![a] = "gone"]}
    /\ UNCHANGED got /\ Kept

\* A cancellation while the subprocess runs: released once the process is known
\* to be gone, quarantined otherwise.  A launch that never returned a handle
\* replaces the cancellation by ProcessNotReaped.
CancelExecute(a) ==
    \/ /\ proc' = [proc EXCEPT ![a] = "gone"]
       /\ \/ HandlerReleases(a) /\ Ends(a, "CancelledError")
          \/ QuarantineOperation(stage[a], a) /\ Ends(a, "PermissionError")
    \/ /\ UNCHANGED proc
       /\ QuarantineOperation(stage[a], a)
       /\ Ends(a, "CancelledError") \/ Ends(a, "ProcessNotReaped")
    \/ /\ ~orderly
       /\ UNCHANGED proc
       /\ HandlerReleases(a)
       /\ Ends(a, "CancelledError")

\* The verification's wrapper raises its own cancellation in the place of what
\* execute() ends with.  Another error stays in its chain, with what it says of the
\* process; a cancellation does not, and the claim is released, process or none.
CancelAbsorbed(a) ==
    /\ \/ /\ HandlerReleases(a)
          /\ proc' \in {proc, [proc EXCEPT ![a] = "gone"]}
       \/ QuarantineOperation(stage[a], a) /\ UNCHANGED proc
    /\ Ends(a, "CancelledError")

CancelSubprocess(a) ==
    /\ pc[a] = "working"
    /\ IF stage[a] \in Absorbing THEN CancelAbsorbed(a) ELSE CancelExecute(a)
    /\ UNCHANGED got /\ Kept

\* A cancellation during the capture waits for the thread and then propagates.
CancelCapture(a) ==
    /\ pc[a] = "captured"
    /\ HandlerReleases(a)
    /\ Ends(a, "CancelledError")
    /\ UNCHANGED <<proc, got>> /\ Kept

\* record_effect, refused to an owner that has lost its claim; the handler then
\* finds that the claim is not its own to quarantine.
Record(a) ==
    /\ pc[a] = "captured"
    /\ \/ /\ RecordEffect(stage[a], a, Own(a))
          /\ Goto(a, "recorded")
          /\ got' = [got EXCEPT ![a] = Own(a)]
          /\ UNCHANGED final
       \/ /\ ~EffectWritable(stage[a], a, Own(a)) /\ ~EffectRepeated(stage[a], a, Own(a))
          /\ QuarantineOperation(stage[a], a)
          /\ Ends(a, "ValueError")
          /\ UNCHANGED got
    /\ UNCHANGED proc /\ Kept

\* Once the effect is recorded, a failure leaves the claim to be adopted.
Complete(a) ==
    /\ pc[a] = "recorded"
    /\ \/ /\ CompleteOperation(stage[a], got[a])
          /\ Goto(a, "succeeded")
          /\ UNCHANGED final
       \/ /\ Ends(a, "OperationalError")
          /\ UNCHANGED ledgerVars
    /\ UNCHANGED <<proc, got>> /\ Kept

\* The worker dies: no handler runs, and the process may live on.
Crash(a) ==
    /\ Live(a)
    /\ Goto(a, "lost")
    /\ UNCHANGED <<ledgerVars, proc, got, final>> /\ Kept

-----------------------------------------------------------------------------
(* The server, which retries, and the human who drives a failed run again.  *)

ServerKept == UNCHANGED <<ledgerVars, proc, got, final, humanVars>>

\* Owner tokens are interchangeable: a new attempt takes the next unused one.
Dispatch(a) ==
    /\ run = "running" /\ current = Nobody /\ at < Len(StageOrder)
    /\ pc[a] = "unused" /\ a = CHOOSE b \in Attempts : pc[b] = "unused"
    /\ Goto(a, "starting")
    /\ stage' = [stage EXCEPT ![a] = StageOrder[at + 1]]
    /\ current' = a /\ tries' = tries + 1
    /\ UNCHANGED <<run, at>> /\ ServerKept

StageSucceeds(a) ==
    /\ current = a /\ pc[a] = "succeeded"
    /\ at' = at + 1 /\ tries' = 0 /\ current' = Nobody
    /\ run' = IF at + 1 = Len(StageOrder) THEN "completed" ELSE run
    /\ UNCHANGED <<pc, stage>> /\ ServerKept

\* An attempt that raised is retried, or fails the run.
StageRaises(a) ==
    /\ current = a /\ pc[a] = "failed"
    /\ current' = Nobody
    /\ run' = IF final[a] \/ tries >= MaxTries THEN "failed" ELSE run
    /\ UNCHANGED <<pc, stage, at, tries>> /\ ServerKept

\* Mutant: an attempt whose worker died is never timed out.
GiveUpHeartbeating(a) ==
    /\ current = a
    /\ Live(a)
    /\ current' = Nobody
    /\ run' = IF tries >= MaxTries THEN "failed" ELSE run
    /\ UNCHANGED <<pc, stage, at, tries>> /\ ServerKept

\* No heartbeat, or the stage budget spent: the server gives the attempt up.
\* Whether its worker is still alive, it cannot tell.
GiveUp(a) ==
    /\ current = a
    /\ Live(a) \/ pc[a] = "lost"
    /\ current' = Nobody
    /\ run' = IF tries >= MaxTries THEN "failed" ELSE run
    /\ UNCHANGED <<pc, stage, at, tries>> /\ ServerKept

\* A failed run is started again, under new owner tokens.
Redrive ==
    /\ run = "failed"
    /\ run' = "running" /\ at' = 0 /\ tries' = 0
    /\ UNCHANGED <<pc, stage, current>> /\ ServerKept

-----------------------------------------------------------------------------
(* The operator of claims.py: a read, and later a release that names the     *)
(* owner that was read.                                                     *)

\* Mutant: the operator looks for the attempt and not for its process.
OwnerGoneUnchecked(o) == o \in Attempts => ~Live(o)

OwnerGone(o) == o \in Attempts => ~Live(o) /\ proc[o] # "running"

ReadClaim(k) ==
    /\ claim[k].status = "pending" /\ claim[k].owner # Nobody
    /\ orderly => OwnerGone(claim[k].owner)
    /\ seen' = [seen EXCEPT ![k] = claim[k].owner]
    /\ UNCHANGED <<ledgerVars, attemptVars, serverVars, orderly>>

ReleaseClaim(k) ==
    /\ seen[k] # Nobody
    /\ ReleasePending(k, seen[k]) \/ (~Releasable(k, seen[k]) /\ UNCHANGED ledgerVars)
    /\ seen' = [seen EXCEPT ![k] = Nobody]
    /\ UNCHANGED <<attemptVars, serverVars, orderly>>

-----------------------------------------------------------------------------
AttemptStep(a) ==
    \/ Begin(a) \/ Adopt(a) \/ FailBeforeWorkspace(a) \/ Launch(a)
    \/ SubprocessReturns(a) \/ Fault(a) \/ SubprocessTimesOut(a)
    \/ Record(a) \/ Complete(a)

Interruption(a) == CancelSubprocess(a) \/ CancelCapture(a) \/ Crash(a)

ServerStep(a) == StageSucceeds(a) \/ StageRaises(a) \/ GiveUp(a)

StageNext ==
    \/ \E a \in Attempts :
          \/ AttemptStep(a) \/ Interruption(a) \/ ProcessExits(a)
          \/ Dispatch(a) \/ ServerStep(a)
    \/ Redrive
    \/ \E k \in Keys : ReadClaim(k) \/ ReleaseClaim(k)

StageSpec == StageInit /\ [][StageNext]_vars

\* A live worker keeps working and its timers expire; the server notices what
\* became of the attempt it waits for.  Nobody has to drive a run again.
StageFairness ==
    \A a \in Attempts :
      /\ WF_vars(AttemptStep(a))
      /\ WF_vars(Dispatch(a))
      /\ WF_vars(ServerStep(a))

FairStageSpec == StageSpec /\ StageFairness

-----------------------------------------------------------------------------
(* Properties.                                                             *)

AttemptTypeOK ==
    /\ pc \in [Attempts -> {"unused", "starting", "granted", "adopting", "working",
                            "captured", "recorded", "succeeded", "failed", "lost"}]
    /\ stage \in [Attempts -> Keys]
    /\ proc \in [Attempts -> {"none", "running", "gone"}]
    /\ got \in [Attempts -> Output \cup {NoOutput}]
    /\ final \in [Attempts -> BOOLEAN]
    /\ run \in {"running", "failed", "completed"}
    /\ at \in 0..Len(StageOrder) /\ tries \in Nat
    /\ current \in Attempts \cup {Nobody}
    /\ seen \in [Keys -> Owners \cup {Nobody}] /\ orderly \in BOOLEAN

\* The tables, the attempts, the server and the operator keep to their domains.
StageTypeOK == LedgerTypeOK /\ AttemptTypeOK

\* An attempt that succeeded, by its own work or by adoption, answered with the
\* output its operation is completed with.  The zombie it replaced cannot have
\* published something else, before or after.
SuccessIsTheCompletedOutput ==
    \A a \in Attempts : pc[a] = "succeeded" =>
      /\ claim[stage[a]].status = "completed"
      /\ claim[stage[a]].output = got[a]

\* Only an attempt that failed while the claim was its own can burn it: a late
\* failure of an attempt that was replaced never quarantines its successor.
QuarantinedByItsOwner ==
    \A k \in Keys : claim[k].status = "quarantined" =>
      /\ claim[k].owner \in Attempts
      /\ pc[claim[k].owner] = "failed"
      /\ claim[k].output = NoOutput

\* An attempt whose handler ran leaves no pending claim in its own name: only a
\* lost worker can wedge an operation until the operator releases it.
FailureLeavesNoClaim ==
    \A a \in Attempts : pc[a] = "failed" =>
      \A k \in Keys : ~(claim[k].owner = a /\ claim[k].status = "pending")

\* Two attempts never have processes writing for one operation at the same time.
\* Both the release of a cancelled stage and the operator's are safe only for
\* this reason (_releasable, claims.py).  Not so the verification, whose wrapper
\* hides from _releasable that its process was not reaped.
OneProcessPerOperation ==
    orderly => \A a, b \in Attempts :
      a # b /\ stage[a] = stage[b] /\ stage[a] \notin Absorbing =>
        ~(proc[a] = "running" /\ proc[b] = "running")

\* The attempts touch the tables by the ledger's methods alone, so everything
\* the ledger promises holds of a run.
UsesTheLedger == LedgerInit /\ [][LedgerNext]_ledgerVars

\* A run that would go on, were it not for the bound on attempts.
Spent == run = "running" /\ current = Nobody /\ \A a \in Attempts : pc[a] # "unused"

\* The server never waits for ever: whoever crashes, hangs or is refused, the
\* run completes or fails, or every attempt the bound allows has been made.
RunEnds == run = "running" ~> run # "running" \/ Spent

\* Work that was published is not done again, nor left hanging: the run that
\* published it completes it by a retry's adoption, or fails and says so.
EffectIsAdopted ==
    \A k \in Keys : claim[k].status = "effect" ~>
      claim[k].status = "completed" \/ run = "failed" \/ Spent

=============================================================================
