-------------------------- MODULE StageAttemptsProofs --------------------------
(***************************************************************************)
(* Proofs about the stage attempts: they drive the tables by the ledger's    *)
(* methods alone, and three facts about whose claim it is follow for every   *)
(* number of attempts, operations and retries.                              *)
(***************************************************************************)
EXTENDS StageAttempts, OperationLedgerProofs

\* Where the owner of a claim must stand.
Fits(row, label) ==
    /\ row.status # "absent"
    /\ row.status = "pending"   => label \in {"granted", "working", "captured", "lost"}
    /\ row.status = "effect"    => label \in {"recorded", "failed", "lost"}
    /\ row.status = "completed" => label \in {"recorded", "succeeded", "failed", "lost"}
    /\ row.status = "quarantined" => label = "failed" /\ row.output = NoOutput

OwnerFits ==
    \A k \in Keys :
      /\ claim[k].owner \in Attempts \cup {Nobody}
      /\ \A a \in Attempts : claim[k].owner = a => stage[a] = k /\ Fits(claim[k], pc[a])

\* An attempt that answers, or is about to, has an output to answer with.
GotFits ==
    \A a \in Attempts : pc[a] \in {"adopting", "recorded", "succeeded"} => got[a] \in Output

\* The server waits for an attempt only while a stage of the plan is left.
ServerFits == current # Nobody => at < Len(StageOrder)

StageFacts ==
    /\ AttemptTypeOK /\ OwnerFits /\ GotFits /\ ServerFits
    /\ SuccessIsTheCompletedOutput

StageInv == LedgerInv /\ StageFacts

\* One step, of one attempt, of the server or of a human.
Preserved == StageFacts' /\ [LedgerNext]_ledgerVars

-----------------------------------------------------------------------------
LEMMA StageInitInv == StageInit => LedgerInit /\ StageInv
<1> SUFFICES ASSUME StageInit PROVE LedgerInit /\ StageInv
  OBVIOUS
<1>1. LedgerInit
  BY DEF StageInit, LedgerInit, LegacyHistories
<1>2. LedgerInv
  BY <1>1, InitInv
<1>3. StageOrder[1] \in Keys
  BY StageAssumption
<1>4. \A k \in Keys : claim[k].owner = Nobody
  BY DEF StageInit, Backfill
<1>5. \A a \in Attempts : a # Nobody
  BY LedgerAssumption DEF Attempts
<1>6. AttemptTypeOK
  BY <1>3, StageAssumption DEF StageInit, AttemptTypeOK
<1>7. OwnerFits /\ GotFits /\ ServerFits /\ SuccessIsTheCompletedOutput
  BY <1>4, <1>5 DEF StageInit, OwnerFits, Fits, GotFits, ServerFits, SuccessIsTheCompletedOutput
<1> QED
  BY <1>1, <1>2, <1>6, <1>7 DEF StageInv, StageFacts

\* A step that leaves the tables alone.
LEMMA TablesAlone ==
    ASSUME UNCHANGED ledgerVars
    PROVE  [LedgerNext]_ledgerVars
OBVIOUS

\* Every method an attempt calls is a call of the ledger's.
LEMMA MethodCalls ==
    ASSUME NEW k \in Keys, NEW o \in Owners,
           \/ BeginOperation(k, Input, o, FALSE)
           \/ ReleasePending(k, o)
           \/ \E out \in Output : RecordEffect(k, o, out)
           \/ \E out \in Output : CompleteOperation(k, out)
           \/ QuarantineOperation(k, o)
           \/ UNCHANGED ledgerVars
    PROVE  [LedgerNext]_ledgerVars
BY StageAssumption DEF LedgerNext

\* What the type invariants say of one attempt and of one row.
LEMMA Shapes ==
    ASSUME StageInv
    PROVE  /\ \A a \in Attempts : /\ a \in Owners /\ a # Nobody /\ stage[a] \in Keys
                                 /\ Own(a) \in Output /\ Own(a).producer = stage[a]
           /\ claim \in [Keys -> Claim]
BY LedgerAssumption, StageAssumption
   DEF StageInv, StageFacts, LedgerInv, LedgerTypeOK, AttemptTypeOK, Attempts, Own, Output

-----------------------------------------------------------------------------
(* What each method makes of its own row; it leaves the others alone.        *)

Others(k) == \A j \in Keys \ {k} : claim'[j] = claim[j]

LEMMA BeginRow ==
    ASSUME claim \in [Keys -> Claim], NEW k \in Keys, NEW in \in Inputs, NEW o \in Owners,
           NEW safe, BeginOperation(k, in, o, safe)
    PROVE  /\ claim[k].status \in {"absent", "pending"}
           /\ claim'[k].owner = o /\ claim'[k].status = "pending"
           /\ Others(k)
<1>1. CASE Holds(k, in, o) /\ UNCHANGED ledgerVars
  BY <1>1 DEF Holds, ledgerVars, Others
<1>2. CASE MayTakeOver(k, in, o, safe)
           /\ claim' = [claim EXCEPT ![k].owner = o, ![k].attempt = @ + 1]
  BY <1>2 DEF MayTakeOver, Others, Claim
<1>3. CASE claim[k].status = "absent"
           /\ claim' = [claim EXCEPT ![k] =
                [status |-> "pending", input |-> in, owner |-> o, attempt |-> 1,
                 output |-> NoOutput]]
  BY <1>3 DEF Others
<1> QED
  BY <1>1, <1>2, <1>3 DEF BeginOperation

LEMMA ReleaseRow ==
    ASSUME claim \in [Keys -> Claim], NEW k \in Keys, NEW o, ReleasePending(k, o)
    PROVE  /\ claim[k].status = "pending" /\ claim[k].owner = o
           /\ claim'[k].owner = Nobody /\ claim'[k].status = "pending"
           /\ Others(k)
BY DEF ReleasePending, Releasable, Others, Claim

LEMMA EffectRow ==
    ASSUME claim \in [Keys -> Claim], NEW k \in Keys, NEW o, NEW out \in Output,
           RecordEffect(k, o, out)
    PROVE  /\ claim[k].status \in {"pending", "effect"} /\ claim[k].owner = o
           /\ claim'[k].owner = o /\ claim'[k].status = "effect"
           /\ Others(k)
BY DEF RecordEffect, EffectWritable, EffectRepeated, Others, Claim, ledgerVars

LEMMA CompleteRow ==
    ASSUME claim \in [Keys -> Claim], NEW k \in Keys, NEW out, CompleteOperation(k, out)
    PROVE  /\ claim[k].status \in {"effect", "completed"}
           /\ claim'[k].status = "completed" /\ claim'[k].output = out
           /\ claim'[k].owner = claim[k].owner
           /\ Others(k)
BY DEF CompleteOperation, Completable, Others, Claim, ledgerVars

LEMMA QuarantineRow ==
    ASSUME claim \in [Keys -> Claim], NEW k \in Keys, NEW o, QuarantineOperation(k, o)
    PROVE  /\ \/ claim'[k] = claim[k] /\ ~Quarantinable(k, o)
              \/ /\ Quarantinable(k, o)
                 /\ claim'[k].status = "quarantined"
                 /\ claim'[k].owner = o /\ claim'[k].output = claim[k].output
           /\ Others(k)
BY DEF QuarantineOperation, Quarantinable, Others, Claim, ledgerVars

-----------------------------------------------------------------------------
Labels == {"unused", "starting", "granted", "adopting", "working", "captured", "recorded",
           "succeeded", "failed", "lost"}

\* What a step of attempt a to label p has to show: its own row is given up, or
\* fits it, or is another's; a completed row stays as it is; and whoever answers
\* has completed what it answers.
LEMMA AttemptStepFits ==
    ASSUME StageInv, NEW a \in Attempts, NEW p \in Labels,
           pc' = [pc EXCEPT ![a] = p],
           UNCHANGED <<stage, serverVars, humanVars>>,
           proc' \in [Attempts -> {"none", "running", "gone"}],
           final' \in [Attempts -> BOOLEAN],
           got' \in [Attempts -> Output \cup {NoOutput}],
           \A b \in Attempts \ {a} : got'[b] = got[b],
           Others(stage[a]),
           \/ claim'[stage[a]].owner = Nobody
           \/ claim'[stage[a]].owner = a /\ Fits(claim'[stage[a]], p)
           \/ /\ claim'[stage[a]].owner = claim[stage[a]].owner
              /\ claim[stage[a]].owner # a
              /\ \/ claim'[stage[a]] = claim[stage[a]]
                 \/ /\ claim[stage[a]].status \in {"effect", "completed"}
                    /\ claim'[stage[a]].status = "completed",
           claim[stage[a]].status = "completed" =>
              /\ claim'[stage[a]].status = "completed"
              /\ claim'[stage[a]].output = claim[stage[a]].output,
           p \in {"adopting", "recorded", "succeeded"} => got'[a] \in Output,
           p = "succeeded" =>
              /\ claim'[stage[a]].status = "completed"
              /\ claim'[stage[a]].output = got'[a]
    PROVE  StageFacts'
<1> USE Shapes DEF StageInv, StageFacts
<1> DEFINE k == stage[a]
<1>1. pc \in [Attempts -> Labels] /\ stage \in [Attempts -> Keys]
  BY DEF AttemptTypeOK, Labels
<1>2. AttemptTypeOK'
  BY DEF AttemptTypeOK, serverVars, humanVars, Labels
<1>3. OwnerFits'
  <2> SUFFICES ASSUME NEW j \in Keys
               PROVE  /\ claim'[j].owner \in Attempts \cup {Nobody}
                      /\ \A b \in Attempts : claim'[j].owner = b =>
                           stage[b] = j /\ Fits(claim'[j], pc'[b])
    BY DEF OwnerFits, Fits
  <2>1. /\ claim[j].owner \in Attempts \cup {Nobody}
        /\ \A b \in Attempts : claim[j].owner = b => stage[b] = j /\ Fits(claim[j], pc[b])
    BY DEF OwnerFits
  <2>2. CASE j # k
    BY <1>1, <2>1, <2>2 DEF Others
  <2>3. CASE j = k
    BY <1>1, <2>1, <2>3 DEF Fits
  <2> QED
    BY <2>2, <2>3
<1>4. GotFits' /\ ServerFits'
  BY <1>1 DEF GotFits, ServerFits, serverVars
<1>5. SuccessIsTheCompletedOutput'
  BY <1>1 DEF SuccessIsTheCompletedOutput, Others
<1> QED
  BY <1>2, <1>3, <1>4, <1>5

\* A row that is not the attempt's own, left as it is.
LEMMA OtherRow ==
    ASSUME StageInv, NEW a \in Attempts
    PROVE  claim[stage[a]].owner \in Attempts \cup {Nobody}
BY Shapes DEF StageInv, StageFacts, OwnerFits

\* What a failing attempt assigns.
LEMMA EndsFacts ==
    ASSUME StageInv, NEW a \in Attempts, NEW e, Ends(a, e)
    PROVE  /\ pc' = [pc EXCEPT ![a] = "failed"]
           /\ final' \in [Attempts -> BOOLEAN]
<1>1. final \in [Attempts -> BOOLEAN]
  BY DEF StageInv, StageFacts, AttemptTypeOK
<1>2. (e \in NonRetryable) \in BOOLEAN
  OBVIOUS
<1>3. final' = [final EXCEPT ![a] = (e \in NonRetryable)]
  BY DEF Ends
<1>4. final' \in [Attempts -> BOOLEAN]
  BY <1>1, <1>2, <1>3, Zenon
<1> QED
  BY <1>4 DEF Ends, Goto

-----------------------------------------------------------------------------
(* The steps of an attempt.                                                 *)

\* No claim is in the name of an attempt that was not granted one.
LEMMA NotYetOwner ==
    ASSUME StageInv, NEW a \in Attempts, pc[a] \in {"starting", "adopting", "unused"}
    PROVE  \A j \in Keys : claim[j].owner # a
<1> SUFFICES ASSUME NEW j \in Keys, claim[j].owner = a PROVE FALSE
  OBVIOUS
<1>1. Fits(claim[j], pc[a])
  BY DEF StageInv, StageFacts, OwnerFits
<1>2. claim[j].status \in {"absent", "pending", "effect", "completed", "quarantined"}
  BY Shapes DEF Claim, Status
<1> QED
  BY <1>1, <1>2 DEF Fits

LEMMA BeginPreserves ==
    ASSUME StageInv, NEW a \in Attempts, Begin(a)
    PROVE  Preserved
<1> USE Shapes DEF StageInv, StageFacts
<1> DEFINE k == stage[a]
<1>0. /\ pc[a] = "starting" /\ claim[k].owner # a
      /\ UNCHANGED <<stage, proc, serverVars, humanVars>>
  BY NotYetOwner DEF Begin, Kept
<1>1. CASE Ends(a, "ValueError") /\ UNCHANGED <<ledgerVars, got>>
  <2>1. /\ pc' = [pc EXCEPT ![a] = "failed"] /\ final' \in [Attempts -> BOOLEAN]
        /\ UNCHANGED <<got, claim>>
    BY <1>0, <1>1, EndsFacts DEF ledgerVars
  <2>2. StageFacts'
    BY <1>0, <2>1, AttemptStepFits DEF Labels, AttemptTypeOK, Others
  <2> QED
    BY <1>1, <2>2 DEF Preserved
<1>2. CASE Adoptable(k, Input) /\ Goto(a, "adopting")
           /\ got' = [got EXCEPT ![a] = claim[k].output] /\ UNCHANGED <<ledgerVars, final>>
  <2>1. claim[k].output \in Output
    BY <1>2 DEF Adoptable, LedgerInv, OutputFitsStatus
  <2> QED
    BY <1>0, <1>2, <2>1, AttemptStepFits, OtherRow
       DEF Goto, Labels, AttemptTypeOK, ledgerVars, Others, Preserved
<1>3. CASE BeginOperation(k, Input, a, FALSE) /\ Goto(a, "granted")
           /\ UNCHANGED <<got, final>>
  <2>1. /\ claim[k].status \in {"absent", "pending"}
        /\ claim'[k].owner = a /\ claim'[k].status = "pending" /\ Others(k)
    BY <1>3, BeginRow, StageAssumption
  <2>2. StageFacts'
    BY <1>0, <1>3, <2>1, AttemptStepFits DEF Goto, Labels, AttemptTypeOK, Fits
  <2> QED
    BY <1>3, <2>2, MethodCalls DEF Preserved
<1> QED
  BY <1>1, <1>2, <1>3 DEF Begin

LEMMA AdoptPreserves ==
    ASSUME StageInv, NEW a \in Attempts, Adopt(a)
    PROVE  Preserved
<1> USE Shapes DEF StageInv, StageFacts
<1> DEFINE k == stage[a]
<1>0. /\ pc[a] = "adopting" /\ claim[k].owner # a /\ got[a] \in Output
      /\ UNCHANGED <<stage, proc, got, serverVars, humanVars>>
  BY NotYetOwner DEF Adopt, Kept, GotFits
<1>1. CASE Ends(a, "ValueError") /\ UNCHANGED ledgerVars
  <2>1. /\ pc' = [pc EXCEPT ![a] = "failed"] /\ final' \in [Attempts -> BOOLEAN]
        /\ UNCHANGED <<got, claim>>
    BY <1>0, <1>1, EndsFacts DEF ledgerVars
  <2>2. StageFacts'
    BY <1>0, <2>1, AttemptStepFits DEF Labels, AttemptTypeOK, Others
  <2> QED
    BY <1>1, <2>2 DEF Preserved
<1>2. CASE CompleteOperation(k, got[a]) /\ Goto(a, "succeeded") /\ UNCHANGED final
  <2>1. /\ claim[k].status \in {"effect", "completed"}
        /\ claim'[k].status = "completed" /\ claim'[k].output = got[a]
        /\ claim'[k].owner = claim[k].owner /\ Others(k)
    BY <1>2, CompleteRow
  <2>2. claim[k].status = "completed" => claim[k].output = got[a]
    BY <1>2 DEF CompleteOperation, Completable
  <2>3. StageFacts'
    BY <1>0, <1>2, <2>1, <2>2, AttemptStepFits, OtherRow DEF Goto, Labels, AttemptTypeOK
  <2> QED
    BY <1>0, <1>2, <2>3, MethodCalls DEF Preserved
<1> QED
  BY <1>1, <1>2 DEF Adopt

\* The release in a handler: the attempt's own claim is given up.
LEMMA HandlerGivesUp ==
    ASSUME StageInv, NEW a \in Attempts, HandlerReleases(a),
           pc[a] \in {"granted", "working", "captured"}
    PROVE  /\ Others(stage[a])
           /\ \/ claim'[stage[a]].owner = Nobody /\ claim[stage[a]].status = "pending"
              \/ claim'[stage[a]] = claim[stage[a]] /\ claim[stage[a]].owner # a
           /\ [LedgerNext]_ledgerVars
<1> USE Shapes DEF StageInv, StageFacts
<1> DEFINE k == stage[a]
<1>1. CASE ReleasePending(k, a)
  BY <1>1, ReleaseRow, MethodCalls
<1>2. CASE ~Releasable(k, a) /\ UNCHANGED ledgerVars
  <2>1. claim[k].owner # a
    BY <1>2 DEF Releasable, OwnerFits, Fits, Claim, Status
  <2> QED
    BY <1>2, <2>1 DEF ledgerVars, Others
<1> QED
  BY <1>1, <1>2 DEF HandlerReleases

\* The quarantine in a handler: it burns the attempt's own claim, from pending.
LEMMA HandlerBurns ==
    ASSUME StageInv, NEW a \in Attempts, QuarantineOperation(stage[a], a),
           pc[a] \in {"working", "captured"}
    PROVE  /\ Others(stage[a])
           /\ \/ /\ claim'[stage[a]].owner = a /\ Fits(claim'[stage[a]], "failed")
                 /\ claim[stage[a]].status = "pending"
              \/ claim'[stage[a]] = claim[stage[a]] /\ claim[stage[a]].owner # a
           /\ [LedgerNext]_ledgerVars
<1> USE Shapes DEF StageInv, StageFacts
<1> DEFINE k == stage[a]
<1>1. claim[k].owner = a => claim[k].status = "pending" /\ claim[k].output = NoOutput
  BY DEF OwnerFits, Fits, Claim, Status, LedgerInv, OutputFitsStatus
<1>2. /\ \/ claim'[k] = claim[k] /\ ~Quarantinable(k, a)
         \/ /\ Quarantinable(k, a) /\ claim'[k].status = "quarantined"
            /\ claim'[k].owner = a /\ claim'[k].output = claim[k].output
      /\ Others(k)
  BY QuarantineRow
<1> QED
  BY <1>1, <1>2, MethodCalls DEF Quarantinable, Fits

LEMMA LaunchPreserves ==
    ASSUME StageInv, NEW a \in Attempts, Launch(a)
    PROVE  Preserved
<1> USE Shapes DEF StageInv, StageFacts
<1>1. /\ pc[a] = "granted"
      /\ UNCHANGED <<stage, serverVars, humanVars, ledgerVars>>
  BY DEF Launch, Kept, AttemptTypeOK
<1>2. claim[stage[a]].owner = a => Fits(claim[stage[a]], pc[a])
  BY DEF OwnerFits
<1> QED
  BY <1>1, <1>2, AttemptStepFits, OtherRow
     DEF Launch, Goto, Labels, AttemptTypeOK, Fits, ledgerVars, Others, Preserved

LEMMA ProcessExitsPreserves ==
    ASSUME StageInv, NEW a \in Attempts, ProcessExits(a)
    PROVE  Preserved
<1> USE Shapes DEF StageInv, StageFacts
<1>1. /\ pc[a] \in Labels
      /\ UNCHANGED <<stage, serverVars, humanVars, ledgerVars>>
      /\ pc' = [pc EXCEPT ![a] = pc[a]] /\ UNCHANGED got
  BY DEF ProcessExits, Kept, AttemptTypeOK, Labels
<1>2. claim[stage[a]].owner = a => Fits(claim[stage[a]], pc[a])
  BY DEF OwnerFits
<1>3. pc[a] \in {"adopting", "recorded", "succeeded"} => got'[a] \in Output
  BY <1>1 DEF GotFits
<1>4. pc[a] = "succeeded" =>
        claim'[stage[a]].status = "completed" /\ claim'[stage[a]].output = got'[a]
  BY <1>1 DEF SuccessIsTheCompletedOutput, ledgerVars
<1>5. /\ proc' \in [Attempts -> {"none", "running", "gone"}]
      /\ UNCHANGED <<claim, final>>
  BY <1>1 DEF ProcessExits, AttemptTypeOK, ledgerVars
<1>6. StageFacts'
  BY <1>1, <1>2, <1>3, <1>4, <1>5, AttemptStepFits, OtherRow DEF AttemptTypeOK, Others
<1> QED
  BY <1>1, <1>6 DEF Preserved

LEMMA SubprocessReturnsPreserves ==
    ASSUME StageInv, NEW a \in Attempts, SubprocessReturns(a)
    PROVE  Preserved
<1> USE Shapes DEF StageInv, StageFacts
<1>1. /\ pc[a] = "working"
      /\ UNCHANGED <<stage, serverVars, humanVars, ledgerVars>>
  BY DEF SubprocessReturns, Kept, AttemptTypeOK
<1>2. claim[stage[a]].owner = a => Fits(claim[stage[a]], pc[a])
  BY DEF OwnerFits
<1> QED
  BY <1>1, <1>2, AttemptStepFits, OtherRow
     DEF SubprocessReturns, Goto, Labels, AttemptTypeOK, Fits, ledgerVars, Others, Preserved

LEMMA CrashPreserves ==
    ASSUME StageInv, NEW a \in Attempts, Crash(a)
    PROVE  Preserved
<1> USE Shapes DEF StageInv, StageFacts
<1>1. /\ pc[a] \in {"starting", "granted", "adopting", "working", "captured", "recorded"}
      /\ UNCHANGED <<stage, serverVars, humanVars, ledgerVars>>
  BY DEF Crash, Live, Kept, AttemptTypeOK
<1>2. claim[stage[a]].owner = a => Fits(claim[stage[a]], pc[a])
  BY DEF OwnerFits
<1> QED
  BY <1>1, <1>2, AttemptStepFits, OtherRow
     DEF Crash, Goto, Labels, AttemptTypeOK, Fits, ledgerVars, Others, Preserved

\* A step that ends in a handler.
LEMMA FailurePreserves ==
    ASSUME StageInv, NEW a \in Attempts,
           pc[a] \in {"granted", "working", "captured"},
           HandlerReleases(a) \/ (QuarantineOperation(stage[a], a) /\ pc[a] # "granted"),
           UNCHANGED <<stage, got, serverVars, humanVars>>,
           pc' = [pc EXCEPT ![a] = "failed"], final' \in [Attempts -> BOOLEAN],
           proc' \in [Attempts -> {"none", "running", "gone"}]
    PROVE  Preserved
<1> USE Shapes DEF StageInv, StageFacts
<1>1. /\ Others(stage[a]) /\ [LedgerNext]_ledgerVars
      /\ \/ claim'[stage[a]].owner = Nobody /\ claim[stage[a]].status = "pending"
         \/ /\ claim'[stage[a]].owner = a /\ Fits(claim'[stage[a]], "failed")
            /\ claim[stage[a]].status = "pending"
         \/ claim'[stage[a]] = claim[stage[a]] /\ claim[stage[a]].owner # a
  BY HandlerGivesUp, HandlerBurns
<1> QED
  BY <1>1, AttemptStepFits DEF Labels, AttemptTypeOK, Preserved

LEMMA FailBeforeWorkspacePreserves ==
    ASSUME StageInv, NEW a \in Attempts, FailBeforeWorkspace(a)
    PROVE  Preserved
<1> USE Shapes DEF StageInv, StageFacts
<1>1. /\ pc[a] = "granted" /\ HandlerReleases(a)
      /\ UNCHANGED <<stage, got, serverVars, humanVars>>
      /\ pc' = [pc EXCEPT ![a] = "failed"] /\ final' \in [Attempts -> BOOLEAN]
      /\ proc' \in [Attempts -> {"none", "running", "gone"}]
  BY EndsFacts DEF FailBeforeWorkspace, Kept, AttemptTypeOK
<1> QED
  BY <1>1, FailurePreserves

LEMMA FaultPreserves ==
    ASSUME StageInv, NEW a \in Attempts, Fault(a)
    PROVE  Preserved
<1> USE Shapes DEF StageInv, StageFacts
<1>1. /\ pc[a] \in {"working", "captured"} /\ QuarantineOperation(stage[a], a)
      /\ UNCHANGED <<stage, got, serverVars, humanVars>>
      /\ pc' = [pc EXCEPT ![a] = "failed"] /\ final' \in [Attempts -> BOOLEAN]
      /\ proc' \in [Attempts -> {"none", "running", "gone"}]
  BY EndsFacts DEF Fault, Kept, AttemptTypeOK
<1> QED
  BY <1>1, FailurePreserves

LEMMA SubprocessTimesOutPreserves ==
    ASSUME StageInv, NEW a \in Attempts, SubprocessTimesOut(a)
    PROVE  Preserved
<1> USE Shapes DEF StageInv, StageFacts
<1>1. /\ pc[a] = "working" /\ QuarantineOperation(stage[a], a)
      /\ UNCHANGED <<stage, got, serverVars, humanVars>>
      /\ pc' = [pc EXCEPT ![a] = "failed"] /\ final' \in [Attempts -> BOOLEAN]
      /\ proc' \in [Attempts -> {"none", "running", "gone"}]
  BY EndsFacts DEF SubprocessTimesOut, Kept, AttemptTypeOK
<1> QED
  BY <1>1, FailurePreserves

LEMMA CancelCapturePreserves ==
    ASSUME StageInv, NEW a \in Attempts, CancelCapture(a)
    PROVE  Preserved
<1> USE Shapes DEF StageInv, StageFacts
<1>1. /\ pc[a] = "captured" /\ HandlerReleases(a)
      /\ UNCHANGED <<stage, got, serverVars, humanVars>>
      /\ pc' = [pc EXCEPT ![a] = "failed"] /\ final' \in [Attempts -> BOOLEAN]
      /\ proc' \in [Attempts -> {"none", "running", "gone"}]
  BY EndsFacts DEF CancelCapture, Kept, AttemptTypeOK
<1> QED
  BY <1>1, FailurePreserves

LEMMA CancelSubprocessPreserves ==
    ASSUME StageInv, NEW a \in Attempts, CancelSubprocess(a)
    PROVE  Preserved
<1> USE Shapes DEF StageInv, StageFacts
<1>1. /\ pc[a] = "working"
      /\ HandlerReleases(a) \/ QuarantineOperation(stage[a], a)
      /\ UNCHANGED <<stage, got, serverVars, humanVars>>
      /\ pc' = [pc EXCEPT ![a] = "failed"] /\ final' \in [Attempts -> BOOLEAN]
      /\ proc' \in [Attempts -> {"none", "running", "gone"}]
  BY EndsFacts DEF CancelSubprocess, CancelExecute, CancelAbsorbed, Kept, AttemptTypeOK
<1> QED
  BY <1>1, FailurePreserves

LEMMA RecordPreserves ==
    ASSUME StageInv, NEW a \in Attempts, Record(a)
    PROVE  Preserved
<1> USE Shapes DEF StageInv, StageFacts
<1> DEFINE k == stage[a]
<1>0. /\ pc[a] = "captured"
      /\ UNCHANGED <<stage, proc, serverVars, humanVars>>
  BY DEF Record, Kept
<1>1. CASE RecordEffect(k, a, Own(a)) /\ Goto(a, "recorded")
           /\ got' = [got EXCEPT ![a] = Own(a)] /\ UNCHANGED final
  <2>1. /\ claim[k].status \in {"pending", "effect"}
        /\ claim'[k].owner = a /\ claim'[k].status = "effect" /\ Others(k)
    BY <1>1, EffectRow
  <2>2. StageFacts'
    BY <1>0, <1>1, <2>1, AttemptStepFits DEF Goto, Labels, AttemptTypeOK, Fits
  <2> QED
    BY <1>1, <2>2, MethodCalls DEF Preserved
<1>2. CASE QuarantineOperation(k, a) /\ Ends(a, "ValueError") /\ UNCHANGED got
  BY <1>0, <1>2, EndsFacts, FailurePreserves DEF AttemptTypeOK
<1> QED
  BY <1>1, <1>2 DEF Record

LEMMA CompletePreserves ==
    ASSUME StageInv, NEW a \in Attempts, Complete(a)
    PROVE  Preserved
<1> USE Shapes DEF StageInv, StageFacts
<1> DEFINE k == stage[a]
<1>0. /\ pc[a] = "recorded" /\ got[a] \in Output
      /\ UNCHANGED <<stage, proc, got, serverVars, humanVars>>
      /\ claim[k].owner = a => Fits(claim[k], "recorded")
  BY DEF Complete, Kept, GotFits, OwnerFits
<1>1. CASE Ends(a, "OperationalError") /\ UNCHANGED ledgerVars
  BY <1>0, <1>1, EndsFacts, AttemptStepFits, OtherRow
     DEF Labels, AttemptTypeOK, Fits, ledgerVars, Others, Preserved
<1>2. CASE CompleteOperation(k, got[a]) /\ Goto(a, "succeeded") /\ UNCHANGED final
  <2>1. /\ claim[k].status \in {"effect", "completed"}
        /\ claim'[k].status = "completed" /\ claim'[k].output = got[a]
        /\ claim'[k].owner = claim[k].owner /\ Others(k)
    BY <1>2, CompleteRow
  <2>2. claim[k].status = "completed" => claim[k].output = got[a]
    BY <1>2 DEF CompleteOperation, Completable
  <2>3. StageFacts'
    BY <1>0, <1>2, <2>1, <2>2, AttemptStepFits, OtherRow DEF Goto, Labels, AttemptTypeOK, Fits
  <2> QED
    BY <1>0, <1>2, <2>3, MethodCalls DEF Preserved
<1> QED
  BY <1>1, <1>2 DEF Complete

-----------------------------------------------------------------------------
(* The steps of the server and of the operator.                             *)

LEMMA DispatchPreserves ==
    ASSUME StageInv, NEW a \in Attempts, Dispatch(a)
    PROVE  Preserved
<1> USE DEF StageInv, StageFacts
<1>1. /\ pc[a] = "unused" /\ pc' = [pc EXCEPT ![a] = "starting"]
      /\ stage' = [stage EXCEPT ![a] = StageOrder[at + 1]]
      /\ current' = a /\ tries' = tries + 1 /\ at < Len(StageOrder)
      /\ UNCHANGED <<run, at, ledgerVars, claim, proc, got, final, humanVars>>
  BY DEF Dispatch, Goto, ServerKept, ledgerVars
<1>2. StageOrder[at + 1] \in Keys
  BY <1>1, StageAssumption DEF AttemptTypeOK
<1>3. AttemptTypeOK'
  BY <1>1, <1>2 DEF AttemptTypeOK, humanVars
<1>4. OwnerFits'
  <2>1. \A j \in Keys : claim[j].owner # a
    BY <1>1, NotYetOwner
  <2> QED
    BY <1>1, <2>1 DEF OwnerFits, Fits, AttemptTypeOK
<1>5. GotFits' /\ ServerFits' /\ SuccessIsTheCompletedOutput'
  BY <1>1 DEF GotFits, ServerFits, SuccessIsTheCompletedOutput, AttemptTypeOK
<1> QED
  BY <1>1, <1>3, <1>4, <1>5 DEF Preserved

\* The other steps of the server leave the attempts and the tables alone.
LEMMA ServerPreserves ==
    ASSUME StageInv,
           UNCHANGED <<ledgerVars, attemptVars, humanVars>>,
           run' \in {"running", "failed", "completed"},
           at' \in 0..Len(StageOrder), tries' \in Nat, current' \in Attempts \cup {Nobody},
           ServerFits'
    PROVE  Preserved
<1> USE DEF StageInv, StageFacts, ledgerVars, attemptVars, humanVars
<1>1. AttemptTypeOK'
  BY DEF AttemptTypeOK
<1>2. OwnerFits' /\ GotFits' /\ SuccessIsTheCompletedOutput'
  BY DEF OwnerFits, Fits, GotFits, SuccessIsTheCompletedOutput
<1> QED
  BY <1>1, <1>2 DEF Preserved

LEMMA ServerStepPreserves ==
    ASSUME StageInv, NEW a \in Attempts, ServerStep(a)
    PROVE  Preserved
<1> USE DEF StageInv, StageFacts
<1>1. /\ current = a /\ at < Len(StageOrder) /\ at \in Nat
      /\ run \in {"running", "failed", "completed"} /\ tries \in Nat
      /\ Len(StageOrder) \in Nat
  BY LedgerAssumption, StageAssumption
     DEF ServerStep, StageSucceeds, StageRaises, GiveUp, ServerFits, AttemptTypeOK, Attempts
<1>2. /\ UNCHANGED <<ledgerVars, attemptVars, humanVars>>
      /\ run' \in {"running", "failed", "completed"}
      /\ at' \in 0..Len(StageOrder) /\ tries' \in Nat /\ current' = Nobody
  BY <1>1 DEF ServerStep, StageSucceeds, StageRaises, GiveUp, ServerKept, attemptVars
<1> QED
  BY <1>2, ServerPreserves DEF ServerFits

LEMMA RedrivePreserves ==
    ASSUME StageInv, Redrive
    PROVE  Preserved
<1> USE DEF StageInv, StageFacts
<1>1. /\ UNCHANGED <<ledgerVars, attemptVars, humanVars, current>>
      /\ run' = "running" /\ at' = 0 /\ tries' = 0
  BY DEF Redrive, ServerKept, attemptVars
<1>2. Len(StageOrder) \in Nat /\ Len(StageOrder) > 0
  BY StageAssumption
<1>3. current' \in Attempts \cup {Nobody}
  BY <1>1 DEF AttemptTypeOK
<1> QED
  BY <1>1, <1>2, <1>3, ServerPreserves DEF ServerFits

LEMMA ReadClaimPreserves ==
    ASSUME StageInv, NEW k \in Keys, ReadClaim(k)
    PROVE  Preserved
<1> USE DEF StageInv, StageFacts
<1>1. claim[k].owner \in Owners \cup {Nobody}
  BY DEF OwnerFits, Attempts
<1>2. AttemptTypeOK'
  BY <1>1 DEF ReadClaim, attemptVars, serverVars, AttemptTypeOK
<1>3. OwnerFits' /\ GotFits' /\ ServerFits' /\ SuccessIsTheCompletedOutput'
  BY DEF ReadClaim, ledgerVars, attemptVars, serverVars,
         OwnerFits, Fits, GotFits, ServerFits, SuccessIsTheCompletedOutput
<1> QED
  BY <1>2, <1>3 DEF ReadClaim, Preserved

LEMMA ReleaseClaimPreserves ==
    ASSUME StageInv, NEW k \in Keys, ReleaseClaim(k)
    PROVE  Preserved
<1> USE Shapes DEF StageInv, StageFacts
<1>1. /\ seen[k] \in Owners /\ seen' = [seen EXCEPT ![k] = Nobody]
      /\ UNCHANGED <<attemptVars, serverVars, orderly>>
  BY DEF ReleaseClaim, AttemptTypeOK
<1>2. AttemptTypeOK' /\ GotFits' /\ ServerFits'
  BY <1>1 DEF attemptVars, serverVars, AttemptTypeOK, GotFits, ServerFits
<1>3. CASE ReleasePending(k, seen[k])
  <2>1. /\ claim[k].status = "pending" /\ claim'[k].owner = Nobody
        /\ claim'[k].status = "pending" /\ Others(k)
    BY <1>3, ReleaseRow
  <2>2. \A a \in Attempts : a # Nobody
    BY LedgerAssumption DEF Attempts
  <2>3. OwnerFits'
    <3> SUFFICES ASSUME NEW j \in Keys
                 PROVE  /\ claim'[j].owner \in Attempts \cup {Nobody}
                        /\ \A b \in Attempts : claim'[j].owner = b =>
                             stage'[b] = j /\ Fits(claim'[j], pc'[b])
      BY DEF OwnerFits, Fits
    <3>1. CASE j # k
      BY <1>1, <2>1, <3>1 DEF OwnerFits, Others, attemptVars
    <3>2. CASE j = k
      BY <2>1, <2>2, <3>2
    <3> QED
      BY <3>1, <3>2
  <2>4. SuccessIsTheCompletedOutput'
    BY <1>1, <2>1 DEF SuccessIsTheCompletedOutput, Others, attemptVars
  <2> QED
    BY <1>1, <1>2, <1>3, <2>3, <2>4, MethodCalls DEF Preserved
<1>4. CASE UNCHANGED ledgerVars
  BY <1>1, <1>2, <1>4
     DEF attemptVars, ledgerVars, OwnerFits, Fits, SuccessIsTheCompletedOutput, Preserved
<1> QED
  BY <1>3, <1>4 DEF ReleaseClaim

-----------------------------------------------------------------------------
LEMMA StageNextInv ==
    StageInv /\ [StageNext]_vars => StageInv' /\ [LedgerNext]_ledgerVars
<1> SUFFICES ASSUME StageInv, [StageNext]_vars
             PROVE  StageInv' /\ [LedgerNext]_ledgerVars
  OBVIOUS
<1>1. CASE UNCHANGED vars
  BY <1>1 DEF vars, ledgerVars, attemptVars, serverVars, humanVars, StageInv, StageFacts,
       LedgerInv, LedgerTypeOK, HistoryTellsClaim, CompletionIsProvable, OutputFitsStatus,
       OutputIsWrittenOnce, AttemptTypeOK, OwnerFits, Fits, GotFits, ServerFits,
       SuccessIsTheCompletedOutput
<1>2. CASE StageNext
  <2>1. Preserved
    <3>1. ASSUME NEW a \in Attempts, AttemptStep(a) PROVE Preserved
      BY <3>1, BeginPreserves, AdoptPreserves, FailBeforeWorkspacePreserves, LaunchPreserves,
         SubprocessReturnsPreserves, FaultPreserves, SubprocessTimesOutPreserves,
         RecordPreserves, CompletePreserves DEF AttemptStep
    <3>2. ASSUME NEW a \in Attempts, Interruption(a) \/ ProcessExits(a) PROVE Preserved
      BY <3>2, CancelSubprocessPreserves, CancelCapturePreserves, CrashPreserves,
         ProcessExitsPreserves DEF Interruption
    <3>3. ASSUME NEW a \in Attempts, Dispatch(a) \/ ServerStep(a) PROVE Preserved
      BY <3>3, DispatchPreserves, ServerStepPreserves
    <3>4. ASSUME NEW k \in Keys, ReadClaim(k) \/ ReleaseClaim(k) PROVE Preserved
      BY <3>4, ReadClaimPreserves, ReleaseClaimPreserves
    <3> QED
      BY <1>2, <3>1, <3>2, <3>3, <3>4, RedrivePreserves DEF StageNext
  <2>2. LedgerInv'
    BY <2>1, NextInv DEF Preserved, StageInv
  <2> QED
    BY <2>1, <2>2 DEF Preserved, StageInv
<1> QED
  BY <1>1, <1>2

LEMMA StageInvariant == StageSpec => []StageInv
<1>1. StageInit => StageInv
  BY StageInitInv
<1>2. StageInv /\ [StageNext]_vars => StageInv'
  BY StageNextInv
<1> QED
  BY <1>1, <1>2, PTL DEF StageSpec

\* Type correctness of the tables, the attempts, the server and the operator,
\* for any plan, any number of attempts and any retry policy.
THEOREM StageTypesHold == StageSpec => []StageTypeOK
<1>1. StageInv => StageTypeOK
  BY DEF StageInv, StageFacts, StageTypeOK, LedgerInv
<1> QED
  BY <1>1, StageInvariant, PTL

\* The stages of activities.py drive the tables by the methods of ledger.py
\* alone, so whatever the ledger promises, a run of stages keeps.
THEOREM StageUsesLedger == StageSpec => UsesTheLedger
<1>1. StageInit => LedgerInit
  BY StageInitInv
<1>2. StageInv /\ [StageNext]_vars => [LedgerNext]_ledgerVars
  BY StageNextInv
<1> QED
  BY <1>1, <1>2, StageInvariant, PTL DEF StageSpec, UsesTheLedger

\* A run of stages keeps what the ledger promises, with its zombies, adoptions,
\* releases and re-driven attempts: one outcome for each operation, an output
\* that is written once, settlements that are final, and completions that
\* _require_completed_build_claim can prove from the history.
THEOREM StageKeepsLedgerPromises ==
  StageSpec => /\ ImplementsOneOutcome
               /\ OutputIsWrittenOnce
               /\ SettledIsFinal
               /\ []CompletionIsProvable
<1>1. StageSpec => LedgerSpec
  BY StageUsesLedger DEF UsesTheLedger, LedgerSpec
<1> QED
  BY <1>1, LedgerImplementsOneOutcome, OutputWrittenOnce, SettledFinal, CompletionProvable,
     PTL

\* Every attempt that answers success answers with the output its operation is
\* completed with, whatever zombies, adoptions, releases and re-driven runs did.
THEOREM StageSuccess == StageSpec => []SuccessIsTheCompletedOutput
<1>1. StageInv => SuccessIsTheCompletedOutput
  BY DEF StageInv, StageFacts
<1> QED
  BY <1>1, StageInvariant, PTL

\* A claim is quarantined only in the name of an attempt that failed while the
\* claim was its own, never by a late failure of the attempt it replaced.
THEOREM StageQuarantine == StageSpec => []QuarantinedByItsOwner
<1>1. StageInv => QuarantinedByItsOwner
  <2> SUFFICES ASSUME StageInv, NEW k \in Keys, claim[k].status = "quarantined"
               PROVE  /\ claim[k].owner \in Attempts
                      /\ pc[claim[k].owner] = "failed"
                      /\ claim[k].output = NoOutput
    BY DEF QuarantinedByItsOwner
  <2>1. claim[k].owner # Nobody
    BY DEF StageInv, LedgerInv, OutputFitsStatus
  <2> QED
    BY <2>1 DEF StageInv, StageFacts, OwnerFits, Fits
<1> QED
  BY <1>1, StageInvariant, PTL

\* A handler that ran leaves no pending claim in the name of its attempt: only a
\* lost worker can keep an operation from being claimed again.
THEOREM StageFailure == StageSpec => []FailureLeavesNoClaim
<1>1. StageInv => FailureLeavesNoClaim
  BY DEF StageInv, StageFacts, OwnerFits, Fits, FailureLeavesNoClaim
<1> QED
  BY <1>1, StageInvariant, PTL

-----------------------------------------------------------------------------
(* One process for one operation.  The inductive part: in an orderly run an   *)
(* attempt that works, or whose process runs on, still holds its claim, but   *)
(* for the verification, whose wrapper hides an unreaped process, and         *)
(* the operator has only seen owners that are gone for good.                 *)

Active(a) ==
    \/ pc[a] \in {"granted", "working"}
    \/ proc[a] = "running" /\ stage[a] \notin Absorbing

ProcessFits == \A a \in Attempts : proc[a] = "running" => pc[a] \in {"working", "failed", "lost"}

ActiveHolds == orderly => \A a \in Attempts : Active(a) => claim[stage[a]].owner = a

SeenGone ==
    orderly => \A k \in Keys : seen[k] \in Attempts =>
        pc[seen[k]] = "lost" /\ proc[seen[k]] # "running"

ProcessInv == ProcessFits /\ ActiveHolds /\ SeenGone

\* A row changes hands only when it was the attempt's own, or nobody's.
Yields(a) ==
    /\ Others(stage[a])
    /\ \/ claim'[stage[a]].owner = claim[stage[a]].owner
       \/ claim[stage[a]].owner \in {a, Nobody}

\* What a step of attempt a to label p has to show.
LEMMA AttemptStepProcess ==
    ASSUME StageInv, ProcessInv, NEW a \in Attempts, NEW p \in Labels,
           pc' = [pc EXCEPT ![a] = p], pc[a] # "lost",
           UNCHANGED <<stage, humanVars>>, Yields(a),
           \A b \in Attempts \ {a} : proc'[b] = proc[b],
           proc'[a] = "running" => p \in {"working", "failed", "lost"},
           /\ orderly
           /\ p \in {"granted", "working"} \/ (proc'[a] = "running" /\ stage[a] \notin Absorbing)
           => claim'[stage[a]].owner = a
    PROVE  ProcessInv'
<1> USE Shapes DEF StageInv, StageFacts
<1>1. pc \in [Attempts -> Labels] /\ UNCHANGED <<seen, orderly, stage>>
  BY DEF AttemptTypeOK, Labels, humanVars
<1>2. \A b \in Attempts \ {a} : pc'[b] = pc[b] /\ proc'[b] = proc[b]
  BY <1>1
<1>3. pc'[a] = p
  BY <1>1
<1>4. ProcessFits'
  BY <1>2, <1>3 DEF ProcessInv, ProcessFits
<1>5. ActiveHolds'
  <2> SUFFICES ASSUME orderly, NEW b \in Attempts, Active(b)'
               PROVE  claim'[stage[b]].owner = b
    BY <1>1 DEF ActiveHolds
  <2>1. CASE b = a
    BY <1>3, <2>1 DEF Active
  <2>2. CASE b # a
    <3>1. claim[stage[b]].owner = b
      BY <1>2, <2>2 DEF Active, ProcessInv, ActiveHolds
    <3>2. CASE stage[b] = stage[a]
      BY <2>2, <3>1, <3>2 DEF Yields
    <3>3. CASE stage[b] # stage[a]
      BY <3>1, <3>3 DEF Yields, Others
    <3> QED
      BY <3>2, <3>3
  <2> QED
    BY <2>1, <2>2
<1>6. SeenGone'
  <2> SUFFICES ASSUME orderly, NEW k \in Keys, seen[k] \in Attempts
               PROVE  pc'[seen[k]] = "lost" /\ proc'[seen[k]] # "running"
    BY <1>1 DEF SeenGone
  <2>1. pc[seen[k]] = "lost" /\ proc[seen[k]] # "running"
    BY DEF ProcessInv, SeenGone
  <2> QED
    BY <1>2, <2>1
<1> QED
  BY <1>4, <1>5, <1>6 DEF ProcessInv

\* A handler gives up no claim but its own.
LEMMA HandlersYield ==
    ASSUME StageInv, NEW a \in Attempts,
           \/ HandlerReleases(a) \/ QuarantineOperation(stage[a], a) \/ UNCHANGED ledgerVars
    PROVE  Yields(a)
<1> USE Shapes DEF StageInv, StageFacts
<1>1. CASE ReleasePending(stage[a], a)
  BY <1>1, ReleaseRow DEF Yields
<1>2. CASE QuarantineOperation(stage[a], a)
  BY <1>2, QuarantineRow DEF Yields, Quarantinable
<1>3. CASE UNCHANGED ledgerVars
  BY <1>3 DEF ledgerVars, Yields, Others
<1> QED
  BY <1>1, <1>2, <1>3 DEF HandlerReleases

\* A claim that is quarantined stays in its owner's name.
LEMMA QuarantineKeepsOwner ==
    ASSUME StageInv, NEW a \in Attempts, QuarantineOperation(stage[a], a)
    PROVE  claim'[stage[a]].owner = claim[stage[a]].owner
BY Shapes, QuarantineRow DEF Quarantinable

\* The work of an attempt, from its claim to its answer.
LEMMA AttemptProcess ==
    ASSUME StageInv, ProcessInv, NEW a \in Attempts, AttemptStep(a)
    PROVE  ProcessInv'
<1> DEFINE k == stage[a]
<1>a. BeginOperation(k, Input, a, FALSE) => claim'[k].owner = a /\ Others(k)
  <2>1. claim \in [Keys -> Claim] /\ k \in Keys /\ Input \in Inputs /\ a \in Owners
    BY Shapes, StageAssumption
  <2> HIDE DEF k
  <2> QED
    BY <2>1, BeginRow
<1> USE Shapes DEF StageInv, StageFacts
<1>0. /\ proc \in [Attempts -> {"none", "running", "gone"}]
      /\ pc[a] \notin {"working", "failed", "lost"} => proc[a] # "running"
  BY DEF ProcessInv, ProcessFits, AttemptTypeOK
<1>1. CASE Begin(a)
  <2>1. pc[a] = "starting" /\ UNCHANGED <<stage, proc, humanVars>>
    BY <1>1 DEF Begin, Kept
  <2>2. CASE UNCHANGED ledgerVars /\ (Ends(a, "ValueError") \/ Goto(a, "adopting"))
    <3>1. PICK p \in {"failed", "adopting"} : pc' = [pc EXCEPT ![a] = p]
      BY <2>2 DEF Ends, Goto
    <3> QED
      BY <1>0, <2>1, <2>2, <3>1, HandlersYield, AttemptStepProcess DEF Labels
  <2>3. CASE BeginOperation(k, Input, a, FALSE) /\ Goto(a, "granted")
    <3>1. claim'[k].owner = a /\ Others(k)
      BY <1>a, <2>3
    <3>2. claim[k].owner \in {a, Nobody}
      <4>1. claim[k].status = "absent" => claim[k].owner = Nobody
        BY DEF OwnerFits, Fits
      <4> QED
        BY <2>3, <4>1 DEF BeginOperation, MayTakeOver, Holds
    <3> QED
      BY <1>0, <2>1, <2>3, <3>1, <3>2, AttemptStepProcess DEF Labels, Goto, Yields
  <2> QED
    BY <1>1, <2>2, <2>3 DEF Begin
<1>2. CASE Adopt(a)
  <2>1. pc[a] = "adopting" /\ UNCHANGED <<stage, proc, humanVars>>
    BY <1>2 DEF Adopt, Kept
  <2>2. PICK p \in {"succeeded", "failed"} : pc' = [pc EXCEPT ![a] = p]
    BY <1>2 DEF Adopt, Ends, Goto
  <2>3. Yields(a)
    BY <1>2, CompleteRow, HandlersYield DEF Adopt, Yields
  <2> QED
    BY <1>0, <2>1, <2>2, <2>3, AttemptStepProcess DEF Labels
<1>3. CASE FailBeforeWorkspace(a)
  <2>1. /\ pc[a] = "granted" /\ UNCHANGED <<stage, proc, humanVars>>
        /\ pc' = [pc EXCEPT ![a] = "failed"] /\ HandlerReleases(a)
    BY <1>3 DEF FailBeforeWorkspace, Kept, Ends, Goto
  <2> QED
    BY <1>0, <2>1, HandlersYield, AttemptStepProcess DEF Labels
<1>4. CASE Launch(a)
  <2>1. /\ pc[a] = "granted" /\ UNCHANGED <<stage, humanVars, ledgerVars, claim>>
        /\ pc' = [pc EXCEPT ![a] = "working"] /\ proc' = [proc EXCEPT ![a] = "running"]
    BY <1>4 DEF Launch, Kept, Goto, ledgerVars
  <2>2. orderly => claim[k].owner = a
    BY <2>1 DEF ProcessInv, ActiveHolds, Active
  <2> QED
    BY <1>0, <2>1, <2>2, HandlersYield, AttemptStepProcess DEF Labels
<1>5. CASE SubprocessReturns(a)
  <2>1. /\ pc[a] = "working" /\ proc[a] = "gone"
        /\ UNCHANGED <<stage, proc, humanVars, ledgerVars>>
        /\ pc' = [pc EXCEPT ![a] = "captured"]
    BY <1>5 DEF SubprocessReturns, Kept, Goto
  <2> QED
    BY <2>1, HandlersYield, AttemptStepProcess DEF Labels
<1>6. CASE Fault(a)
  <2>1. /\ pc[a] \in {"working", "captured"} /\ proc[a] = "gone"
        /\ UNCHANGED <<stage, proc, humanVars>> /\ QuarantineOperation(k, a)
        /\ pc' = [pc EXCEPT ![a] = "failed"]
    BY <1>6 DEF Fault, Kept, Ends, Goto
  <2> QED
    BY <2>1, HandlersYield, AttemptStepProcess DEF Labels
<1>7. CASE SubprocessTimesOut(a)
  <2>1. /\ pc[a] = "working" /\ QuarantineOperation(k, a)
        /\ UNCHANGED <<stage, humanVars>>
        /\ pc' = [pc EXCEPT ![a] = "failed"]
        /\ \A b \in Attempts \ {a} : proc'[b] = proc[b]
    BY <1>0, <1>7 DEF SubprocessTimesOut, Kept, Ends, Goto
  <2>2. orderly => claim'[k].owner = a
    BY <2>1, QuarantineKeepsOwner DEF ProcessInv, ActiveHolds, Active
  <2> QED
    BY <2>1, <2>2, HandlersYield, AttemptStepProcess DEF Labels
<1>8. CASE Record(a)
  <2>1. pc[a] = "captured" /\ UNCHANGED <<stage, proc, humanVars>>
    BY <1>8 DEF Record, Kept
  <2>2. PICK p \in {"recorded", "failed"} : pc' = [pc EXCEPT ![a] = p]
    BY <1>8 DEF Record, Ends, Goto
  <2>3. Yields(a)
    BY <1>8, EffectRow, HandlersYield DEF Record, Yields
  <2> QED
    BY <1>0, <2>1, <2>2, <2>3, AttemptStepProcess DEF Labels
<1>9. CASE Complete(a)
  <2>1. pc[a] = "recorded" /\ UNCHANGED <<stage, proc, humanVars>>
    BY <1>9 DEF Complete, Kept
  <2>2. PICK p \in {"succeeded", "failed"} : pc' = [pc EXCEPT ![a] = p]
    BY <1>9 DEF Complete, Ends, Goto
  <2>3. Yields(a)
    BY <1>9, CompleteRow, HandlersYield DEF Complete, Yields
  <2> QED
    BY <1>0, <2>1, <2>2, <2>3, AttemptStepProcess DEF Labels
<1> QED
  BY <1>1, <1>2, <1>3, <1>4, <1>5, <1>6, <1>7, <1>8, <1>9 DEF AttemptStep

\* What cuts an attempt short.  Only a disorderly cancellation lets a process
\* outlive the claim of its attempt.
LEMMA InterruptionProcess ==
    ASSUME StageInv, ProcessInv, NEW a \in Attempts, Interruption(a)
    PROVE  ProcessInv'
<1> USE Shapes DEF StageInv, StageFacts
<1> DEFINE k == stage[a]
<1>0. /\ proc \in [Attempts -> {"none", "running", "gone"}]
      /\ pc[a] \notin {"working", "failed", "lost"} => proc[a] # "running"
  BY DEF ProcessInv, ProcessFits, AttemptTypeOK
<1>1. CASE CancelSubprocess(a)
  <2>1. pc[a] = "working" /\ UNCHANGED <<stage, humanVars>>
    BY <1>1 DEF CancelSubprocess, Kept
  <2>2. pc' = [pc EXCEPT ![a] = "failed"]
    BY <1>1 DEF CancelSubprocess, CancelExecute, CancelAbsorbed, Ends, Goto
  <2>3. HandlerReleases(a) \/ QuarantineOperation(k, a)
    BY <1>1 DEF CancelSubprocess, CancelExecute, CancelAbsorbed
  <2>4. /\ \A b \in Attempts \ {a} : proc'[b] = proc[b]
        /\ orderly /\ proc'[a] = "running" /\ k \notin Absorbing => QuarantineOperation(k, a)
    BY <1>0, <1>1 DEF CancelSubprocess, CancelExecute, CancelAbsorbed
  <2>5. orderly /\ proc'[a] = "running" /\ k \notin Absorbing => claim'[k].owner = a
    BY <2>1, <2>4, QuarantineKeepsOwner DEF ProcessInv, ActiveHolds, Active
  <2> QED
    BY <2>1, <2>2, <2>3, <2>4, <2>5, HandlersYield, AttemptStepProcess DEF Labels
<1>2. CASE CancelCapture(a)
  <2>1. /\ pc[a] = "captured" /\ UNCHANGED <<stage, proc, humanVars>>
        /\ pc' = [pc EXCEPT ![a] = "failed"] /\ HandlerReleases(a)
    BY <1>2 DEF CancelCapture, Kept, Ends, Goto
  <2> QED
    BY <1>0, <2>1, HandlersYield, AttemptStepProcess DEF Labels
<1>3. CASE Crash(a)
  <2>1. /\ Live(a) /\ UNCHANGED <<stage, proc, humanVars, ledgerVars, claim>>
        /\ pc' = [pc EXCEPT ![a] = "lost"]
    BY <1>3 DEF Crash, Kept, Goto, ledgerVars
  <2>2. pc[a] # "lost"
    BY <2>1 DEF Live
  <2>3. orderly /\ proc[a] = "running" /\ k \notin Absorbing => claim[k].owner = a
    BY DEF ProcessInv, ActiveHolds, Active
  <2> QED
    BY <2>1, <2>2, <2>3, HandlersYield, AttemptStepProcess DEF Labels
<1> QED
  BY <1>1, <1>2, <1>3 DEF Interruption

\* The operator releases only a claim whose owner was gone when it was read, and
\* an owner that is gone does not come back.
LEMMA OperatorProcess ==
    ASSUME StageInv, ProcessInv, NEW k \in Keys, ReadClaim(k) \/ ReleaseClaim(k)
    PROVE  ProcessInv'
<1> USE Shapes DEF StageInv, StageFacts
<1>0. /\ UNCHANGED <<pc, stage, proc, orderly>> /\ seen \in [Keys -> Owners \cup {Nobody}]
      /\ Nobody \notin Attempts
  BY LedgerAssumption
     DEF ReadClaim, ReleaseClaim, attemptVars, AttemptTypeOK, Attempts
<1>1. ProcessFits'
  BY <1>0 DEF ProcessInv, ProcessFits
<1>2. CASE ReadClaim(k)
  <2>1. /\ claim[k].status = "pending"
        /\ orderly => OwnerGone(claim[k].owner)
        /\ seen' = [seen EXCEPT ![k] = claim[k].owner] /\ UNCHANGED claim
    BY <1>2 DEF ReadClaim, ledgerVars
  <2>2. ActiveHolds'
    BY <1>0, <2>1 DEF ProcessInv, ActiveHolds, Active
  <2>3. ASSUME orderly, claim[k].owner \in Attempts
        PROVE  pc[claim[k].owner] = "lost" /\ proc[claim[k].owner] # "running"
    <3>1. pc[claim[k].owner] \in {"granted", "working", "captured", "lost"}
      BY <2>1, <2>3 DEF OwnerFits, Fits
    <3> QED
      BY <2>1, <2>3, <3>1 DEF OwnerGone, Live
  <2>4. SeenGone'
    BY <1>0, <2>1, <2>3 DEF ProcessInv, SeenGone
  <2> QED
    BY <1>1, <2>2, <2>4 DEF ProcessInv
<1>3. CASE ReleaseClaim(k)
  <2>1. seen' = [seen EXCEPT ![k] = Nobody]
    BY <1>3 DEF ReleaseClaim
  <2>2. SeenGone'
    BY <1>0, <2>1 DEF ProcessInv, SeenGone
  <2>3. ActiveHolds'
    <3> SUFFICES ASSUME orderly, NEW b \in Attempts, Active(b)
                 PROVE  claim'[stage[b]].owner = b
      BY <1>0 DEF ActiveHolds, Active
    <3>1. claim[stage[b]].owner = b
      BY DEF ProcessInv, ActiveHolds
    <3>2. CASE UNCHANGED ledgerVars
      BY <3>1, <3>2 DEF ledgerVars
    <3>3. CASE ReleasePending(k, seen[k])
      <4>1. claim[k].owner = seen[k] /\ Others(k)
        BY <3>3, ReleaseRow
      <4>2. stage[b] # k
        <5>1. SUFFICES ASSUME stage[b] = k PROVE FALSE
          OBVIOUS
        <5>2. seen[k] = b
          BY <3>1, <4>1, <5>1
        <5> QED
          BY <5>2 DEF ProcessInv, SeenGone, Active
      <4> QED
        BY <3>1, <4>1, <4>2 DEF Others
    <3> QED
      BY <1>3, <3>2, <3>3 DEF ReleaseClaim
  <2> QED
    BY <1>1, <2>2, <2>3 DEF ProcessInv
<1> QED
  BY <1>2, <1>3

LEMMA ProcessStep ==
    ASSUME StageInv, ProcessInv, [StageNext]_vars
    PROVE  ProcessInv'
<1> USE DEF StageInv, StageFacts
<1>1. ASSUME NEW a \in Attempts, ProcessExits(a)
      PROVE  ProcessInv'
  BY <1>1 DEF ProcessExits, Kept, ledgerVars, humanVars, AttemptTypeOK, ProcessInv, ProcessFits,
     ActiveHolds, SeenGone, Active
<1>2. ASSUME NEW a \in Attempts, Dispatch(a)
      PROVE  ProcessInv'
  <2>1. /\ pc[a] = "unused" /\ pc' = [pc EXCEPT ![a] = "starting"]
        /\ stage' = [stage EXCEPT ![a] = StageOrder[at + 1]]
        /\ UNCHANGED <<claim, proc, seen, orderly>>
    BY <1>2 DEF Dispatch, Goto, ServerKept, ledgerVars, humanVars
  <2>2. \A b \in Attempts \ {a} : pc'[b] = pc[b] /\ stage'[b] = stage[b]
    BY <2>1 DEF AttemptTypeOK
  <2>3. pc'[a] = "starting" /\ proc[a] # "running"
    BY <2>1 DEF AttemptTypeOK, ProcessInv, ProcessFits
  <2>4. ProcessFits' /\ ActiveHolds'
    BY <2>1, <2>2, <2>3 DEF ProcessInv, ProcessFits, ActiveHolds, Active
  <2>5. SeenGone'
    BY <2>1, <2>2 DEF ProcessInv, SeenGone
  <2> QED
    BY <2>4, <2>5 DEF ProcessInv
<1>3. CASE UNCHANGED <<ledgerVars, attemptVars, humanVars>>
  BY <1>3 DEF ledgerVars, attemptVars, humanVars, ProcessInv, ProcessFits, ActiveHolds, SeenGone,
     Active
<1>4. ASSUME NEW a \in Attempts, ServerStep(a)
      PROVE  ProcessInv'
  BY <1>3, <1>4 DEF ServerStep, StageSucceeds, StageRaises, GiveUp, ServerKept, attemptVars
<1>5. CASE Redrive
  BY <1>3, <1>5 DEF Redrive, ServerKept, attemptVars
<1>6. CASE UNCHANGED vars
  BY <1>3, <1>6 DEF vars
<1> QED
  BY <1>1, <1>2, <1>4, <1>5, <1>6, AttemptProcess, InterruptionProcess, OperatorProcess
     DEF StageNext

\* No operation ever has two processes, in any run in which cancellations do not
\* pile up on a cleanup and the operator checks what claims.py asks to check: a
\* stage that works, or whose process lives on, still holds its claim.  Of the
\* verification nothing is claimed.
THEOREM StageOneProcess == StageSpec => []OneProcessPerOperation
<1>1. StageInit => ProcessInv
  BY LedgerAssumption
     DEF StageInit, ProcessInv, ProcessFits, ActiveHolds, SeenGone, Active, Attempts
<1>2. StageInv /\ ProcessInv /\ [StageNext]_vars => ProcessInv'
  BY ProcessStep
<1>3. ProcessInv => OneProcessPerOperation
  BY DEF ProcessInv, ActiveHolds, Active, OneProcessPerOperation
<1> QED
  BY <1>1, <1>2, <1>3, StageInvariant, PTL DEF StageSpec

=============================================================================
