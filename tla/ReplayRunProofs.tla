--------------------------- MODULE ReplayRunProofs ---------------------------
(***************************************************************************)
(* The verification gate, for any number of drives, decisions, admitting     *)
(* attempts and retries: what is verified was consented to, once, and by      *)
(* somebody who was looking at the gate he answered.                          *)
(***************************************************************************)
EXTENDS ReplayRun, TLAPS

Approved(d) ==
    d \in Decision /\ d.choice = "approve" /\ \E a \in accepted : a.of = d /\ a.drive \in 1..drive

\* The server waits for an attempt only while the drive is admitting, and makes
\* no more of them than the policy allows.
ServerWaits ==
    /\ state # "admitting" => current = NoAdmit
    /\ current.attempt = 0 => current.tries < MaxTries

\* The drive that admits has an approval, and so has every attempt it ever made.
ApprovalsAreAdmitted ==
    /\ state = "admitting" => answer = decision /\ Approved(decision)
    /\ \A i \in Attempt :
         /\ admits[i].pc = "unused" => admits[i] = Idle
         /\ admits[i].pc # "unused" => Approved(admits[i].of)
         /\ current.attempt = i => admits[i].pc # "unused" /\ admits[i].of = decision

\* What the attempts wrote is where they wrote it.
WritesAreThere ==
    /\ \A i \in Attempt :
         /\ admits[i].pc = "recorded" => admits[i].of \in decisions
         /\ admits[i].pc = "granted" => grant = admits[i].of
    /\ grant # NoDecision => Approved(grant) /\ grant \in decisions
    /\ state \in {"verifying", "completed"} => grant # NoDecision /\ answer = grant

RunInv == RunTypeOK /\ ServerWaits /\ ApprovalsAreAdmitted /\ WritesAreThere

-----------------------------------------------------------------------------
USE DecisionAssumption, RunAssumption DEF RunAssumption

LEMMA RunStarts == RunInit => RunInv
<1> SUFFICES ASSUME RunInit PROVE RunInv
  OBVIOUS
<1>1. RunTypeOK
  <2>1. drive \in 1..MaxDrives /\ now \in 0..MaxTime /\ issued \in 0..MaxTime
    BY DEF RunInit
  <2>2. current \in [attempt : 0..MaxAdmits, tries : 0..MaxTries]
    BY DEF RunInit, NoAdmit
  <2> QED
    BY <2>1, <2>2 DEF RunInit, RunTypeOK, Idle
<1>2. ServerWaits
  BY DEF RunInit, ServerWaits, NoAdmit
<1>3. ApprovalsAreAdmitted /\ WritesAreThere
  BY DEF RunInit, ApprovalsAreAdmitted, WritesAreThere, NoAdmit, Idle, Attempt
<1> QED
  BY <1>1, <1>2, <1>3 DEF RunInv

LEMMA TypesKept == RunInv /\ [RunNext]_vars => RunTypeOK'
<1> SUFFICES ASSUME RunInv, [RunNext]_vars
             PROVE  RunTypeOK'
  OBVIOUS
<1> USE DEF RunInv, RunTypeOK
<1>1. CASE Tick
  BY <1>1 DEF Tick, wfVars, tableVars
<1>2. CASE WorkflowStep
  BY <1>2 DEF WorkflowStep, StagesComplete, ActivityFails, Resolve, PrepareGate, Verify, Step,
              WorkflowOnly, tableVars
<1>3. CASE GateExpires
  BY <1>3 DEF GateExpires, Step, WorkflowOnly, tableVars
<1>4. CASE Redrive
  BY <1>4 DEF Redrive, NoAdmit, tableVars
<1>5. ASSUME NEW id \in 1..MaxDecisions, NEW choice \in Choices, Issue(id, choice)
      PROVE  RunTypeOK'
  <2>1. PICK skew \in 0..Skew :
          sent' = sent \cup {[id |-> id, choice |-> choice, at |-> now + skew, when |-> now,
                             gate |-> drive]}
    BY <1>5 DEF Issue
  <2>2. [id |-> id, choice |-> choice, at |-> now + skew, when |-> now, gate |-> drive]
          \in Decision
    BY DEF Decision
  <2> QED
    BY <1>5, <2>1, <2>2 DEF Issue, wfVars, tableVars
<1>6. ASSUME NEW d \in sent, SubmitDecision(d)
      PROVE  RunTypeOK'
  <2>1. d \in Decision /\ d.choice \in Choices
    BY DEF Decision
  <2>2. [drive |-> drive, gate |-> issued, of |-> d]
          \in [drive : 1..MaxDrives, gate : 0..MaxTime, of : Decision]
    BY <2>1
  <2> QED
    BY <1>6, <2>1, <2>2 DEF SubmitDecision, Choices, tableVars
<1>7. ASSUME NEW i \in Attempt, AdmitStep(i)
      PROVE  RunTypeOK'
  <2>1. admits[i].pc \in {"started", "recorded"}
    BY <1>7 DEF AdmitStep, RecordDecision, RecordGrant, AdmitStops
  <2>2. admits[i].of \in Decision
    BY <2>1 DEF ApprovalsAreAdmitted, Approved
  <2> QED
    BY <1>7, <2>2 DEF AdmitStep, RecordDecision, RecordGrant, AdmitStops, AdmitGoto, AdmitKept,
                      wfVars, tableVars
<1>8. ASSUME NEW i \in Attempt, ServerStep(i)
      PROVE  RunTypeOK'
  <2>1. CASE ScheduleAdmit(i)
    <3>1. decision \in Decision /\ current.tries + 1 \in 0..MaxTries /\ i \in 0..MaxAdmits
      BY <2>1 DEF ScheduleAdmit, ApprovalsAreAdmitted, Approved, ServerWaits, Attempt
    <3> QED
      BY <2>1, <3>1 DEF ScheduleAdmit, AdmitKept, wfVars, tableVars
  <2>2. CASE Admitted(i) \/ AdmitGivenUp(i)
    BY <2>2 DEF Admitted, AdmitGivenUp, Step, NoAdmit, tableVars
  <2> QED
    BY <1>8, <2>1, <2>2 DEF ServerStep
<1>9. CASE UNCHANGED vars
  BY <1>9 DEF vars, wfVars, tableVars
<1> QED
  BY <1>1, <1>2, <1>3, <1>4, <1>5, <1>6, <1>7, <1>8, <1>9 DEF RunNext

\* Acceptance is for good, and so is the number of drives.
LEMMA ApprovalLasts ==
  ASSUME RunTypeOK, NEW d, Approved(d),
         accepted \subseteq accepted', drive' \in Nat, drive <= drive'
  PROVE  Approved(d)'
  BY DEF Approved, RunTypeOK

LEMMA AdmissionsKept ==
  RunInv /\ [RunNext]_vars => ServerWaits' /\ ApprovalsAreAdmitted' /\ WritesAreThere'
<1> SUFFICES ASSUME RunInv, [RunNext]_vars
             PROVE  ServerWaits' /\ ApprovalsAreAdmitted' /\ WritesAreThere'
  OBVIOUS
<1> USE DEF RunInv, RunTypeOK
<1> DEFINE Goal == ServerWaits /\ ApprovalsAreAdmitted /\ WritesAreThere
<1>1. CASE Tick
  BY <1>1 DEF Tick, wfVars, tableVars, ServerWaits, ApprovalsAreAdmitted, WritesAreThere, Approved
<1>2. CASE WorkflowStep
  <2>1. /\ UNCHANGED <<drive, decision, accepted, decisions, grant, admits, current>>
        /\ state # "admitting" /\ state' # "admitting"
        /\ \/ UNCHANGED answer /\ state' # "verifying" /\ state' # "completed"
           \/ UNCHANGED answer /\ state = "verifying" /\ state' = "completed"
           \/ answer' = grant /\ grant # NoDecision
    BY <1>2 DEF WorkflowStep, StagesComplete, ActivityFails, Resolve, PrepareGate, Verify, Step,
                WorkflowOnly, tableVars
  <2> QED
    BY <2>1 DEF ServerWaits, ApprovalsAreAdmitted, WritesAreThere, Approved
<1>3. CASE GateExpires
  BY <1>3 DEF GateExpires, Step, WorkflowOnly, tableVars, ServerWaits, ApprovalsAreAdmitted,
              WritesAreThere, Approved
<1>4. CASE Redrive
  <2>1. \A d : Approved(d) => Approved(d)'
    BY <1>4, ApprovalLasts DEF Redrive
  <2>2. ServerWaits' /\ state' = "stages" /\ UNCHANGED <<decisions, grant, admits>>
        /\ current' = NoAdmit
    BY <1>4 DEF Redrive, ServerWaits, NoAdmit, tableVars
  <2>3. \A i \in Attempt : current'.attempt # i
    BY <2>2 DEF NoAdmit, Attempt
  <2> QED
    BY <2>1, <2>2, <2>3 DEF ApprovalsAreAdmitted, WritesAreThere
<1>5. ASSUME NEW id \in 1..MaxDecisions, NEW choice \in Choices, Issue(id, choice)
      PROVE  Goal'
  BY <1>5 DEF Issue, wfVars, tableVars, ServerWaits, ApprovalsAreAdmitted, WritesAreThere, Approved
<1>6. ASSUME NEW d \in sent, SubmitDecision(d)
      PROVE  Goal'
  <2>1. /\ state = "awaiting" /\ d \in Decision /\ d.choice \in Choices
        /\ current = NoAdmit /\ \A i \in Attempt : current.attempt # i
    <3>1. state = "awaiting" /\ d \in Decision /\ d.choice \in Choices
      BY <1>6 DEF SubmitDecision, Valid, Decision
    <3>2. current = NoAdmit
      BY <3>1 DEF ServerWaits
    <3>3. \A i \in Attempt : NoAdmit.attempt # i
      BY DEF NoAdmit, Attempt
    <3> QED
      BY <3>1, <3>2, <3>3
  <2>2. \A e : Approved(e) => Approved(e)'
    BY <1>6, ApprovalLasts DEF SubmitDecision
  <2>3. /\ UNCHANGED <<decisions, grant, admits, current>>
        /\ state' \in {"admitting", "rejected", "deferred"}
        /\ state' = "admitting" => /\ decision' = d /\ answer' = d
                                   /\ d.choice = "approve" /\ UNCHANGED drive
                                   /\ [drive |-> drive, gate |-> issued, of |-> d] \in accepted'
    BY <1>6, <2>1 DEF SubmitDecision, Choices, tableVars
  <2>4. state' = "admitting" => Approved(d)'
    BY <2>1, <2>3 DEF Approved
  <2> QED
    BY <2>1, <2>2, <2>3, <2>4 DEF ServerWaits, ApprovalsAreAdmitted, WritesAreThere
<1>7. ASSUME NEW i \in Attempt, AdmitStep(i)
      PROVE  Goal'
  <2>1. /\ UNCHANGED <<drive, state, decision, answer, accepted, current>>
        /\ \A d : Approved(d)' <=> Approved(d)
    BY <1>7 DEF AdmitStep, RecordDecision, RecordGrant, AdmitStops, AdmitGoto, AdmitKept, wfVars,
                Approved
  <2>2. admits[i].pc \in {"started", "recorded"} /\ Approved(admits[i].of)
    BY <1>7 DEF AdmitStep, RecordDecision, RecordGrant, AdmitStops, ApprovalsAreAdmitted
  <2>3. ServerWaits' /\ ApprovalsAreAdmitted'
    BY <1>7, <2>1, <2>2 DEF AdmitStep, RecordDecision, RecordGrant, AdmitStops, AdmitGoto,
                            ServerWaits, ApprovalsAreAdmitted
  <2>4. WritesAreThere'
    <3>1. CASE RecordDecision(i)
      BY <3>1, <2>1, <2>2 DEF RecordDecision, AdmitGoto, WritesAreThere
    <3>2. CASE RecordGrant(i)
      <4>1. \A j \in Attempt : admits[j].pc # "unused" => admits[j].of # NoDecision
        BY DEF ApprovalsAreAdmitted, Approved
      <4>2. CASE admits[i].of \in decisions /\ grant \in {NoDecision, admits[i].of}
        <5>1. /\ grant' = admits[i].of /\ UNCHANGED decisions
              /\ admits' = [admits EXCEPT ![i].pc = "granted"]
          BY <3>2, <4>2 DEF RecordGrant, AdmitGoto
        <5>2. \A j \in Attempt : admits[j].pc = "granted" => admits[j].of = admits[i].of
          BY <4>1, <4>2 DEF WritesAreThere
        <5> QED
          BY <2>1, <2>2, <4>1, <4>2, <5>1, <5>2 DEF WritesAreThere
      <4>3. CASE ~(admits[i].of \in decisions /\ grant \in {NoDecision, admits[i].of})
        BY <3>2, <2>1, <4>3 DEF RecordGrant, AdmitGoto, WritesAreThere
      <4> QED
        BY <4>2, <4>3
    <3>3. CASE AdmitStops(i)
      BY <3>3, <2>1, <2>2 DEF AdmitStops, AdmitGoto, tableVars, WritesAreThere
    <3> QED
      BY <1>7, <3>1, <3>2, <3>3 DEF AdmitStep
  <2> QED
    BY <2>3, <2>4
<1>8. ASSUME NEW i \in Attempt, ServerStep(i)
      PROVE  Goal'
  <2>1. CASE ScheduleAdmit(i)
    <3>1. /\ UNCHANGED <<drive, state, decision, answer, accepted, decisions, grant>>
          /\ admits' = [admits EXCEPT ![i] = [pc |-> "started", of |-> decision]]
          /\ current' = [attempt |-> i, tries |-> current.tries + 1]
          /\ state = "admitting" /\ i # 0
      BY <2>1 DEF ScheduleAdmit, AdmitKept, wfVars, tableVars, Attempt
    <3>2. ServerWaits' /\ WritesAreThere'
      BY <3>1 DEF ServerWaits, WritesAreThere, Approved
    <3>3. ApprovalsAreAdmitted'
      BY <3>1 DEF ApprovalsAreAdmitted, Approved
    <3> QED
      BY <3>2, <3>3
  <2>2. CASE Admitted(i)
    <3>1. /\ grant = answer /\ grant # NoDecision
          /\ UNCHANGED <<drive, decision, answer, accepted, decisions, grant, admits>>
          /\ current' = NoAdmit /\ state' = "verifying"
      BY <2>2 DEF Admitted, Step, ApprovalsAreAdmitted, WritesAreThere, Approved, tableVars
    <3>2. ServerWaits' /\ \A j \in Attempt : current'.attempt # j
      BY <3>1 DEF ServerWaits, NoAdmit, Attempt
    <3> QED
      BY <3>1, <3>2 DEF ApprovalsAreAdmitted, WritesAreThere, Approved
  <2>3. CASE AdmitGivenUp(i)
    <3>1. /\ UNCHANGED <<drive, decision, answer, accepted, decisions, grant, admits>>
          /\ state = "admitting" /\ state' \in {"admitting", "failed"}
          /\ current'.attempt = 0 /\ current'.tries < MaxTries
          /\ state' = "failed" => current' = NoAdmit
      BY <2>3 DEF AdmitGivenUp, Step, NoAdmit, tableVars
    <3>2. ServerWaits' /\ \A j \in Attempt : current'.attempt # j
      BY <3>1 DEF ServerWaits, Attempt
    <3> QED
      BY <3>1, <3>2 DEF ApprovalsAreAdmitted, WritesAreThere, Approved
  <2> QED
    BY <1>8, <2>1, <2>2, <2>3 DEF ServerStep
<1>9. CASE UNCHANGED vars
  BY <1>9 DEF vars, wfVars, tableVars, ServerWaits, ApprovalsAreAdmitted, WritesAreThere, Approved
<1> QED
  BY <1>1, <1>2, <1>3, <1>4, <1>5, <1>6, <1>7, <1>8, <1>9 DEF RunNext

\* The inductive invariant of the run and its gate.
THEOREM RunInvariant == RunSpec => []RunInv
<1>1. RunInv /\ [RunNext]_vars => RunInv'
  BY TypesKept, AdmissionsKept DEF RunInv
<1> QED
  BY <1>1, RunStarts, PTL DEF RunSpec

\* Verification runs, and its result names, only what a human approved at an open
\* gate (activities.py, admit_replay_verification_grant_activity).
THEOREM ConsentVerified == RunSpec => []VerifiesOnlyConsent
<1>1. RunInv => VerifiesOnlyConsent
  BY DEF RunInv, WritesAreThere, Approved, VerifiesOnlyConsent
<1> QED
  BY <1>1, RunInvariant, PTL

\* The grant of a run is written once (ledger.py,
\* record_admitted_replay_verification_grant_v1).
THEOREM GrantedOnce == RunSpec => GrantIsSingleShot
<1>1. [RunNext]_vars => (grant # NoDecision => grant' = grant)
  <2> SUFFICES ASSUME [RunNext]_vars, grant # NoDecision
               PROVE  grant' = grant
    OBVIOUS
  <2>1. ASSUME NEW i \in Attempt, AdmitStep(i) \/ ServerStep(i)
        PROVE  grant' = grant
    BY <2>1 DEF AdmitStep, RecordDecision, RecordGrant, AdmitStops, ServerStep, ScheduleAdmit,
                Admitted, AdmitGivenUp, tableVars
  <2> QED
    BY <2>1 DEF RunNext, Tick, WorkflowStep, StagesComplete, ActivityFails, Resolve, PrepareGate,
                Verify, GateExpires, Redrive, Issue, SubmitDecision, WorkflowOnly, tableVars, vars
<1> QED
  BY <1>1, PTL DEF RunSpec, GrantIsSingleShot

-----------------------------------------------------------------------------
\* The clock tells the gates apart: a decision for an earlier drive was issued before
\* this drive and before the gate it raised, and states a time within the skew.
OldDecisionsAreOld ==
    /\ \A d \in sent : /\ d.when <= now /\ d.at <= d.when + Skew /\ d.gate <= drive
                       /\ d.gate < drive =>
                            d.when < now /\ (state = "awaiting" => d.when < issued)
    /\ AnswersTheGateSeen

LEMMA OldStayOld ==
  ASSUME RunInv, OldDecisionsAreOld, [RunNext]_vars
  PROVE  OldDecisionsAreOld'
<1> USE DEF RunInv, RunTypeOK, OldDecisionsAreOld, AnswersTheGateSeen, Decision
<1>0. \A d \in sent : d.when \in Nat /\ d.at \in Nat /\ d.gate \in Nat
  OBVIOUS
<1>1. CASE Tick
  BY <1>1 DEF Tick, wfVars, tableVars
<1>2. CASE WorkflowStep
  BY <1>2 DEF WorkflowStep, StagesComplete, ActivityFails, Resolve, PrepareGate, Verify, Step,
              WorkflowOnly, tableVars
<1>3. CASE GateExpires
  BY <1>3 DEF GateExpires, Step, WorkflowOnly
<1>4. CASE Redrive
  BY <1>4 DEF Redrive
<1>5. ASSUME NEW id \in 1..MaxDecisions, NEW choice \in Choices, Issue(id, choice)
      PROVE  OldDecisionsAreOld'
  <2>1. /\ UNCHANGED <<now, drive, state, issued, accepted>>
        /\ \E skew \in 0..Skew :
             sent' = sent \cup {[id |-> id, choice |-> choice, at |-> now + skew,
                                when |-> now, gate |-> drive]}
    BY <1>5 DEF Issue, wfVars
  <2> QED
    BY <2>1
<1>6. ASSUME NEW d \in sent, SubmitDecision(d)
      PROVE  OldDecisionsAreOld'
  <2> DEFINE row == [drive |-> drive, gate |-> issued, of |-> d]
  <2>1. /\ state = "awaiting" /\ issued <= d.at /\ accepted' = accepted \cup {row}
        /\ state' # "awaiting" /\ UNCHANGED <<now, drive, issued, sent>>
    BY <1>6 DEF SubmitDecision, Valid, Choices
  <2>2. d.gate = drive \/ (d.gate < drive /\ d.when < issued /\ issued <= d.when + Skew)
    BY <1>0, <2>1
  <2> QED
    BY <2>1, <2>2
<1>7. ASSUME NEW i \in Attempt, AdmitStep(i) \/ ServerStep(i)
      PROVE  OldDecisionsAreOld'
  BY <1>7 DEF AdmitStep, RecordDecision, RecordGrant, AdmitStops, AdmitKept, ServerStep,
              ScheduleAdmit, Admitted, AdmitGivenUp, Step, wfVars
<1>8. CASE UNCHANGED vars
  BY <1>8 DEF vars, wfVars
<1> QED
  BY <1>1, <1>2, <1>3, <1>4, <1>5, <1>6, <1>7, <1>8 DEF RunNext

\* A decision answers the gate its human was looking at, or one of a later drive that
\* was raised within the clients' skew of it (replay_workflow.py,
\* validate_submit_verification_decision), for clocks ahead by any amount.
THEOREM GateSeenAnswered == RunSpec => []AnswersTheGateSeen
<1>1. RunInit => OldDecisionsAreOld
  BY DEF RunInit, OldDecisionsAreOld, AnswersTheGateSeen
<1>2. RunInv /\ OldDecisionsAreOld /\ [RunNext]_vars => OldDecisionsAreOld'
  BY OldStayOld
<1>3. OldDecisionsAreOld => AnswersTheGateSeen
  BY DEF OldDecisionsAreOld
<1> QED
  BY <1>1, <1>2, <1>3, RunInvariant, PTL DEF RunSpec

=============================================================================
