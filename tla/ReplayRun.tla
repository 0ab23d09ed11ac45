------------------------------- MODULE ReplayRun -------------------------------
(***************************************************************************)
(* ReplayRunWorkflow and its verification gate: the workflow that sequences  *)
(* the stages and hosts the gate (replay_workflow.py), the activities that   *)
(* resolve, prepare and admit (activities.py), and the decision and grant    *)
(* tables they write (ledger.py).                                           *)
(*                                                                         *)
(* One admitted run, driven again and again: every drive is a new workflow  *)
(* over the same tables.  Decisions travel as updates that a client may send *)
(* late or more than once, and an admitting activity that the server gave up *)
(* on may still be writing when the next drive asks its question.           *)
(*                                                                         *)
(* The stages before the gate are module StageAttempts; here they complete  *)
(* or fail the drive.                                                       *)
(***************************************************************************)
EXTENDS Naturals, FiniteSets

CONSTANTS
    MaxDrives,    \* bound: how often the run is driven
    MaxDecisions, \* bound: decisions the human issues
    MaxAdmits,    \* bound: attempts of the admitting activity, over all drives
    MaxTime,      \* bound on the clock
    GateTimeout,  \* verification_gate_timeout_seconds, in ticks
    Grace,        \* how far in the future an issue time may lie (five minutes)
    Skew,         \* how far ahead of the workflow's clock a client's may be
    MaxTries,     \* maximum_attempts of _LEDGER_RETRY
    NoDecision

ASSUME RunAssumption ==
    /\ {MaxDrives, MaxDecisions, MaxAdmits, MaxTime, GateTimeout, Grace, Skew, MaxTries}
         \subseteq Nat
    /\ GateTimeout > 0 /\ MaxDrives > 0 /\ MaxTries > 0

Choices == {"approve", "reject", "defer"}

\* A decision with the issue time it states, the time it was issued, and the drive
\* whose gate the human was looking at.
Decision == [id : 1..MaxDecisions, choice : Choices, at : 0..(MaxTime + Skew),
             when : 0..MaxTime, gate : 1..MaxDrives]

ASSUME DecisionAssumption == NoDecision \notin Decision

VARIABLES
    now,       \* workflow time
    drive,     \* which drive of the run this is
    state,     \* ReplayRunWorkflow._state
    issued,    \* issue time of its gate request
    decision,  \* the decision its gate accepted
    answer,    \* _decision_id, as the decision it names
    sent,      \* the decisions humans have issued
    accepted,  \* the decisions accepted: by which drive, at the gate of which time
    decisions, \* the decisions table
    grant,     \* the decision of the run's grant row, if there is one
    admits,    \* the attempts of the admitting activity
    current    \* the attempt the workflow waits for, and how many it made

tableVars == <<decisions, grant>>
wfVars    == <<drive, state, issued, decision, answer>>
vars      == <<now, wfVars, sent, accepted, tableVars, admits, current>>

Attempt == 1..MaxAdmits
Idle    == [pc |-> "unused", of |-> NoDecision]
NoAdmit == [attempt |-> 0, tries |-> 0]

RunInit ==
    /\ now = 0 /\ drive = 1 /\ state = "stages" /\ issued = 0
    /\ decision = NoDecision /\ answer = NoDecision
    /\ sent = {} /\ accepted = {} /\ decisions = {} /\ grant = NoDecision
    /\ admits = [i \in Attempt |-> Idle]
    /\ current = NoAdmit

Expiry == issued + GateTimeout

Tick ==
    /\ now < MaxTime
    /\ now' = now + 1
    /\ UNCHANGED <<wfVars, sent, accepted, tableVars, admits, current>>

-----------------------------------------------------------------------------
(* The workflow up to its gate.                                             *)

Step(from, to) == state = from /\ state' = to

WorkflowOnly == UNCHANGED <<now, sent, accepted, tableVars, admits, current>>

StagesComplete ==
    /\ Step("stages", "resolving")
    /\ UNCHANGED <<drive, issued, decision, answer>> /\ WorkflowOnly

\* An activity that fails beyond its retries fails the drive, wherever it stands.
ActivityFails ==
    /\ state \in {"stages", "resolving", "preparing", "verifying"}
    /\ state' = "failed"
    /\ UNCHANGED <<drive, issued, decision, answer>> /\ WorkflowOnly

\* A recorded grant is the answer; without one the gate is raised.
Resolve ==
    /\ \/ /\ grant # NoDecision
          /\ Step("resolving", "verifying")
          /\ answer' = grant
       \/ /\ grant = NoDecision
          /\ Step("resolving", "preparing")
          /\ UNCHANGED answer
    /\ UNCHANGED <<drive, issued, decision>> /\ WorkflowOnly

PrepareGate ==
    /\ now + GateTimeout <= MaxTime
    /\ Step("preparing", "awaiting")
    /\ issued' = now
    /\ UNCHANGED <<drive, decision, answer>> /\ WorkflowOnly

-----------------------------------------------------------------------------
(* The gate.                                                                *)

\* A human looking at an open gate issues a decision; its client's clock may be
\* ahead of the workflow's.
Issue(id, choice) ==
    /\ state = "awaiting" /\ id = Cardinality(sent) + 1
    /\ \E skew \in 0..Skew :
         sent' = sent \cup {[id |-> id, choice |-> choice, at |-> now + skew,
                             when |-> now, gate |-> drive]}
    /\ UNCHANGED <<now, wfVars, accepted, tableVars, admits, current>>

\* Mutant: a decision may be older than the gate it answers.
ValidStale(d) ==
    /\ state = "awaiting" /\ decision = NoDecision
    /\ now < Expiry
    /\ d.at < Expiry /\ d.at <= now + Grace

\* validate_submit_verification_decision
Valid(d) ==
    /\ state = "awaiting" /\ decision = NoDecision
    /\ now < Expiry
    /\ issued <= d.at /\ d.at < Expiry /\ d.at <= now + Grace

\* Mutant: whatever is not a rejection is admitted.
SubmitDecisionLax(d) ==
    /\ d \in sent /\ Valid(d)
    /\ decision' = d /\ answer' = d
    /\ accepted' = accepted \cup {[drive |-> drive, gate |-> issued, of |-> d]}
    /\ state' = IF d.choice = "reject" THEN "rejected" ELSE "admitting"
    /\ UNCHANGED <<now, drive, issued, sent, tableVars, admits, current>>

\* The update is applied and the waiting coroutine continues in one activation.
SubmitDecision(d) ==
    /\ d \in sent /\ Valid(d)
    /\ decision' = d /\ answer' = d
    /\ accepted' = accepted \cup {[drive |-> drive, gate |-> issued, of |-> d]}
    /\ state' = CASE d.choice = "approve" -> "admitting"
                  [] d.choice = "reject"  -> "rejected"
                  [] OTHER                -> "deferred"
    /\ UNCHANGED <<now, drive, issued, sent, tableVars, admits, current>>

GateExpires ==
    /\ now >= Expiry
    /\ Step("awaiting", "blocked")
    /\ UNCHANGED <<drive, issued, decision, answer>> /\ WorkflowOnly

-----------------------------------------------------------------------------
(* The admitting activity: two writes, each its own transaction.            *)

AdmitKept == UNCHANGED <<now, wfVars, sent, accepted>>

ScheduleAdmit(i) ==
    /\ state = "admitting" /\ current.attempt = 0
    /\ admits[i] = Idle /\ \A j \in 1..(i - 1) : admits[j] # Idle
    /\ admits' = [admits EXCEPT ![i] = [pc |-> "started", of |-> decision]]
    /\ current' = [attempt |-> i, tries |-> current.tries + 1]
    /\ UNCHANGED tableVars /\ AdmitKept

AdmitGoto(i, label) ==
    /\ admits' = [admits EXCEPT ![i].pc = label]
    /\ UNCHANGED current

\* record_decision: a row under the same id must be the same row.
RecordDecision(i) ==
    LET d == admits[i].of IN
    /\ admits[i].pc = "started"
    /\ IF \E e \in decisions : e.id = d.id /\ e # d
       THEN AdmitGoto(i, "failed") /\ UNCHANGED decisions
       ELSE AdmitGoto(i, "recorded") /\ decisions' = decisions \cup {d}
    /\ UNCHANGED grant /\ AdmitKept

\* Mutant: a later grant replaces the one that is there.
RecordGrantReplacing(i) ==
    LET d == admits[i].of IN
    /\ admits[i].pc = "recorded"
    /\ AdmitGoto(i, "granted") /\ grant' = d
    /\ UNCHANGED decisions /\ AdmitKept

\* record_admitted_replay_verification_grant_v1: one grant for the run, of a
\* recorded decision; the same grant again is no error, another one collides.
RecordGrant(i) ==
    LET d == admits[i].of IN
    /\ admits[i].pc = "recorded"
    /\ IF d \in decisions /\ grant \in {NoDecision, d}
       THEN AdmitGoto(i, "granted") /\ grant' = d
       ELSE AdmitGoto(i, "failed") /\ UNCHANGED grant
    /\ UNCHANGED decisions /\ AdmitKept

\* The worker dies, or the database or the re-derivation refuses.
AdmitStops(i) ==
    /\ admits[i].pc \in {"started", "recorded"}
    /\ AdmitGoto(i, "failed")
    /\ UNCHANGED tableVars /\ AdmitKept

Admitted(i) ==
    /\ current.attempt = i /\ admits[i].pc = "granted"
    /\ Step("admitting", "verifying")
    /\ current' = NoAdmit
    /\ UNCHANGED <<now, drive, issued, decision, answer, sent, accepted, tableVars, admits>>

\* Mutant: the last attempt's failure is not passed on.
AdmitGivenUpQuietly(i) ==
    /\ state = "admitting" /\ current.attempt = i /\ current.tries < MaxTries
    /\ current' = [current EXCEPT !.attempt = 0]
    /\ UNCHANGED <<state, now, drive, issued, decision, answer, sent, accepted, tableVars,
                   admits>>

\* The attempt failed, or its timeout expired: it may still be writing, or have
\* written everything and lost its answer.
AdmitGivenUp(i) ==
    /\ state = "admitting" /\ current.attempt = i
    /\ IF current.tries < MaxTries
       THEN current' = [current EXCEPT !.attempt = 0] /\ UNCHANGED state
       ELSE current' = NoAdmit /\ Step("admitting", "failed")
    /\ UNCHANGED <<now, drive, issued, decision, answer, sent, accepted, tableVars, admits>>

-----------------------------------------------------------------------------
Verify ==
    /\ Step("verifying", "completed")
    /\ UNCHANGED <<drive, issued, decision, answer>> /\ WorkflowOnly

\* Whatever a drive ended with short of completion, the run may be driven again,
\* at a later time and with a workflow that remembers nothing.
Redrive ==
    /\ state \in {"failed", "blocked", "rejected", "deferred"}
    /\ drive < MaxDrives /\ now < MaxTime
    /\ now' = now + 1 /\ drive' = drive + 1
    /\ state' = "stages" /\ issued' = 0
    /\ decision' = NoDecision /\ answer' = NoDecision
    /\ current' = NoAdmit
    /\ UNCHANGED <<sent, accepted, tableVars, admits>>

WorkflowStep == StagesComplete \/ ActivityFails \/ Resolve \/ PrepareGate \/ Verify

AdmitStep(i) == RecordDecision(i) \/ RecordGrant(i) \/ AdmitStops(i)

ServerStep(i) == ScheduleAdmit(i) \/ Admitted(i) \/ AdmitGivenUp(i)

RunNext ==
    \/ Tick \/ WorkflowStep \/ GateExpires \/ Redrive
    \/ \E id \in 1..MaxDecisions, choice \in Choices : Issue(id, choice)
    \/ \E d \in sent : SubmitDecision(d)
    \/ \E i \in Attempt : AdmitStep(i) \/ ServerStep(i)

RunSpec == RunInit /\ [][RunNext]_vars

\* Time passes, the server delivers timers and activity results, and a worker
\* runs what it is given.  No human has to answer or to drive the run again.
FairRunSpec ==
    /\ RunSpec
    /\ WF_vars(Tick) /\ WF_vars(WorkflowStep) /\ WF_vars(GateExpires)
    /\ \A i \in Attempt : WF_vars(AdmitStep(i)) /\ WF_vars(ServerStep(i))

-----------------------------------------------------------------------------
(* Properties.                                                             *)

RunTypeOK ==
    /\ now \in 0..MaxTime /\ issued \in 0..MaxTime /\ drive \in 1..MaxDrives
    /\ state \in {"stages", "resolving", "preparing", "awaiting", "admitting", "verifying",
                  "completed", "blocked", "rejected", "deferred", "failed"}
    /\ {decision, answer, grant} \subseteq Decision \cup {NoDecision}
    /\ sent \subseteq Decision /\ decisions \subseteq Decision
    /\ accepted \subseteq [drive : 1..MaxDrives, gate : 0..MaxTime, of : Decision]
    /\ admits \in [Attempt -> [pc : {"unused", "started", "recorded", "granted", "failed"},
                               of : Decision \cup {NoDecision}]]
    /\ current \in [attempt : 0..MaxAdmits, tries : 0..MaxTries]

\* Verification runs, and its result names, only what a human approved: the
\* recorded grant's decision, itself recorded, which the open gate of this drive or
\* of an earlier one accepted.  Late attempts, resumption, rejected drives and a
\* death between the two writes do not change it.
VerifiesOnlyConsent ==
    state \in {"verifying", "completed"} =>
      /\ grant = answer /\ grant \in decisions
      /\ grant.choice = "approve"
      /\ \E a \in accepted : a.of = grant /\ a.drive \in 1..drive

\* A decision answers the gate its human was looking at, unless the gate of a later
\* drive was raised after it and within the clients' skew of it: the validator
\* takes the issue time for the only thing that tells the gates apart.  With clocks
\* that are not ahead there is no such gate (replay_workflow.py:328-333).
AnswersTheGateSeen ==
    \A a \in accepted :
      \/ a.of.gate = a.drive
      \/ /\ a.of.gate < a.drive
         /\ a.of.when < a.gate /\ a.gate <= a.of.when + Skew

\* A run is granted once: no later drive, late attempt or second decision
\* replaces the decision the verification was authorised by.
GrantIsSingleShot == [][grant # NoDecision => grant' = grant]_vars

\* A drive never waits for ever: an unanswered gate expires, an approval is
\* admitted or fails the drive.
DriveEnds ==
    state \in {"awaiting", "admitting", "verifying"} ~>
      state \in {"completed", "blocked", "rejected", "deferred", "failed"}

=============================================================================
