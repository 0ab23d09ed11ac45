------------------------------ MODULE FeatureGate ------------------------------
(***************************************************************************)
(* The gate over a recorded feature assessment.  FeatureAssessmentRunWorkflow *)
(* raises it (feature_workflow.py); a human answers it through a client that  *)
(* re-derives the subject, journals the signed answer and submits it          *)
(* (submission.py); the admitting activity checks the answer against the      *)
(* ledger (feature_gate.py, activities.py) and writes the decision and then   *)
(* the run-keyed row that makes the rulings findable (ledger.py).             *)
(*                                                                         *)
(* The assessment of a run never changes (module AssessmentRecord), so the    *)
(* subject of its gate is the same in every drive of the run.  A digest of a  *)
(* value is the value: documents and decisions stand for their hashes.        *)
(***************************************************************************)
EXTENDS Naturals, FiniteSets

CONSTANTS
    Candidates,    \* the candidates the recorded assessment surfaced
    Measured,      \* those a device has looked for
    Rulings,       \* the documents answers may carry: functions to Ruling
    Answers,       \* what a human may pass to the client
    GateDrives,    \* bound: how often the run is driven
    GateAdmits,    \* bound: attempts of the admitting activity, over all drives
    GateTime,      \* bound on the clock
    GateOpen,      \* gate_timeout_seconds, in ticks
    GateTries,     \* maximum_attempts of _GATE_RETRY
    Nothing

CandidateVerdicts == {"block", "offer_toggle", "ignore", "defer"}
Acting            == {"block", "offer_toggle"}
Consents          == {"solicited", "unsolicited", "mixed", ""}

\* One candidate's ruling; the rationale is either said or left blank.
Ruling == [verdict : CandidateVerdicts, said : BOOLEAN, consent : Consents]

\* A GateDecision: what its identity is a function of.
GateDecision == [choice : {"approve", "reject", "defer"}, words : {"as typed", "retyped", "copied"},
                 at : 0..GateTime]

\* FeatureGateSubmissionV1: a decision and the document it is sent with.
Submission == [decision : GateDecision, document : Rulings]

\* What a human types: a decision and a document; the client adds the time.
GateAnswer == [choice : {"approve", "reject", "defer"}, words : {"as typed", "retyped"},
               document : Rulings]

ASSUME GateAssumption ==
    /\ {GateDrives, GateAdmits, GateTime, GateOpen, GateTries} \subseteq Nat
    /\ GateOpen > 0 /\ Measured \subseteq Candidates
    /\ Answers \subseteq GateAnswer /\ Nothing \notin Submission

VARIABLES
    gateNow,        \* the clock
    gateDrive,      \* which drive of the run this is
    gateState,      \* FeatureAssessmentRunWorkflow._state
    gateIssued,     \* issue time of the gate request
    gateSubmission, \* _submission
    journal,        \* the client's journal file for this gate
    client,         \* the client process
    updates,        \* updates sent to the workflow, by this client or another
    signed,         \* the submissions the client has sent
    gateDecisions,  \* the decisions table
    dispositionRow, \* the run's row of admitted_dispositions_v1
    gateAdmits,     \* the attempts of the admitting activity
    gateCurrent     \* the attempt the workflow waits for, and how many it made

gateFlow   == <<gateDrive, gateState, gateIssued, gateSubmission>>
gateTables == <<gateDecisions, dispositionRow>>
gateServer == <<gateAdmits, gateCurrent>>
clientSide == <<journal, client, signed>>
gateVars   == <<gateNow, gateFlow, clientSide, updates, gateTables, gateServer>>

Away   == [pc |-> "away", at |-> 0, answer |-> Nothing, payload |-> Nothing]
Unused == [pc |-> "unused", of |-> Nothing]
NoTry  == [attempt |-> 0, tries |-> 0]

GateInit ==
    /\ gateNow = 0 /\ gateDrive = 1 /\ gateState = "created" /\ gateIssued = 0
    /\ gateSubmission = Nothing /\ journal = Nothing /\ client = Away
    /\ updates = {} /\ signed = {} /\ gateDecisions = {} /\ dispositionRow = Nothing
    /\ gateAdmits = [i \in 1..GateAdmits |-> Unused] /\ gateCurrent = NoTry

-----------------------------------------------------------------------------
(* What an answer has to be.                                                *)

\* _require_every_candidate_ruled, and the client's own check of the file
RulesEveryCandidate(document) == DOMAIN document = Candidates

\* _require_measurement_before_acting
ActsOnMeasured(document) ==
    \A c \in DOMAIN document : document[c].verdict \in Acting => c \in Measured

\* _require_consent_answer_before_acting
ActsWithConsent(document) ==
    \A c \in DOMAIN document : document[c].verdict \in Acting => document[c].consent # ""

SilenceOnlyIgnores(document) ==
    \A c \in DOMAIN document : document[c].verdict # "ignore" => document[c].said

\* validate_submission, beyond the bindings that hold because the subject is derived
Admissible(document) ==
    /\ RulesEveryCandidate(document)
    /\ ActsOnMeasured(document)
    /\ SilenceOnlyIgnores(document)
    /\ ActsWithConsent(document)

-----------------------------------------------------------------------------
(* The workflow.                                                            *)

GateExpiry == gateIssued + GateOpen

GateTick ==
    /\ gateNow < GateTime /\ gateNow' = gateNow + 1
    /\ UNCHANGED <<gateFlow, clientSide, updates, gateTables, gateServer>>

FlowOnly == UNCHANGED <<gateNow, gateDrive, clientSide, updates, gateTables, gateServer>>

\* prepare_feature_gate_activity, and the request the workflow builds of its answer
OpenGate ==
    /\ gateState = "created" /\ gateNow + GateOpen <= GateTime
    /\ gateState' = "awaiting" /\ gateIssued' = gateNow
    /\ UNCHANGED gateSubmission /\ FlowOnly

PrepareFails ==
    /\ gateState = "created" /\ gateState' = "failed"
    /\ UNCHANGED <<gateIssued, gateSubmission>> /\ FlowOnly

\* validate_submit_feature_dispositions
AcceptableNow(s) ==
    /\ gateState = "awaiting" /\ gateSubmission = Nothing
    /\ gateNow < GateExpiry
    /\ gateIssued <= s.decision.at /\ s.decision.at < GateExpiry
    /\ s.decision.at <= gateNow

\* The update is applied and the waiting coroutine continues in one activation.
DeliverUpdate(s) ==
    /\ AcceptableNow(s)
    /\ gateSubmission' = s
    /\ gateState' = CASE s.decision.choice = "approve" -> "admitting"
                      [] s.decision.choice = "reject"  -> "rejected"
                      [] OTHER                         -> "deferred"
    /\ UNCHANGED gateIssued /\ FlowOnly

GateLapses ==
    /\ gateState = "awaiting" /\ gateNow >= GateExpiry
    /\ gateState' = "blocked"
    /\ UNCHANGED <<gateIssued, gateSubmission>> /\ FlowOnly

\* A drive that did not complete may be repeated by a workflow that remembers
\* nothing, while the client's journal and the tables stay.
DriveAgain ==
    /\ gateState \in {"failed", "blocked", "rejected", "deferred"}
    /\ gateDrive < GateDrives /\ gateDrive' = gateDrive + 1
    /\ gateState' = "created" /\ gateIssued' = 0 /\ gateSubmission' = Nothing
    /\ gateCurrent' = NoTry
    /\ UNCHANGED <<gateNow, clientSide, updates, gateTables, gateAdmits>>

-----------------------------------------------------------------------------
(* The client.                                                              *)

ClientKept == UNCHANGED <<gateNow, gateFlow, gateTables, gateServer>>

\* verify_published_gate, for a gate whose subject the client derives itself.
GateVerifies == gateIssued < GateExpiry /\ gateIssued <= gateNow /\ gateNow < GateExpiry

\* read_pending_gate: an open gate.  The issue time of an answer is the time this
\* invocation started.
ReadGate(answer) ==
    /\ client = Away
    /\ gateState = "awaiting" /\ gateSubmission = Nothing /\ GateVerifies
    /\ client' = [pc |-> "read", at |-> gateNow, answer |-> answer, payload |-> Nothing]
    /\ UNCHANGED <<journal, signed, updates>> /\ ClientKept

\* assemble_decision: what this invocation would sign now.
Fresh == [choice |-> client.answer.choice, words |-> client.answer.words, at |-> client.at]

\* _feature_assessment_payload: the document is built and published anew for either
\* decision; the client runs the admitting side's own validator over it.
Payload(decision) == [decision |-> decision, document |-> client.answer.document]

\* read_journal: an entry for another subject would be ignored, but a gate that is
\* raised again has the same one.
Recorded == journal # Nothing

\* write_journal renames a synced file over the path: the journal is what it was or
\* the whole entry, wherever the process dies.
WriteJournal(payload) == journal' = payload

\* Mutant: the recorded decision is sent with whatever rulings are at hand.
VerbatimDecision ==
    /\ journal.decision.choice = client.answer.choice
    /\ journal.decision.words = client.answer.words

\* _require_recorded_decision_matches and _require_recorded_payload_matches
Verbatim ==
    /\ journal.decision.choice = client.answer.choice
    /\ journal.decision.words = client.answer.words
    /\ journal.document = client.answer.document

\* submit_answer up to the update: journal first, or take the decision that is
\* journalled; the document is built anew either way.
SignAnswer ==
    LET payload == Payload(IF Recorded THEN journal.decision ELSE Fresh) IN
    /\ client.pc = "read"
    /\ IF ~Admissible(client.answer.document) \/ (Recorded /\ ~Verbatim)
       THEN client' = Away /\ UNCHANGED journal
       ELSE /\ client' = [client EXCEPT !.pc = "journalled", !.payload = payload]
            /\ IF Recorded THEN UNCHANGED journal ELSE WriteJournal(payload)
    /\ UNCHANGED <<signed, updates>> /\ ClientKept

\* What becomes of the update, and of the receipt, is the server's business.
SendUpdate ==
    /\ client.pc = "journalled"
    /\ updates' = updates \cup {client.payload}
    /\ signed' = signed \cup {client.payload}
    /\ client' = Away
    /\ UNCHANGED journal /\ ClientKept

\* The human deletes the journal, as the refusals suggest.  Issue times have
\* microseconds: no two invocations share one.
DiscardJournal ==
    /\ client = Away /\ journal # Nothing /\ journal.decision.at < gateNow
    /\ journal' = Nothing
    /\ UNCHANGED <<client, signed, updates>> /\ ClientKept

\* The process is killed before it sends anything.
ClientDies ==
    /\ client # Away /\ client' = Away
    /\ UNCHANGED <<journal, signed, updates>> /\ ClientKept

\* Some other client of the server copies the hashes the workflow published.
ForeignUpdate(document) ==
    /\ gateState = "awaiting" /\ updates \subseteq signed
    /\ updates' = updates \cup {[decision |-> [choice |-> "approve", words |-> "copied",
                                               at |-> gateNow],
                                 document |-> document]}
    /\ UNCHANGED clientSide /\ ClientKept

-----------------------------------------------------------------------------
(* admit_feature_dispositions_activity: checks, then two transactions.       *)

AdmitKeeps == UNCHANGED <<gateNow, gateFlow, clientSide, updates>>

StartAdmission(i) ==
    /\ gateState = "admitting" /\ gateCurrent.attempt = 0
    /\ gateAdmits[i] = Unused /\ \A j \in 1..(i - 1) : gateAdmits[j] # Unused
    /\ gateAdmits' = [gateAdmits EXCEPT ![i] = [pc |-> "started", of |-> gateSubmission]]
    /\ gateCurrent' = [attempt |-> i, tries |-> gateCurrent.tries + 1]
    /\ UNCHANGED gateTables /\ AdmitKeeps

AdmissionAt(i, from, to) ==
    /\ gateAdmits[i].pc = from
    /\ gateAdmits' = [gateAdmits EXCEPT ![i].pc = to]
    /\ UNCHANGED gateCurrent

\* A refusal is not retried: "refused" is an ApplicationError with non_retryable.
AdmissionRefuses(i) ==
    /\ AdmissionAt(i, "started", "refused")
    /\ ~Admissible(gateAdmits[i].of.document)
    /\ UNCHANGED gateTables /\ AdmitKeeps

RecordApproval(i) ==
    /\ AdmissionAt(i, "started", "recorded")
    /\ Admissible(gateAdmits[i].of.document)
    /\ gateDecisions' = gateDecisions \cup {gateAdmits[i].of.decision}
    /\ UNCHANGED dispositionRow /\ AdmitKeeps

\* Mutant: the rulings are filed before the decision that approves them.
RecordDispositionsFirst(i) ==
    /\ AdmissionAt(i, "started", "admitted")
    /\ dispositionRow \in {Nothing, gateAdmits[i].of}
    /\ dispositionRow' = gateAdmits[i].of
    /\ UNCHANGED gateDecisions /\ AdmitKeeps

\* record_admitted_dispositions: one row for the run; the same row again is no error.
RecordDispositions(i) ==
    /\ \/ /\ dispositionRow \in {Nothing, gateAdmits[i].of}
          /\ AdmissionAt(i, "recorded", "admitted")
          /\ dispositionRow' = gateAdmits[i].of
       \/ /\ dispositionRow \notin {Nothing, gateAdmits[i].of}
          /\ AdmissionAt(i, "recorded", "failed")
          /\ UNCHANGED dispositionRow
    /\ UNCHANGED gateDecisions /\ AdmitKeeps

\* The worker dies between any two steps.
AdmissionDies(i) ==
    /\ \E from \in {"started", "recorded"} : AdmissionAt(i, from, "failed")
    /\ UNCHANGED gateTables /\ AdmitKeeps

AdmissionAnswers(i) ==
    /\ gateState = "admitting" /\ gateCurrent.attempt = i
    /\ gateAdmits[i].pc = "admitted"
    /\ gateState' = "completed" /\ gateCurrent' = NoTry
    /\ UNCHANGED <<gateNow, gateDrive, gateIssued, gateSubmission, clientSide, updates,
                   gateTables, gateAdmits>>

\* A failure or a timeout; after a timeout the attempt may still be writing, and a
\* refusal ends the drive at once.
AdmissionGivenUp(i) ==
    /\ gateState = "admitting" /\ gateCurrent.attempt = i
    /\ IF gateCurrent.tries < GateTries /\ gateAdmits[i].pc # "refused"
       THEN gateCurrent' = [gateCurrent EXCEPT !.attempt = 0] /\ UNCHANGED gateState
       ELSE gateCurrent' = NoTry /\ gateState' = "failed"
    /\ UNCHANGED <<gateNow, gateDrive, gateIssued, gateSubmission, clientSide, updates,
                   gateTables, gateAdmits>>

-----------------------------------------------------------------------------
FlowStep  == OpenGate \/ PrepareFails \/ GateLapses \/ DriveAgain
AdmissionStep(i) ==
    AdmissionRefuses(i) \/ RecordApproval(i) \/ RecordDispositions(i) \/ AdmissionDies(i)
AttemptStep(i) == StartAdmission(i) \/ AdmissionAnswers(i) \/ AdmissionGivenUp(i)

GateNext ==
    \/ GateTick \/ FlowStep \/ SignAnswer \/ SendUpdate \/ ClientDies \/ DiscardJournal
    \/ \E answer \in Answers : ReadGate(answer)
    \/ \E document \in Rulings : ForeignUpdate(document)
    \/ \E s \in updates : DeliverUpdate(s)
    \/ \E i \in 1..GateAdmits : AdmissionStep(i) \/ AttemptStep(i)

GateSpec == GateInit /\ [][GateNext]_gateVars

-----------------------------------------------------------------------------
(* Properties.                                                             *)

\* However often the client is killed and run again, with other words, other
\* rulings or a deleted journal, one decision is only ever sent with one document:
\* nobody's approval travels with rulings he did not give it for.
OneAnswerIsSent == \A s, t \in signed : s.decision = t.decision => s.document = t.document

\* The consumer reads the rulings by run.  When a drive answers "completed", the
\* row of the run is the submission this drive accepted: approved, admissible and
\* with its decision on record, whatever earlier drives and late attempts wrote.
CompletedIsFindable ==
    /\ gateState = "completed" => dispositionRow = gateSubmission
    /\ dispositionRow # Nothing =>
         /\ dispositionRow.decision \in gateDecisions
         /\ dispositionRow.decision.choice = "approve"
         /\ RulesEveryCandidate(dispositionRow.document)
         /\ \A c \in Candidates :
              dispositionRow.document[c].verdict \in Acting =>
                c \in Measured /\ dispositionRow.document[c].consent # ""

=============================================================================
