-------------------------- MODULE PortDecisionProofs --------------------------
(*****************************************************************************)
(* What the pipeline does is what was decided: the answer of a gate, the      *)
(* rulings, the offers of decision memory, the gated build, the grants of a   *)
(* replay, the workspaces of the attempts at it, the hooks of a patched tree, *)
(* and the operations of a port that passes.  For any hooks, runs, operators, *)
(* admissions, resolutions and interleavings.                                 *)
(*****************************************************************************)
EXTENDS FeatureGate, Rulings, PortMemory, PortRun, ReplayReceipts, WorkspaceReaper, HookSites,
        TreePort, FiniteSetTheorems, FunctionTheorems, TLAPS

-----------------------------------------------------------------------------
(*****************************************************************************)
(* FeatureGate: one answer is sent, and a gate completes with what is on record.*)
(*****************************************************************************)

GateStates == {"created", "awaiting", "admitting", "completed", "rejected", "deferred",
               "blocked", "failed"}
AdmitStates == {"unused", "started", "recorded", "admitted", "refused", "failed"}
Approval == {s \in Submission : s.decision.choice = "approve"}

GateTypes ==
    /\ gateNow \in 0..GateTime
    /\ gateState \in GateStates
    /\ gateIssued \in 0..GateTime
    /\ gateSubmission \in Submission \cup {Nothing}
    /\ journal \in Submission \cup {Nothing}
    /\ client \in [pc : {"away", "read", "journalled"}, at : 0..GateTime,
                   answer : GateAnswer \cup {Nothing}, payload : Submission \cup {Nothing}]
    /\ updates \subseteq Submission
    /\ signed \subseteq Submission
    /\ gateAdmits \in [1..GateAdmits -> [pc : AdmitStates, of : Submission \cup {Nothing}]]
    /\ gateCurrent \in [attempt : 0..GateAdmits, tries : Nat]

\* The journal holds the newest answer: what was sent before it is older, or is it.
JournalIsNewest ==
    /\ journal # Nothing =>
         /\ journal.decision.at <= gateNow
         /\ \A s \in signed : s = journal \/ s.decision.at < journal.decision.at
    /\ journal = Nothing =>
         \A s \in signed :
           /\ s.decision.at <= gateNow
           /\ client = Away => s.decision.at < gateNow
           /\ client.pc = "read" => s.decision.at < client.at

ClientHoldsJournal ==
    /\ client.pc = "away" => client = Away
    /\ client # Away => client.answer \in GateAnswer /\ client.at <= gateNow
    /\ client.pc = "journalled" => client.payload # Nothing /\ client.payload = journal

\* What an attempt of the admitting activity has written by where it stands.
AttemptsWrote ==
    \A i \in 1..GateAdmits :
      /\ gateAdmits[i].pc # "unused" => gateAdmits[i].of \in Approval
      /\ gateAdmits[i].pc \in {"recorded", "admitted"} =>
           gateAdmits[i].of.decision \in gateDecisions /\ Admissible(gateAdmits[i].of.document)
      /\ gateAdmits[i].pc = "admitted" => dispositionRow = gateAdmits[i].of

RowIsApproved ==
    dispositionRow # Nothing =>
      /\ dispositionRow \in Approval
      /\ dispositionRow.decision \in gateDecisions
      /\ Admissible(dispositionRow.document)

\* The attempt the workflow waits for carries the submission the workflow accepted.
FlowWaitsForItsOwn ==
    /\ gateState \in {"admitting", "completed"} => gateSubmission \in Approval
    /\ gateState = "completed" => dispositionRow = gateSubmission
    /\ gateCurrent.attempt # 0 =>
         /\ gateState = "admitting"
         /\ gateAdmits[gateCurrent.attempt].pc # "unused"
         /\ gateAdmits[gateCurrent.attempt].of = gateSubmission

AnswerInv == GateTypes /\ ClientHoldsJournal /\ JournalIsNewest /\ OneAnswerIsSent
AdmitInv  == AttemptsWrote /\ RowIsApproved /\ FlowWaitsForItsOwn
GateInv   == AnswerInv /\ AdmitInv

\* The assumption on the constants, as the numbers and sets the steps use.
LEMMA GateConstants ==
  /\ {GateDrives, GateAdmits, GateTime, GateOpen, GateTries} \subseteq Nat
  /\ Answers \subseteq GateAnswer /\ Nothing \notin Submission
  BY GateAssumption DEF GateAssumption

\* No gate has been opened and nothing was signed at the start.
LEMMA GateStarts == GateInit => GateInv
<1> SUFFICES ASSUME GateInit PROVE GateInv
  OBVIOUS
<1> USE GateConstants DEF GateInit
<1>1. GateTypes
  BY DEF GateTypes, GateStates, AdmitStates, Unused, NoTry, Away
<1>2. ClientHoldsJournal /\ JournalIsNewest /\ OneAnswerIsSent
  BY DEF ClientHoldsJournal, JournalIsNewest, OneAnswerIsSent, Away
<1>3. AdmitInv
  BY DEF AdmitInv, AttemptsWrote, RowIsApproved, FlowWaitsForItsOwn, Unused, NoTry
<1> QED
  BY <1>1, <1>2, <1>3 DEF GateInv, AnswerInv

-----------------------------------------------------------------------------
(* The client's side of the invariant.                                      *)

\* Clocks are numbers, and what was signed or journalled is a submission.
LEMMA AnswerDefs ==
  ASSUME AnswerInv
  PROVE  /\ gateNow \in Nat /\ client.at \in Nat
         /\ \A s \in signed : s \in Submission /\ s.decision.at \in Nat
         /\ journal # Nothing => journal \in Submission /\ journal.decision.at \in Nat
<1>1. GateTime \in Nat /\ 0..GateTime \subseteq Nat
  BY GateConstants
<1>2. gateNow \in Nat /\ client.at \in Nat
  BY <1>1 DEF AnswerInv, GateTypes
<1>3. \A s \in Submission : s.decision.at \in Nat
  BY <1>1 DEF Submission, GateDecision
<1> QED
  BY <1>2, <1>3 DEF AnswerInv, GateTypes

\* A step that touches no answer; the clock may go on.
LEMMA AnswersUntouched ==
  ASSUME AnswerInv, GateTypes', UNCHANGED clientSide, gateNow <= gateNow', gateNow' \in Nat
  PROVE  AnswerInv'
<1> USE DEF clientSide
<1>1. ClientHoldsJournal'
  <2>1. client.at <= gateNow => client.at <= gateNow'
    BY AnswerDefs
  <2> QED
    BY <2>1 DEF AnswerInv, ClientHoldsJournal, Away
<1>2. JournalIsNewest'
  <2>1. \A s \in signed : /\ s.decision.at <= gateNow => s.decision.at <= gateNow'
                          /\ s.decision.at < gateNow => s.decision.at < gateNow'
    BY AnswerDefs
  <2>2. (journal # Nothing /\ journal.decision.at <= gateNow) => journal.decision.at <= gateNow'
    BY AnswerDefs
  <2> QED
    BY <2>1, <2>2 DEF AnswerInv, JournalIsNewest, Away
<1>3. OneAnswerIsSent'
  BY DEF AnswerInv, OneAnswerIsSent
<1> QED
  BY <1>1, <1>2, <1>3 DEF AnswerInv

\* The client takes the time of its answer when it reads the journal.
LEMMA ReadKeepsAnswers ==
  ASSUME AnswerInv, NEW answer \in Answers, ReadGate(answer)
  PROVE  AnswerInv'
<1> USE DEF ReadGate, ClientKept, gateFlow, gateTables, gateServer
<1>0. answer \in GateAnswer
  BY GateConstants
<1>1. GateTypes'
  BY <1>0, GateConstants DEF AnswerInv, GateTypes
<1>2. client'.at = gateNow /\ client'.pc = "read" /\ client'.answer = answer
  OBVIOUS
<1>3. client' # Away
  BY <1>2 DEF Away
<1>4. ClientHoldsJournal'
  BY <1>0, <1>2, AnswerDefs DEF AnswerInv, ClientHoldsJournal
<1>5. JournalIsNewest'
  BY <1>2, <1>3, AnswerDefs DEF AnswerInv, JournalIsNewest
<1>6. OneAnswerIsSent'
  BY DEF AnswerInv, OneAnswerIsSent
<1> QED
  BY <1>1, <1>4, <1>5, <1>6 DEF AnswerInv

\* The client gives up what it had read, with the journal untouched.
LEMMA LeavingKeepsAnswers ==
  ASSUME AnswerInv, client # Away, client' = Away, UNCHANGED <<journal, signed, updates>>,
         ClientKept
  PROVE  AnswerInv'
<1> USE DEF ClientKept, gateFlow, gateTables, gateServer
<1>1. GateTypes'
  BY GateConstants DEF AnswerInv, GateTypes, Away
<1>2. ClientHoldsJournal'
  BY DEF ClientHoldsJournal, Away
<1>3. journal = Nothing => client.pc = "read" /\ client.at <= gateNow
  BY DEF AnswerInv, ClientHoldsJournal, GateTypes
<1>4. journal = Nothing => \A s \in signed : s.decision.at < gateNow
  BY <1>3, AnswerDefs DEF AnswerInv, JournalIsNewest
<1>5. JournalIsNewest'
  BY <1>4, AnswerDefs DEF AnswerInv, JournalIsNewest, Away
<1>6. OneAnswerIsSent'
  BY DEF AnswerInv, OneAnswerIsSent
<1> QED
  BY <1>1, <1>2, <1>5, <1>6 DEF AnswerInv

\* A new answer is newer than every one that was sent, and is journalled first.
LEMMA SigningKeepsAnswers ==
  ASSUME AnswerInv, SignAnswer
  PROVE  AnswerInv'
<1> DEFINE payload == Payload(IF Recorded THEN journal.decision ELSE Fresh)
<1>1. client.pc = "read" /\ client # Away /\ client.answer \in GateAnswer /\ client.at <= gateNow
  BY DEF SignAnswer, AnswerInv, ClientHoldsJournal, Away
<1>2. CASE ~Admissible(client.answer.document) \/ (Recorded /\ ~Verbatim)
  BY <1>1, <1>2, LeavingKeepsAnswers DEF SignAnswer
<1>3. CASE /\ ~(~Admissible(client.answer.document) \/ (Recorded /\ ~Verbatim))
           /\ Recorded
  <2>1. /\ client' = [client EXCEPT !.pc = "journalled", !.payload = payload]
        /\ UNCHANGED <<journal, signed, updates>> /\ ClientKept
    BY <1>3 DEF SignAnswer
  <2>2. journal \in Submission
    BY <1>3, AnswerDefs DEF Recorded
  <2>3. payload = [decision |-> journal.decision, document |-> client.answer.document]
        /\ client.answer.document = journal.document
    BY <1>3 DEF Payload, Verbatim
  <2>4. payload = journal
    BY <2>2, <2>3 DEF Submission
  <2> HIDE DEF payload
  <2>5. client'.pc = "journalled" /\ client'.payload = journal /\ client'.answer = client.answer
        /\ client'.at = client.at /\ client' # Away
    BY <2>1, <2>4 DEF AnswerInv, GateTypes, Away
  <2>6. GateTypes'
    BY <2>1, <2>4, <2>2 DEF AnswerInv, GateTypes, ClientKept, gateFlow, gateTables, gateServer
  <2>7. ClientHoldsJournal'
    BY <2>1, <2>5, <1>1, <1>3 DEF ClientHoldsJournal, Recorded, ClientKept
  <2>8. JournalIsNewest' /\ OneAnswerIsSent'
    BY <2>1, <1>3 DEF AnswerInv, JournalIsNewest, OneAnswerIsSent, Recorded, ClientKept
  <2> QED
    BY <2>6, <2>7, <2>8 DEF AnswerInv
<1>4. CASE /\ ~(~Admissible(client.answer.document) \/ (Recorded /\ ~Verbatim))
           /\ ~Recorded
  <2>1. /\ client' = [client EXCEPT !.pc = "journalled", !.payload = payload]
        /\ journal' = payload
        /\ UNCHANGED <<signed, updates>> /\ ClientKept
    BY <1>4 DEF SignAnswer, WriteJournal
  <2>2. /\ payload = [decision |-> Fresh, document |-> client.answer.document]
        /\ payload.decision = Fresh /\ Fresh.at = client.at
    BY <1>4 DEF Payload, Fresh
  <2>3. payload \in Submission
    <3>1. client.at \in 0..GateTime
      BY DEF AnswerInv, GateTypes
    <3>2. Fresh \in GateDecision
      BY <3>1, <1>1 DEF Fresh, GateDecision, GateAnswer
    <3>3. client.answer.document \in Rulings
      BY <1>1 DEF GateAnswer
    <3> QED
      BY <2>2, <3>2, <3>3 DEF Submission
  <2>3a. payload # Nothing
    BY <2>3, GateConstants
  <2>4. payload.decision.at = client.at
    BY <2>2
  <2> HIDE DEF payload
  <2>5. client'.pc = "journalled" /\ client'.payload = payload /\ client'.answer = client.answer
        /\ client'.at = client.at /\ client' # Away
    BY <2>1 DEF AnswerInv, GateTypes, Away
  <2>6. GateTypes'
    BY <2>1, <2>3 DEF AnswerInv, GateTypes, ClientKept, gateFlow, gateTables, gateServer
  <2>7. ClientHoldsJournal'
    BY <2>1, <2>5, <1>1, <2>3a DEF ClientHoldsJournal, ClientKept
  <2>8. \A s \in signed : s.decision.at < client.at
    BY <1>1, <1>4 DEF Recorded, AnswerInv, JournalIsNewest
  <2>9. JournalIsNewest'
    BY <2>1, <2>4, <2>8, <1>1, <2>3a DEF JournalIsNewest, ClientKept
  <2>10. OneAnswerIsSent'
    BY <2>1 DEF AnswerInv, OneAnswerIsSent
  <2> QED
    BY <2>6, <2>7, <2>9, <2>10 DEF AnswerInv
<1> QED
  BY <1>2, <1>3, <1>4

\* What is sent is what the journal holds.
LEMMA SendingKeepsAnswers ==
  ASSUME AnswerInv, SendUpdate
  PROVE  AnswerInv'
<1>1. /\ journal # Nothing /\ journal \in Submission
      /\ updates' = updates \cup {journal} /\ signed' = signed \cup {journal}
      /\ client' = Away /\ UNCHANGED journal /\ ClientKept
  BY AnswerDefs DEF AnswerInv, SendUpdate, ClientHoldsJournal
<1>2. GateTypes'
  BY <1>1, GateConstants DEF AnswerInv, GateTypes, Away, ClientKept, gateFlow, gateTables,
     gateServer
<1>3. ClientHoldsJournal'
  BY <1>1 DEF ClientHoldsJournal, Away
<1>4. JournalIsNewest'
  BY <1>1 DEF AnswerInv, JournalIsNewest, ClientKept
<1>5. OneAnswerIsSent'
  <2>1. \A s \in signed : s.decision = journal.decision => s = journal
    BY <1>1, AnswerDefs DEF AnswerInv, JournalIsNewest
  <2> QED
    BY <1>1, <2>1 DEF AnswerInv, OneAnswerIsSent
<1> QED
  BY <1>2, <1>3, <1>4, <1>5 DEF AnswerInv

\* A deleted journal leaves a client that signs with a later time.
LEMMA DiscardKeepsAnswers ==
  ASSUME AnswerInv, DiscardJournal
  PROVE  AnswerInv'
<1> USE DEF DiscardJournal
<1>1. GateTypes'
  BY DEF AnswerInv, GateTypes, ClientKept, gateFlow, gateTables, gateServer
<1>2. ClientHoldsJournal'
  BY DEF ClientHoldsJournal, Away
<1>3. \A s \in signed : s.decision.at < gateNow
  BY AnswerDefs DEF AnswerInv, JournalIsNewest
<1>4. JournalIsNewest'
  BY <1>3, AnswerDefs DEF JournalIsNewest, ClientKept, Away
<1>5. OneAnswerIsSent'
  BY DEF AnswerInv, OneAnswerIsSent
<1> QED
  BY <1>1, <1>2, <1>4, <1>5 DEF AnswerInv

\* A foreign update lands among the updates, and in no journal.
LEMMA ForeignKeepsAnswers ==
  ASSUME AnswerInv, NEW document \in Rulings, ForeignUpdate(document)
  PROVE  AnswerInv'
<1>1. [decision |-> [choice |-> "approve", words |-> "copied", at |-> gateNow],
       document |-> document] \in Submission
  BY DEF AnswerInv, GateTypes, Submission, GateDecision
<1>2. GateTypes'
  BY <1>1 DEF ForeignUpdate, AnswerInv, GateTypes, clientSide, ClientKept, gateFlow, gateTables,
     gateServer
<1> QED
  BY <1>2, AnswersUntouched, AnswerDefs DEF ForeignUpdate, ClientKept

\* The types hold after every step of the workflow and of the activity.
LEMMA ServerKeepsTypes ==
  ASSUME GateTypes,
         \/ GateTick \/ FlowStep \/ \E s \in updates : DeliverUpdate(s)
         \/ \E i \in 1..GateAdmits : AdmissionStep(i) \/ AttemptStep(i)
  PROVE  GateTypes' /\ UNCHANGED clientSide /\ gateNow <= gateNow' /\ gateNow' \in Nat
<1> USE GateConstants DEF GateTypes, gateFlow, gateTables, gateServer, clientSide
<1>0. gateNow \in Nat /\ GateTime \in Nat
  OBVIOUS
<1>1. CASE GateTick
  BY <1>0, <1>1 DEF GateTick
<1>2. CASE FlowStep
  <2>1. CASE OpenGate
    BY <1>0, <2>1 DEF OpenGate, FlowOnly, GateStates
  <2>2. CASE PrepareFails
    BY <1>0, <2>2 DEF PrepareFails, FlowOnly, GateStates
  <2>3. CASE GateLapses
    BY <1>0, <2>3 DEF GateLapses, FlowOnly, GateStates
  <2>4. CASE DriveAgain
    BY <1>0, <2>4 DEF DriveAgain, FlowOnly, GateStates, NoTry
  <2> QED
    BY <1>2, <2>1, <2>2, <2>3, <2>4 DEF FlowStep
<1>3. ASSUME NEW s \in updates, DeliverUpdate(s)
      PROVE  GateTypes' /\ UNCHANGED clientSide /\ gateNow <= gateNow' /\ gateNow' \in Nat
  BY <1>0, <1>3 DEF DeliverUpdate, FlowOnly, GateStates
<1>4. ASSUME NEW i \in 1..GateAdmits, AdmissionStep(i)
      PROVE  GateTypes' /\ UNCHANGED clientSide /\ gateNow <= gateNow' /\ gateNow' \in Nat
  <2>1. UNCHANGED <<gateNow, gateFlow, clientSide, updates, gateCurrent>>
    BY <1>4 DEF AdmissionStep, AdmissionRefuses, RecordApproval, RecordDispositions, AdmissionDies,
             AdmissionAt, AdmitKeeps
  <2>2. PICK to \in AdmitStates : gateAdmits' = [gateAdmits EXCEPT ![i].pc = to]
    BY <1>4 DEF AdmissionStep, AdmissionRefuses, RecordApproval, RecordDispositions, AdmissionDies,
             AdmissionAt, AdmitStates
  <2>3. gateAdmits' \in [1..GateAdmits -> [pc : AdmitStates, of : Submission \cup {Nothing}]]
    BY <2>2
  <2> QED
    BY <1>0, <2>1, <2>3
<1>5. ASSUME NEW i \in 1..GateAdmits, AttemptStep(i)
      PROVE  GateTypes' /\ UNCHANGED clientSide /\ gateNow <= gateNow' /\ gateNow' \in Nat
  <2>1. CASE StartAdmission(i)
    BY <1>0, <2>1 DEF StartAdmission, AdmitKeeps, AdmitStates
  <2>2. CASE AdmissionAnswers(i) \/ AdmissionGivenUp(i)
    BY <1>0, <2>2 DEF AdmissionAnswers, AdmissionGivenUp, GateStates, NoTry
  <2> QED
    BY <1>5, <2>1, <2>2 DEF AttemptStep
<1> QED
  BY <1>1, <1>2, <1>3, <1>4, <1>5

\* Every step of the client, the driver or the clock keeps the part about answers.
LEMMA NextKeepsAnswers ==
  ASSUME AnswerInv, [GateNext]_gateVars
  PROVE  AnswerInv'
<1>1. CASE UNCHANGED gateVars
  <2>1. GateTypes' /\ gateNow <= gateNow' /\ gateNow' \in Nat
    BY <1>1, AnswerDefs DEF AnswerInv, GateTypes, gateVars, gateFlow, gateTables, gateServer,
       clientSide
  <2> QED
    BY <1>1, <2>1, AnswersUntouched DEF gateVars
<1>2. CASE \/ GateTick \/ FlowStep \/ \E s \in updates : DeliverUpdate(s)
           \/ \E i \in 1..GateAdmits : AdmissionStep(i) \/ AttemptStep(i)
  BY <1>2, ServerKeepsTypes, AnswersUntouched DEF AnswerInv
<1>3. CASE SignAnswer
  BY <1>3, SigningKeepsAnswers
<1>4. CASE SendUpdate
  BY <1>4, SendingKeepsAnswers
<1>5. CASE ClientDies
  BY <1>5, LeavingKeepsAnswers DEF ClientDies
<1>6. CASE DiscardJournal
  BY <1>6, DiscardKeepsAnswers
<1>7. CASE \E answer \in Answers : ReadGate(answer)
  BY <1>7, ReadKeepsAnswers
<1>8. CASE \E document \in Rulings : ForeignUpdate(document)
  BY <1>8, ForeignKeepsAnswers
<1> QED
  BY <1>1, <1>2, <1>3, <1>4, <1>5, <1>6, <1>7, <1>8 DEF GateNext

-----------------------------------------------------------------------------
(* The server's side.                                                       *)

\* A step of the workflow or of a client writes no table and moves no attempt.
LEMMA FlowKeepsAdmissions ==
  ASSUME GateTypes, AdmitInv,
         \/ GateTick \/ FlowStep \/ \E s \in updates : DeliverUpdate(s)
         \/ ClientKept \/ UNCHANGED gateVars
  PROVE  AdmitInv'
<1>1. UNCHANGED <<gateTables, gateAdmits>>
  BY DEF GateTick, FlowStep, OpenGate, PrepareFails, GateLapses, DriveAgain, DeliverUpdate,
         FlowOnly, ClientKept, gateServer, gateVars
<1>2. AttemptsWrote' /\ RowIsApproved'
  BY <1>1 DEF AdmitInv, AttemptsWrote, RowIsApproved, gateTables
<1>3. FlowWaitsForItsOwn'
  <2>1. CASE GateTick \/ ClientKept \/ UNCHANGED gateVars
    BY <2>1 DEF GateTick, ClientKept, gateVars, gateFlow, gateServer, gateTables, AdmitInv,
                FlowWaitsForItsOwn
  <2>2. CASE FlowStep
    BY <2>2, <1>1 DEF FlowStep, OpenGate, PrepareFails, GateLapses, DriveAgain, FlowOnly,
       gateServer,
                gateTables, NoTry, AdmitInv, FlowWaitsForItsOwn
  <2>3. ASSUME NEW s \in updates, DeliverUpdate(s)
        PROVE  FlowWaitsForItsOwn'
    <3>1. /\ gateState = "awaiting" /\ gateSubmission' = s /\ s \in Submission
          /\ UNCHANGED <<gateCurrent, gateAdmits>>
          /\ gateState' # "completed"
          /\ gateState' = "admitting" => s \in Approval
      BY <2>3 DEF DeliverUpdate, AcceptableNow, FlowOnly, gateServer, GateTypes, Approval
    <3>2. gateCurrent.attempt = 0
      BY <3>1 DEF AdmitInv, FlowWaitsForItsOwn
    <3> QED
      BY <3>1, <3>2 DEF FlowWaitsForItsOwn
  <2> QED
    BY <2>1, <2>2, <2>3
<1> QED
  BY <1>2, <1>3 DEF AdmitInv

\* An attempt that only changes its place, to one where nothing more is written.
LEMMA AdmitMovesOn ==
  ASSUME GateTypes, AdmitInv, NEW i \in 1..GateAdmits, NEW to \in {"refused", "failed"},
         gateAdmits[i].pc # "unused",
         gateAdmits' = [gateAdmits EXCEPT ![i].pc = to],
         UNCHANGED <<gateFlow, gateCurrent, gateTables>>
  PROVE  AdmitInv'
<1>1. \A j \in 1..GateAdmits :
        /\ gateAdmits'[j].of = gateAdmits[j].of
        /\ \/ gateAdmits'[j].pc = gateAdmits[j].pc
           \/ gateAdmits[j].pc # "unused" /\ gateAdmits'[j].pc = to
  BY DEF GateTypes
<1>2. AttemptsWrote'
  BY <1>1 DEF AdmitInv, AttemptsWrote, gateTables
<1>3. RowIsApproved'
  BY DEF AdmitInv, RowIsApproved, gateTables
<1>4. gateCurrent.attempt # 0 => gateCurrent.attempt \in 1..GateAdmits
  BY DEF GateTypes
<1>5. FlowWaitsForItsOwn'
  BY <1>1, <1>4 DEF AdmitInv, FlowWaitsForItsOwn, gateFlow, gateTables
<1> QED
  BY <1>2, <1>3, <1>5 DEF AdmitInv

\* An attempt records the decision before it writes the row.
LEMMA RecordingKeepsAdmissions ==
  ASSUME GateTypes, AdmitInv, NEW i \in 1..GateAdmits, RecordApproval(i)
  PROVE  AdmitInv'
<1>1. /\ gateAdmits[i].pc = "started" /\ Admissible(gateAdmits[i].of.document)
      /\ gateAdmits' = [gateAdmits EXCEPT ![i].pc = "recorded"]
      /\ gateDecisions' = gateDecisions \cup {gateAdmits[i].of.decision}
      /\ UNCHANGED <<gateState, gateSubmission, gateCurrent, dispositionRow>>
  BY DEF RecordApproval, AdmissionAt, AdmitKeeps, gateFlow
<1>2. \A j \in 1..GateAdmits :
        /\ gateAdmits'[j].of = gateAdmits[j].of
        /\ j # i => gateAdmits'[j].pc = gateAdmits[j].pc
        /\ j = i => gateAdmits'[j].pc = "recorded"
  BY <1>1 DEF GateTypes
<1>3. AttemptsWrote'
  BY <1>1, <1>2 DEF AdmitInv, AttemptsWrote
<1>4. RowIsApproved'
  BY <1>1 DEF AdmitInv, RowIsApproved
<1>5. gateCurrent.attempt # 0 => gateCurrent.attempt \in 1..GateAdmits
  BY DEF GateTypes
<1>6. FlowWaitsForItsOwn'
  BY <1>1, <1>2, <1>5 DEF AdmitInv, FlowWaitsForItsOwn
<1> QED
  BY <1>3, <1>4, <1>6 DEF AdmitInv

\* The row of a run is written once: a second attempt finds it equal, or is refused.
LEMMA FilingKeepsAdmissions ==
  ASSUME GateTypes, AdmitInv, NEW i \in 1..GateAdmits, RecordDispositions(i)
  PROVE  AdmitInv'
<1>0. /\ gateAdmits[i].pc = "recorded" /\ gateAdmits[i].of \in Approval
      /\ gateAdmits[i].of.decision \in gateDecisions /\ Admissible(gateAdmits[i].of.document)
  BY DEF RecordDispositions, AdmissionAt, AdmitInv, AttemptsWrote
<1>1. CASE /\ dispositionRow \in {Nothing, gateAdmits[i].of}
           /\ AdmissionAt(i, "recorded", "admitted") /\ dispositionRow' = gateAdmits[i].of
  <2>1. /\ gateAdmits' = [gateAdmits EXCEPT ![i].pc = "admitted"]
        /\ UNCHANGED <<gateState, gateSubmission, gateCurrent, gateDecisions>>
    BY <1>1 DEF RecordDispositions, AdmissionAt, AdmitKeeps, gateFlow
  <2>2. \A j \in 1..GateAdmits :
          /\ gateAdmits'[j].of = gateAdmits[j].of
          /\ j # i => gateAdmits'[j].pc = gateAdmits[j].pc
          /\ j = i => gateAdmits'[j].pc = "admitted"
    BY <2>1 DEF GateTypes
  <2>3. Nothing \notin Approval
    BY GateConstants DEF Approval
  <2>4. \A j \in 1..GateAdmits : gateAdmits[j].pc = "admitted" =>
          gateAdmits[j].of = gateAdmits[i].of
    BY <1>0, <1>1, <2>3 DEF AdmitInv, AttemptsWrote
  <2>5. AttemptsWrote'
    <3>1. \A j \in 1..GateAdmits : gateAdmits'[j].pc # "unused" => gateAdmits[j].of \in Approval
      BY <1>0, <2>2 DEF AdmitInv, AttemptsWrote
    <3>2. \A j \in 1..GateAdmits : gateAdmits'[j].pc \in {"recorded", "admitted"} =>
            gateAdmits[j].of.decision \in gateDecisions /\ Admissible(gateAdmits[j].of.document)
      BY <1>0, <2>2 DEF AdmitInv, AttemptsWrote
    <3>3. \A j \in 1..GateAdmits : gateAdmits'[j].pc = "admitted" =>
            dispositionRow' = gateAdmits[j].of
      BY <2>2, <2>4, <1>1
    <3> QED
      BY <2>1, <2>2, <3>1, <3>2, <3>3 DEF AttemptsWrote
  <2>6. RowIsApproved'
    BY <1>0, <1>1, <2>1 DEF RowIsApproved
  <2>7. gateState = "completed" => dispositionRow' = gateSubmission
    BY <1>1, <2>3 DEF AdmitInv, FlowWaitsForItsOwn
  <2>8. gateCurrent.attempt # 0 => gateCurrent.attempt \in 1..GateAdmits
    BY DEF GateTypes
  <2>9. FlowWaitsForItsOwn'
    BY <2>1, <2>2, <2>7, <2>8 DEF AdmitInv, FlowWaitsForItsOwn
  <2> QED
    BY <2>5, <2>6, <2>9 DEF AdmitInv
<1>2. CASE AdmissionAt(i, "recorded", "failed") /\ UNCHANGED dispositionRow
  <2>1. /\ gateAdmits' = [gateAdmits EXCEPT ![i].pc = "failed"]
        /\ UNCHANGED <<gateFlow, gateCurrent, gateTables>>
    BY <1>2 DEF RecordDispositions, AdmissionAt, AdmitKeeps, gateTables
  <2> QED
    BY <1>0, <2>1, AdmitMovesOn
<1> QED
  BY <1>1, <1>2 DEF RecordDispositions

\* An attempt is answered with the row that stands, or is refused.
LEMMA AdmissionKeepsAdmissions ==
  ASSUME GateTypes, AdmitInv, NEW i \in 1..GateAdmits, AdmissionStep(i)
  PROVE  AdmitInv'
<1>1. CASE AdmissionRefuses(i)
  <2>1. /\ gateAdmits[i].pc # "unused"
        /\ gateAdmits' = [gateAdmits EXCEPT ![i].pc = "refused"]
        /\ UNCHANGED <<gateFlow, gateCurrent, gateTables>>
    BY <1>1 DEF AdmissionRefuses, AdmissionAt, AdmitKeeps
  <2> QED
    BY <2>1, AdmitMovesOn
<1>2. CASE AdmissionDies(i)
  <2>1. /\ gateAdmits[i].pc # "unused"
        /\ gateAdmits' = [gateAdmits EXCEPT ![i].pc = "failed"]
        /\ UNCHANGED <<gateFlow, gateCurrent, gateTables>>
    BY <1>2 DEF AdmissionDies, AdmissionAt, AdmitKeeps
  <2> QED
    BY <2>1, AdmitMovesOn
<1> QED
  BY <1>1, <1>2, RecordingKeepsAdmissions, FilingKeepsAdmissions DEF AdmissionStep

\* Any step of an attempt, the current one or an abandoned one.
LEMMA AttemptKeepsAdmissions ==
  ASSUME GateTypes, AdmitInv, NEW i \in 1..GateAdmits, AttemptStep(i)
  PROVE  AdmitInv'
<1>0. gateCurrent.attempt \in Nat /\ i # 0
  BY GateConstants DEF GateTypes
<1>1. CASE StartAdmission(i)
  <2>1. /\ gateState = "admitting" /\ gateAdmits[i] = Unused
        /\ gateAdmits' = [gateAdmits EXCEPT ![i] = [pc |-> "started", of |-> gateSubmission]]
        /\ gateCurrent'.attempt = i
        /\ UNCHANGED <<gateState, gateSubmission, gateDecisions, dispositionRow>>
    BY <1>1 DEF StartAdmission, AdmitKeeps, gateFlow, gateTables
  <2>2. gateSubmission \in Approval
    BY <2>1 DEF AdmitInv, FlowWaitsForItsOwn
  <2>3. \A j \in 1..GateAdmits :
          /\ j # i => gateAdmits'[j] = gateAdmits[j]
          /\ j = i => gateAdmits'[j].pc = "started" /\ gateAdmits'[j].of = gateSubmission
    BY <2>1 DEF GateTypes
  <2>4. AttemptsWrote'
    BY <2>1, <2>2, <2>3 DEF AdmitInv, AttemptsWrote
  <2>5. RowIsApproved'
    BY <2>1 DEF AdmitInv, RowIsApproved
  <2>6. FlowWaitsForItsOwn'
    BY <2>1, <2>2, <2>3 DEF FlowWaitsForItsOwn
  <2> QED
    BY <2>4, <2>5, <2>6 DEF AdmitInv
<1>2. CASE AdmissionAnswers(i)
  <2>1. /\ gateAdmits[i].pc = "admitted" /\ gateAdmits[i].of = gateSubmission
        /\ gateState = "admitting" /\ gateState' = "completed" /\ gateCurrent'.attempt = 0
        /\ UNCHANGED <<gateSubmission, gateAdmits, gateDecisions, dispositionRow>>
    BY <1>2, <1>0 DEF AdmissionAnswers, AdmitInv, FlowWaitsForItsOwn, NoTry, gateTables
  <2>2. dispositionRow = gateSubmission
    BY <2>1 DEF AdmitInv, AttemptsWrote
  <2> QED
    BY <2>1, <2>2 DEF AdmitInv, AttemptsWrote, RowIsApproved, FlowWaitsForItsOwn
<1>3. CASE AdmissionGivenUp(i)
  <2>1. /\ gateCurrent'.attempt = 0
        /\ gateState' \in {"admitting", "failed"} /\ gateState = "admitting"
        /\ UNCHANGED <<gateSubmission, gateAdmits, gateDecisions, dispositionRow>>
    BY <1>3 DEF AdmissionGivenUp, NoTry, gateTables, GateTypes
  <2> QED
    BY <2>1 DEF AdmitInv, AttemptsWrote, RowIsApproved, FlowWaitsForItsOwn
<1> QED
  BY <1>1, <1>2, <1>3 DEF AttemptStep

\* Every step keeps the part about admissions.
LEMMA NextKeepsAdmissions ==
  ASSUME GateTypes, AdmitInv, [GateNext]_gateVars
  PROVE  AdmitInv'
<1>1. CASE SignAnswer \/ SendUpdate \/ ClientDies \/ DiscardJournal
  BY <1>1, FlowKeepsAdmissions DEF SignAnswer, SendUpdate, ClientDies, DiscardJournal
<1>2. CASE \/ \E answer \in Answers : ReadGate(answer)
           \/ \E document \in Rulings : ForeignUpdate(document)
  BY <1>2, FlowKeepsAdmissions DEF ReadGate, ForeignUpdate
<1>3. CASE \E i \in 1..GateAdmits : AdmissionStep(i) \/ AttemptStep(i)
  BY <1>3, AdmissionKeepsAdmissions, AttemptKeepsAdmissions
<1> QED
  BY <1>1, <1>2, <1>3, FlowKeepsAdmissions DEF GateNext

\* The invariant of the gate documents.
LEMMA GateKeepsInv == GateSpec => []GateInv
<1>1. GateInv /\ [GateNext]_gateVars => GateInv'
  BY NextKeepsAnswers, NextKeepsAdmissions DEF GateInv, AnswerInv
<1> QED
  BY GateStarts, <1>1, PTL DEF GateSpec

\* One decision is only ever sent with one document (submission.py), however often
\* the client is killed and run again, with other words, other rulings or no journal.
THEOREM OneAnswerSent == GateSpec => []OneAnswerIsSent
<1>1. GateInv => OneAnswerIsSent
  BY DEF GateInv, AnswerInv
<1> QED
  BY <1>1, GateKeepsInv, PTL

\* When a drive answers "completed", the row of the run is the submission it accepted,
\* approved, admissible and with its decision on record (feature_workflow.py,
\* feature_gate.py), whatever earlier drives and late attempts wrote.
THEOREM CompletedFindable == GateSpec => []CompletedIsFindable
<1>1. GateInv => CompletedIsFindable
  BY DEF GateInv, AdmitInv, RowIsApproved, FlowWaitsForItsOwn, CompletedIsFindable, Approval,
         Admissible, RulesEveryCandidate, ActsOnMeasured, ActsWithConsent
<1> QED
  BY <1>1, GateKeepsInv, PTL

-----------------------------------------------------------------------------
(*****************************************************************************)
(* Rulings: what the build blocks is on record.                              *)
(*****************************************************************************)

\* The endpoints the store says were ruled to be blocked.
OnFile(rows) == {rows[k].candidate : k \in {n \in DOMAIN rows : Blocking(rows[n])}}

RulingTypes ==
    /\ ruled \in Seq(RulingRecord)
    /\ DOMAIN operator = Operators
    /\ \A p \in Operators :
         \/ operator[p] = NoOperator
         \/ /\ operator[p].run \in RuledRuns
            /\ operator[p].pc \in {"planned", "checked", "recorded"}
            /\ operator[p] = [pc |-> operator[p].pc, run |-> operator[p].run,
                              adds |-> operator[p].adds, before |-> operator[p].before]

\* What a process would write is on file, or is still in its plan.
PlansAreOnFile ==
    \A p \in Operators : operator[p].pc # "away" =>
      /\ operator[p].before.declared \ byHand \subseteq OnFile(ruled)
      /\ operator[p].adds \subseteq Blocks(operator[p].run)
      /\ operator[p].pc = "recorded" => operator[p].adds \subseteq OnFile(ruled)

RulingsInv == RulingTypes /\ PlansAreOnFile /\ declared \ byHand \subseteq OnFile(ruled)

\* Lines that are appended leave those before them where they are.
LEMMA FileGrows ==
  ASSUME NEW rows \in Seq(RulingRecord), NEW more \in Seq(RulingRecord)
  PROVE  OnFile(rows) \subseteq OnFile(rows \o more) /\ OnFile(more) \subseteq OnFile(rows \o more)
<1> DEFINE both == rows \o more
<1>1. /\ Len(rows) \in Nat /\ Len(more) \in Nat
      /\ DOMAIN rows = 1..Len(rows) /\ DOMAIN more = 1..Len(more)
      /\ DOMAIN both = 1..(Len(rows) + Len(more))
      /\ \A k \in 1..Len(rows) : both[k] = rows[k]
      /\ \A k \in 1..Len(more) : both[Len(rows) + k] = more[k]
  OBVIOUS
<1> HIDE DEF both
<1>2. OnFile(rows) \subseteq OnFile(both)
  <2>1. \A k \in DOMAIN rows : k \in DOMAIN both /\ both[k] = rows[k]
    BY <1>1
  <2> QED
    BY <2>1, Zenon DEF OnFile
<1>3. OnFile(more) \subseteq OnFile(both)
  <2>1. \A k \in DOMAIN more : \E j \in DOMAIN both : both[j] = more[k]
    <3> TAKE k \in DOMAIN more
    <3>1. Len(rows) + k \in DOMAIN both /\ both[Len(rows) + k] = more[k]
      BY <1>1
    <3> QED
      BY <3>1
  <2> SUFFICES ASSUME NEW e \in OnFile(more) PROVE e \in OnFile(both)
    OBVIOUS
  <2>2. PICK k \in DOMAIN more : Blocking(more[k]) /\ e = more[k].candidate
    BY DEF OnFile
  <2>3. PICK j \in DOMAIN both : both[j] = more[k]
    BY <2>1
  <2> QED
    BY <2>2, <2>3 DEF OnFile
<1> QED
  BY <1>2, <1>3 DEF both

\* A policy is a list of rulings.
LEMMA RulesAreRecords == \A r \in RuledRuns : RulesOf[r] \in Seq(RulingRecord)
  BY RulingAssumption DEF RulingAssumption

\* No run has been ruled on at the start.
LEMMA RulingsStart == RulingsInit => RulingsInv
  BY DEF RulingsInit, RulingsInv, RulingTypes, PlansAreOnFile, NoOperator

\* A step of a process that touches neither file: it stops, or moves on with what it has.
LEMMA WalkKeepsRulings ==
  ASSUME RulingsInv, NEW p \in Operators, NEW from, NEW to,
         operator[p].pc # "away", Walk(p, from, to),
         to \in {"away", "checked", "recorded"},
         RulingTypes' , OnFile(ruled) \subseteq OnFile(ruled'),
         UNCHANGED byHand,
         declared' \ byHand \subseteq OnFile(ruled'),
         to = "recorded" => operator[p].adds \subseteq OnFile(ruled')
  PROVE  RulingsInv'
<1>1. \A q \in Operators : q # p => operator'[q] = operator[q]
  BY DEF Walk, RulingsInv, RulingTypes
<1>2. operator'[p].pc # "away" =>
        /\ operator'[p].pc = to /\ operator'[p].run = operator[p].run
        /\ operator'[p].adds = operator[p].adds /\ operator'[p].before = operator[p].before
  BY DEF Walk, RulingsInv, RulingTypes, NoOperator
<1>3. PlansAreOnFile'
  <2> SUFFICES ASSUME NEW q \in Operators, operator'[q].pc # "away"
               PROVE  /\ operator'[q].before.declared \ byHand \subseteq OnFile(ruled')
                      /\ operator'[q].adds \subseteq Blocks(operator'[q].run)
                      /\ operator'[q].pc = "recorded" => operator'[q].adds \subseteq OnFile(ruled')
    BY DEF PlansAreOnFile, Blocks
  <2>1. CASE q = p
    BY <2>1, <1>2 DEF RulingsInv, PlansAreOnFile
  <2>2. CASE q # p
    BY <2>2, <1>1 DEF RulingsInv, PlansAreOnFile
  <2> QED
    BY <2>1, <2>2
<1> QED
  BY <1>3 DEF RulingsInv

\* An operator that moves on leaves the others where they are.
LEMMA WalkKeepsTypes ==
  ASSUME RulingTypes, NEW p \in Operators, NEW from, NEW to,
         operator[p].pc # "away", Walk(p, from, to),
         to \in {"away", "checked", "recorded"}, ruled' \in Seq(RulingRecord)
  PROVE  RulingTypes'
<1>1. operator[p] # NoOperator
  BY DEF NoOperator
<1>2. \A q \in Operators : q # p => operator'[q] = operator[q]
  BY DEF Walk, RulingTypes
<1>3. \/ operator'[p] = NoOperator
      \/ operator'[p] = [operator[p] EXCEPT !.pc = to] /\ to # "away"
  BY DEF Walk, RulingTypes
<1>4. DOMAIN operator' = Operators
  BY DEF Walk, RulingTypes
<1> QED
  BY <1>1, <1>2, <1>3, <1>4 DEF RulingTypes

\* A blocking ruling is appended before the manifest is written, and never taken back.
LEMMA RulingsStep == RulingsInv /\ [RulingsNext]_rulingVars => RulingsInv'
<1> SUFFICES ASSUME RulingsInv, [RulingsNext]_rulingVars PROVE RulingsInv'
  OBVIOUS
<1> USE DEF manifestVars, storeVars
<1>1. ASSUME NEW p \in Operators, NEW run \in RuledRuns, Plan(p, run)
      PROVE  RulingsInv'
  <2>1. /\ operator' = [operator EXCEPT ![p] = [pc |-> "planned", run |-> run,
                          before |-> WholeManifest, adds |-> Additions(run)]]
        /\ UNCHANGED <<declared, byHand, ruled>>
    BY <1>1 DEF Plan
  <2>2. WholeManifest.declared = declared /\ Additions(run) \subseteq Blocks(run)
    BY DEF WholeManifest, Additions
  <2>3. RulingTypes'
    BY <2>1 DEF RulingsInv, RulingTypes
  <2>4. PlansAreOnFile'
    <3> SUFFICES ASSUME NEW q \in Operators, operator'[q].pc # "away"
                 PROVE  /\ operator'[q].before.declared \ byHand \subseteq OnFile(ruled)
                        /\ operator'[q].adds \subseteq Blocks(operator'[q].run)
                        /\ operator'[q].pc = "recorded" => operator'[q].adds \subseteq OnFile(ruled)
      BY <2>1 DEF PlansAreOnFile, Blocks
    <3>1. CASE q = p
      BY <3>1, <2>1, <2>2 DEF RulingsInv, RulingTypes
    <3>2. CASE q # p
      BY <3>2, <2>1 DEF RulingsInv, PlansAreOnFile, RulingTypes
    <3> QED
      BY <3>1, <3>2
  <2> QED
    BY <2>1, <2>3, <2>4 DEF RulingsInv
<1>2. ASSUME NEW p \in Operators, CheckStale(p)
      PROVE  RulingsInv'
  <2>1. UNCHANGED <<declared, byHand, ruled>> /\ operator[p].pc = "planned"
    BY <1>2 DEF CheckStale, Walk
  <2>2. PICK to \in {"checked", "away"} : Walk(p, "planned", to)
    BY <1>2 DEF CheckStale
  <2>3. RulingTypes'
    BY <2>1, <2>2, WalkKeepsTypes DEF RulingsInv, RulingTypes
  <2> QED
    BY <2>1, <2>2, <2>3, WalkKeepsRulings DEF RulingsInv
<1>3. ASSUME NEW p \in Operators, AppendRulings(p)
      PROVE  RulingsInv'
  <2>1. /\ UNCHANGED <<declared, byHand>> /\ operator[p].pc = "checked"
        /\ ruled' = ruled \o RulesOf[operator[p].run]
    BY <1>3 DEF AppendRulings, WriteLines
  <2>2. operator[p].run \in RuledRuns /\ RulesOf[operator[p].run] \in Seq(RulingRecord)
    BY <2>1, RulesAreRecords DEF RulingsInv, RulingTypes, NoOperator
  <2>3. PICK to \in {"recorded", "away"} : Walk(p, "checked", to)
    BY <1>3 DEF AppendRulings
  <2>4. /\ OnFile(ruled) \subseteq OnFile(ruled')
        /\ OnFile(RulesOf[operator[p].run]) \subseteq OnFile(ruled')
        /\ ruled' \in Seq(RulingRecord)
    BY <2>1, <2>2, FileGrows DEF RulingsInv, RulingTypes
  <2>5. RulingTypes'
    BY <2>1, <2>3, <2>4, WalkKeepsTypes DEF RulingsInv
  <2>6. operator[p].adds \subseteq OnFile(ruled')
    BY <2>1, <2>4 DEF RulingsInv, PlansAreOnFile, Blocks, OnFile
  <2>7. declared' \ byHand \subseteq OnFile(ruled')
    BY <2>1, <2>4 DEF RulingsInv
  <2> QED
    BY <2>1, <2>3, <2>4, <2>5, <2>6, <2>7, WalkKeepsRulings
<1>4. ASSUME NEW p \in Operators, AppendCut(p)
      PROVE  RulingsInv'
  <2>1. UNCHANGED <<declared, byHand>> /\ operator[p].pc = "checked" /\ Walk(p, "checked", "away")
    BY <1>4 DEF AppendCut
  <2>2. operator[p].run \in RuledRuns /\ RulesOf[operator[p].run] \in Seq(RulingRecord)
    BY <2>1, RulesAreRecords DEF RulingsInv, RulingTypes, NoOperator
  <2>3. PICK n \in 0..(Len(RulesOf[operator[p].run]) - 1) :
            ruled' = ruled \o SubSeq(RulesOf[operator[p].run], 1, n)
    BY <1>4 DEF AppendCut, WriteLines
  <2>4. SubSeq(RulesOf[operator[p].run], 1, n) \in Seq(RulingRecord)
    BY <2>2, <2>3
  <2> DEFINE some == SubSeq(RulesOf[operator[p].run], 1, n)
  <2>4a. some \in Seq(RulingRecord) /\ ruled' = ruled \o some
    BY <2>3, <2>4
  <2> HIDE DEF some
  <2>4b. ruled \in Seq(RulingRecord)
    BY DEF RulingsInv, RulingTypes
  <2>5. OnFile(ruled) \subseteq OnFile(ruled') /\ ruled' \in Seq(RulingRecord)
    BY <2>4a, <2>4b, FileGrows
  <2>6. RulingTypes'
    BY <2>1, <2>5, WalkKeepsTypes DEF RulingsInv
  <2>7. declared' \ byHand \subseteq OnFile(ruled')
    BY <2>1, <2>5 DEF RulingsInv
  <2> QED
    BY <2>1, <2>5, <2>6, <2>7, WalkKeepsRulings
<1>5. ASSUME NEW p \in Operators, WriteManifest(p)
      PROVE  RulingsInv'
  <2>1. /\ UNCHANGED <<ruled, byHand>> /\ operator[p].pc = "recorded" /\ Walk(p, "recorded", "away")
        /\ declared' = operator[p].before.declared \cup operator[p].adds
    BY <1>5 DEF WriteManifest, Walk
  <2>2. RulingTypes'
    BY <2>1, WalkKeepsTypes DEF RulingsInv, RulingTypes
  <2>3. declared' \ byHand \subseteq OnFile(ruled')
    BY <2>1 DEF RulingsInv, PlansAreOnFile
  <2> QED
    BY <2>1, <2>2, <2>3, WalkKeepsRulings
<1>6. ASSUME NEW p \in Operators, ApplyStops(p)
      PROVE  RulingsInv'
  <2>1. PICK from \in {"planned", "recorded"} : Walk(p, from, "away")
    BY <1>6 DEF ApplyStops
  <2>2. UNCHANGED <<declared, ruled, byHand>> /\ operator[p].pc # "away"
    BY <1>6, <2>1 DEF ApplyStops, Walk
  <2>3. RulingTypes'
    BY <2>1, <2>2, WalkKeepsTypes DEF RulingsInv, RulingTypes
  <2> QED
    BY <2>1, <2>2, <2>3, WalkKeepsRulings DEF RulingsInv
<1>7. ASSUME NEW e \in Endpoints, DeclareByHand(e)
      PROVE  RulingsInv'
  BY <1>7 DEF DeclareByHand, RulingsInv, RulingTypes, PlansAreOnFile, Blocks
<1>8. CASE UNCHANGED rulingVars
  BY <1>8 DEF rulingVars, RulingsInv, RulingTypes, PlansAreOnFile, Blocks
<1> QED
  BY <1>1, <1>2, <1>3, <1>4, <1>5, <1>6, <1>7, <1>8 DEF RulingsNext

\* Only an append that was cut leaves half a line, and only behind half a line is a ruling
\* appended that nobody can read.
CutBeforeGlued == ~cut => ~torn /\ glued = {}

LEMMA GluedAfterCut == CutBeforeGlued /\ [RulingsNext]_rulingVars => CutBeforeGlued'
<1> SUFFICES ASSUME CutBeforeGlued, [RulingsNext]_rulingVars PROVE CutBeforeGlued'
  OBVIOUS
<1> USE DEF storeVars
<1>1. ASSUME NEW p \in Operators,
             \/ \E run \in RuledRuns : Plan(p, run)
             \/ CheckStale(p) \/ WriteManifest(p) \/ ApplyStops(p)
      PROVE  CutBeforeGlued'
  BY <1>1, Zenon DEF Plan, CheckStale, WriteManifest, ApplyStops, CutBeforeGlued
<1>2. ASSUME NEW p \in Operators, AppendRulings(p)
      PROVE  CutBeforeGlued'
  BY <1>2 DEF AppendRulings, WriteLines, CutBeforeGlued
<1>3. ASSUME NEW p \in Operators, AppendCut(p)
      PROVE  CutBeforeGlued'
  BY <1>3 DEF AppendCut, CutBeforeGlued
<1>4. ASSUME NEW e \in Endpoints, DeclareByHand(e)
      PROVE  CutBeforeGlued'
  BY <1>4 DEF DeclareByHand, CutBeforeGlued
<1>5. CASE UNCHANGED rulingVars
  BY <1>5 DEF rulingVars, CutBeforeGlued
<1> QED
  BY <1>1, <1>2, <1>3, <1>4, <1>5 DEF RulingsNext

\* What the manifest declares blocked and no person wrote there has a blocking line in the
\* store of rulings (rulings.py), with any number of operators at work, killed half-way; a
\* line that can be read back, as long as no append was killed half-way.
THEOREM BlockedOnRecord == RulingsSpec => []BlockedIsOnRecord
<1>1. RulingsInv /\ CutBeforeGlued => BlockedIsOnRecord
  BY DEF RulingsInv, CutBeforeGlued, BlockedIsOnRecord, BlockingLines, OnFile
<1>2. RulingsInit => CutBeforeGlued
  BY DEF RulingsInit, CutBeforeGlued
<1> QED
  BY <1>1, <1>2, RulingsStart, RulingsStep, GluedAfterCut, PTL DEF RulingsSpec

-----------------------------------------------------------------------------
(*****************************************************************************)
(* PortMemory: a report recorded again changes no offer.                     *)
(*****************************************************************************)

\* Every line that a stage can write.
MemoryLines ==
    {SeedMemory[i] : i \in DOMAIN SeedMemory}
    \cup UNION {{Lessons(r)[i] : i \in DOMAIN Lessons(r)} : r \in Reports}

SeedIsLines == /\ SeedMemory \in Seq(MemoryLines)
               /\ \A r \in Reports : Lessons(r) \in Seq(MemoryLines)
LinesAnswer == \A m \in MemoryLines : m.kind = "resolution" => AnswerFields \subseteq DOMAIN m

\* The lessons of a report are a sequence: its hooks are finitely many.
LEMMA LessonsAreListed ==
  ASSUME NEW r \in Reports
  PROVE  \E n \in Nat : DOMAIN Lessons(r) = 1..n /\ Lessons(r) = [i \in 1..n |-> Lessons(r)[i]]
<1>0. r.order \in Seq({r.order[i] : i \in DOMAIN r.order})
  BY MemoryAssumption DEF MemoryAssumption
<1> DEFINE n == Len(r.order)
<1>n. DOMAIN r.order = 1..n /\ 1 \in Int /\ n \in Int
  BY <1>0
<1> HIDE DEF n
<1>1. IsFiniteSet(DOMAIN r.order)
  <2>1. IsFiniteSet(1..n)
    BY <1>n, FS_Interval
  <2> QED
    BY <1>n, <2>1
<1>2. IsFiniteSet(ResolvedAt(r))
  BY <1>1, FS_Subset DEF ResolvedAt
<1>3. Cardinality(ResolvedAt(r)) \in Nat
  BY <1>2, FS_CardinalityType
<1>4. DOMAIN Resolved(r) = 1..Cardinality(ResolvedAt(r))
  BY DEF Resolved
<1> QED
  BY <1>3, <1>4 DEF Lessons

\* The lines memory is seeded with are lines.
LEMMA LinesAreListed == SeedIsLines
<1>1. SeedMemory \in Seq(MemoryLines)
  BY MemoryAssumption DEF MemoryAssumption, MemoryLines
<1>2. ASSUME NEW r \in Reports PROVE Lessons(r) \in Seq(MemoryLines)
  <2>1. PICK n \in Nat : DOMAIN Lessons(r) = 1..n /\ Lessons(r) = [i \in 1..n |-> Lessons(r)[i]]
    BY LessonsAreListed
  <2>2. \A i \in 1..n : Lessons(r)[i] \in MemoryLines
    BY <2>1 DEF MemoryLines
  <2> QED
    BY <2>1, <2>2
<1> QED
  BY <1>1, <1>2 DEF SeedIsLines

\* A resolution line has every field a reuse copies.
LEMMA LinesHaveAnswers == LinesAnswer
<1>1. ASSUME NEW i \in DOMAIN SeedMemory, SeedMemory[i].kind = "resolution"
      PROVE  AnswerFields \subseteq DOMAIN SeedMemory[i]
  BY <1>1, MemoryAssumption DEF MemoryAssumption
<1>2. ASSUME NEW r \in Reports, NEW i \in DOMAIN Lessons(r)
      PROVE  AnswerFields \subseteq DOMAIN Lessons(r)[i]
  <2>1. Lessons(r)[i] = Resolution(r, Resolved(r)[i])
    BY DEF Lessons
  <2> QED
    BY <2>1 DEF Resolution, AnswerFields
<1> QED
  BY <1>1, <1>2 DEF MemoryLines, LinesAnswer

\* What a writer has still to write to decision memory is lines.
MemoryInv ==
    /\ memory \in Seq(MemoryLines)
    /\ DOMAIN stage = Writers
    /\ \A w \in Writers :
         \/ stage[w] = Off
         \/ /\ stage[w] = [pc |-> stage[w].pc, report |-> stage[w].report, todo |-> stage[w].todo]
            /\ stage[w].pc \in {"memory", "costs"} /\ stage[w].report \in Reports
            /\ stage[w].pc = "memory" => stage[w].todo \in Seq(MemoryLines)

\* Memory starts with nothing written and no writer at work.
LEMMA MemoryStarts == MemoryInit => MemoryInv
BY DEF MemoryInit, MemoryInv

\* A stage opens a file with the lines it has for it.
LEMMA OpeningKeeps ==
  ASSUME MemoryInv, NEW w \in Writers, NEW file \in {"memory", "costs"}, NEW r \in Reports,
         Opens(w, file, r), UNCHANGED memory
  PROVE  MemoryInv'
<1>1. file = "memory" => LinesFor(file, r) \in Seq(MemoryLines)
  <2>1. SeedMemory \in Seq(MemoryLines) /\ Lessons(r) \in Seq(MemoryLines)
    BY LinesAreListed DEF SeedIsLines
  <2> QED
    BY <2>1 DEF LinesFor
<1> DEFINE lines == LinesFor(file, r)
<1>2. stage' = [stage EXCEPT ![w] = Off]
      \/ stage' = [stage EXCEPT ![w] = [pc |-> file, report |-> r, todo |-> lines]]
  BY DEF Opens
<1> HIDE DEF lines
<1>3. file = "memory" => lines \in Seq(MemoryLines)
  BY <1>1 DEF lines
<1> QED
  BY <1>2, <1>3 DEF MemoryInv

\* A writer that drops a line from what it has left changes nothing else.
LEMMA OneLess ==
  ASSUME NEW file, NEW r, NEW left, NEW rest
  PROVE  [[pc |-> file, report |-> r, todo |-> left] EXCEPT !.todo = rest]
           = [pc |-> file, report |-> r, todo |-> rest]
OBVIOUS

\* A line is written: one less is left to write.
LEMMA LineWritten ==
  ASSUME MemoryInv, NEW w \in Writers, NEW file \in {"memory", "costs"}, Writes(w, file)
  PROVE  /\ stage[w].pc = file /\ stage[w].todo # <<>> /\ stage[w].report \in Reports
         /\ file = "memory" => stage[w].todo \in Seq(MemoryLines)
         /\ stage' = [stage EXCEPT ![w] = [pc |-> file, report |-> stage[w].report,
                                           todo |-> Tail(stage[w].todo)]]
<1>1. /\ stage[w].pc = file /\ stage[w].todo # <<>>
      /\ stage' = [stage EXCEPT ![w].todo = Tail(stage[w].todo)]
  BY DEF Writes
<1>2. PICK told, left : stage[w] = [pc |-> file, report |-> told, todo |-> left]
  BY <1>1 DEF MemoryInv, Off
<1>3. stage[w].todo = left /\ stage[w].report = told
  BY <1>2
<1>4. PICK rest : rest = Tail(left)
  OBVIOUS
<1>5. stage' = [stage EXCEPT ![w].todo = rest]
  BY <1>1, <1>3, <1>4
<1>6. stage' = [stage EXCEPT ![w] = [stage[w] EXCEPT !.todo = rest]]
  BY <1>5
<1>7. [stage[w] EXCEPT !.todo = rest] = [pc |-> file, report |-> told, todo |-> rest]
  BY <1>2, OneLess, SMT
<1>8. stage' = [stage EXCEPT ![w] = [pc |-> file, report |-> told, todo |-> rest]]
  BY <1>6, <1>7, Zenon
<1>9. told \in Reports /\ (file = "memory" => left \in Seq(MemoryLines))
  BY <1>1, <1>3 DEF MemoryInv, Off
<1> QED
  BY <1>1, <1>3, <1>4, <1>8, <1>9

\* Every step of a writer, or its death, keeps the invariant of memory.
LEMMA MemoryKeepsInv == MemoryInv /\ [MemoryNext]_memoryVars => MemoryInv'
<1> SUFFICES ASSUME MemoryInv, [MemoryNext]_memoryVars PROVE MemoryInv'
  OBVIOUS
<1>1. ASSUME NEW w \in Writers, NEW r \in Reports, RunStage(w, r) PROVE MemoryInv'
  BY <1>1, OpeningKeeps DEF RunStage, FirstFile
<1>2. ASSUME NEW w \in Writers, WriteLesson(w) PROVE MemoryInv'
  <2>1. Writes(w, "memory") /\ memory' = Append(memory, Head(stage[w].todo))
    BY <1>2 DEF WriteLesson
  <2>2. /\ stage[w].todo # <<>> /\ stage[w].report \in Reports
        /\ stage[w].todo \in Seq(MemoryLines)
        /\ stage' = [stage EXCEPT ![w] = [pc |-> "memory", report |-> stage[w].report,
                                          todo |-> Tail(stage[w].todo)]]
    BY <2>1, LineWritten
  <2>3. Head(stage[w].todo) \in MemoryLines /\ Tail(stage[w].todo) \in Seq(MemoryLines)
    BY <2>2
  <2>4. memory' \in Seq(MemoryLines)
    BY <2>1, <2>3 DEF MemoryInv
  <2> QED
    BY <2>2, <2>3, <2>4 DEF MemoryInv
<1>3. ASSUME NEW w \in Writers, WriteCost(w) PROVE MemoryInv'
  <2>1. Writes(w, "costs") /\ memory' = memory
    BY <1>3 DEF WriteCost
  <2>2. /\ stage[w].report \in Reports
        /\ stage' = [stage EXCEPT ![w] = [pc |-> "costs", report |-> stage[w].report,
                                          todo |-> Tail(stage[w].todo)]]
    BY <2>1, LineWritten
  <2> QED
    BY <2>1, <2>2 DEF MemoryInv
<1>4. ASSUME NEW w \in Writers, NextFile(w) PROVE MemoryInv'
  <2>1. stage[w].report \in Reports
    BY <1>4 DEF NextFile, MemoryInv, Off
  <2>2. CASE Opens(w, Other(FirstFile), stage[w].report)
    BY <1>4, <2>1, <2>2, OpeningKeeps DEF NextFile, Other, FirstFile
  <2>3. CASE stage' = [stage EXCEPT ![w] = Off]
    BY <1>4, <2>3 DEF NextFile, MemoryInv
  <2> QED
    BY <1>4, <2>2, <2>3 DEF NextFile
<1>5. ASSUME NEW w \in Writers, WriterDies(w) PROVE MemoryInv'
  BY <1>5 DEF WriterDies, MemoryInv
<1>6. CASE UNCHANGED memoryVars
  BY <1>6 DEF memoryVars, MemoryInv
<1> QED
  BY <1>1, <1>2, <1>3, <1>4, <1>5, <1>6 DEF MemoryNext

\* Two lines that differ in their stamp at most say the same.
LEMMA TaughtAgree ==
  ASSUME NEW m \in MemoryLines, NEW n \in MemoryLines, Taught(m) = Taught(n),
         m.kind = "resolution"
  PROVE  /\ m.hook = n.hook /\ m.version = n.version /\ m.host = n.host /\ m.path = n.path
         /\ m.compatibility = n.compatibility
<1>1. AnswerFields \subseteq DOMAIN m
  BY LinesHaveAnswers DEF LinesAnswer
<1>2. DOMAIN Taught(m) = DOMAIN m /\ DOMAIN Taught(n) = DOMAIN n
  BY DEF Taught
<1>3. \A f \in AnswerFields : Taught(m)[f] = m[f] /\ Taught(n)[f] = n[f]
  BY <1>1, <1>2 DEF Taught, AnswerFields
<1>4. \A f \in AnswerFields : m[f] = n[f]
  BY <1>3
<1> QED
  BY <1>4 DEF AnswerFields

\* What the repeat of a recorded line leaves as it was, and what it may give.
Unmoved(m, h, c) ==
    /\ Offers(h, c)' = Offers(h, c)
    /\ \/ Hint(h, c)' = Hint(h, c)
       \/ /\ m.hook = h /\ Hint(h, c)' = {Offer(m)}
          /\ \A given \in Hint(h, c) : given[1] # m.version

\* A line that is already there in all but its stamp adds no answer, no miss and no
\* conflict: the lines on offer stay, and the new one joins them if its twin is one.
LEMMA RepeatIsOffered ==
  ASSUME MemoryInv, NEW m \in MemoryLines, memory' = Append(memory, m),
         m.kind = "resolution",
         NEW k \in DOMAIN memory, memory[k].kind = "resolution", Taught(m) = Taught(memory[k]),
         NEW h, NEW c
  PROVE  Offered(h, c)' = Offered(h, c)
                            \cup {i \in {Len(memory) + 1} : m.hook = h /\ k \in Offered(h, c)}
<1> DEFINE old == {memory[i] : i \in DOMAIN memory}
           new == {memory'[i] : i \in DOMAIN memory'}
           told == memory[k]
           lines(S, kind, v) == {n \in S : n.kind = kind /\ n.hook = h /\ n.version = v}
           disagree(S, v) == \E a, b \in lines(S, "resolution", v) : Answer(a) # Answer(b)
           good(S, n) == /\ n.kind = "resolution" /\ n.hook = h /\ Reusable(n, c)
                         /\ lines(S, "miss", n.version) = {} /\ ~disagree(S, n.version)
           last == Len(memory) + 1
<1>1. memory \in Seq(MemoryLines)
  BY DEF MemoryInv
<1>2. /\ DOMAIN memory' = DOMAIN memory \cup {last} /\ memory'[last] = m
      /\ last \notin DOMAIN memory /\ \A i \in DOMAIN memory : memory'[i] = memory[i]
  BY <1>1
<1>3. told \in old /\ told \in MemoryLines /\ told.kind = "resolution"
  BY <1>1
<1>4. /\ m.hook = told.hook /\ m.version = told.version /\ m.host = told.host
      /\ m.path = told.path /\ m.compatibility = told.compatibility
  BY <1>3, TaughtAgree
<1>5. Offered(h, c) = {i \in DOMAIN memory : good(old, memory[i])}
  BY DEF Offered, Lines, Conflicting
<1>6. Offered(h, c)' = {i \in DOMAIN memory' : good(new, memory'[i])}
  BY DEF Offered, Lines, Conflicting
<1>7. new = old \cup {m}
  BY <1>2
<1> HIDE DEF old, new, told, last
<1>8. \A v : lines(new, "miss", v) = lines(old, "miss", v)
  BY <1>7
<1>9. \A v : disagree(new, v) <=> disagree(old, v)
  BY <1>3, <1>4, <1>7 DEF Answer
<1>10. Reusable(m, c) <=> Reusable(told, c)
  BY <1>4 DEF Reusable
<1> HIDE DEF lines, disagree
<1>11. \A n : good(new, n) <=> good(old, n)
  BY <1>8, <1>9
<1>12. good(old, m) <=> good(old, told)
  BY <1>3, <1>4, <1>10
<1>13. good(old, m) => m.hook = h
  OBVIOUS
<1> HIDE DEF good
<1>14. Offered(h, c)' = {i \in DOMAIN memory : good(old, memory[i])}
                          \cup {i \in {last} : good(old, m)}
  BY <1>2, <1>6, <1>11
<1>15. good(old, m) <=> m.hook = h /\ k \in Offered(h, c)
  BY <1>5, <1>12, <1>13 DEF told
<1> QED
  BY <1>5, <1>14, <1>15 DEF last

\* Lines on offer for one hook and version say the same.
LEMMA OneOfferAVersion ==
  ASSUME NEW h, NEW c, NEW i \in Offered(h, c), NEW j \in Offered(h, c),
         memory[i].version = memory[j].version
  PROVE  Offer(memory[i]) = Offer(memory[j])
<1>1. Answer(memory[i]) = Answer(memory[j])
  BY DEF Offered, Conflicting, Lines
<1> QED
  BY <1>1 DEF Answer, Offer

\* So the repeat of a line puts nothing new on offer, and moves the hint to no other
\* answer of the same version.
LEMMA RepeatKeepsOffers ==
  ASSUME MemoryInv, NEW m \in MemoryLines, memory' = Append(memory, m),
         m.kind = "resolution",
         NEW k \in DOMAIN memory, memory[k].kind = "resolution", Taught(m) = Taught(memory[k]),
         NEW h, NEW c
  PROVE  Unmoved(m, h, c)
<1> DEFINE O == Offered(h, c)
           last == Len(memory) + 1
           Tops(S) == {i \in S : \A j \in S : j <= i}
<1>1. Offered(h, c)' = O \cup {i \in {last} : m.hook = h /\ k \in O}
  BY RepeatIsOffered
<1>2. /\ memory \in Seq(MemoryLines) /\ memory'[last] = m
      /\ O \subseteq DOMAIN memory /\ \A i \in DOMAIN memory : memory'[i] = memory[i]
  BY DEF MemoryInv, Offered
<1>3. Len(memory) \in Nat /\ O \subseteq 1..Len(memory)
  BY <1>2
<1>4. /\ m.hook = memory[k].hook /\ m.version = memory[k].version
      /\ Offer(m) = Offer(memory[k])
  BY <1>2, TaughtAgree DEF Offer
<1>5. /\ Offers(h, c)' = {Offer(memory'[i]) : i \in Offered(h, c)'}
      /\ Hint(h, c)' = {Offer(memory'[i]) : i \in Tops(Offered(h, c)')}
      /\ Offers(h, c) = {Offer(memory[i]) : i \in O} /\ Hint(h, c) = {Offer(memory[i]) : i \in Tops(O)}
  BY DEF Offers, Hint, Offer
<1> HIDE DEF O
<1>6. CASE ~(m.hook = h /\ k \in O)
  <2>1. Offered(h, c)' = O
    BY <1>1, <1>6
  <2>2. Offers(h, c)' = Offers(h, c) /\ Hint(h, c)' = Hint(h, c)
    BY <1>2, <1>5, <2>1
  <2> QED
    BY <2>2 DEF Unmoved
<1>7. CASE m.hook = h /\ k \in O
  <2>1. Offered(h, c)' = O \cup {last}
    BY <1>1, <1>7
  <2>2. \A i \in O : i < last /\ ~(last <= i)
    BY <1>3
  <2>3. last <= last
    BY <1>3
  <2>4. Tops(O \cup {last}) = {last}
    <3>1. ASSUME NEW i \in O PROVE i \notin Tops(O \cup {last})
      BY <2>2
    <3>2. last \in Tops(O \cup {last})
      BY <2>2, <2>3, <1>3
    <3> QED
      BY <3>1, <3>2
  <2>5. Hint(h, c)' = {Offer(m)}
    <3>1. Tops(Offered(h, c)') = {last}
      BY <2>1, <2>4
    <3>2. Hint(h, c)' = {Offer(memory'[i]) : i \in {last}}
      BY <1>5, <3>1
    <3> QED
      BY <1>2, <3>2
  <2>6. Offers(h, c)' = Offers(h, c)
    <3>1. Offers(h, c)' = {Offer(memory'[i]) : i \in O \cup {last}}
      BY <1>5, <2>1
    <3>2. \A i \in O : memory'[i] = memory[i]
      BY <1>2
    <3>3. \A x : x \in Offers(h, c)' <=> (\E i \in O : x = Offer(memory[i])) \/ x = Offer(m)
      BY <1>2, <3>1, <3>2
    <3>4. \A x : x \in Offers(h, c) <=> \E i \in O : x = Offer(memory[i])
      BY <1>5
    <3>5. \E i \in O : Offer(m) = Offer(memory[i])
      BY <1>4, <1>7
    <3>6. \A x : x \in Offers(h, c)' <=> x \in Offers(h, c)
      BY <3>3, <3>4, <3>5
    <3> QED
      BY <1>5, <3>6
  <2>7. ASSUME NEW given \in Hint(h, c), given[1] = m.version
        PROVE  Hint(h, c) = {Offer(m)}
    <3>1. PICK i \in Tops(O) : given = Offer(memory[i])
      BY <1>5
    <3>2. \A j \in Tops(O) : j = i
      BY <3>1, <1>3
    <3>3. Hint(h, c) = {Offer(memory[i])}
      BY <1>5, <3>1, <3>2
    <3>4. memory[i].version = memory[k].version
      BY <1>4, <2>7, <3>1 DEF Offer
    <3>5. Offer(memory[i]) = Offer(memory[k])
      BY <1>7, <3>1, <3>4, OneOfferAVersion DEF O
    <3> QED
      BY <1>4, <3>3, <3>5
  <2> QED
    BY <1>7, <2>5, <2>6, <2>7 DEF Unmoved
<1> QED
  BY <1>6, <1>7

\* Running the recording stage again, on the same report or on one that found the same,
\* after a crash or besides another process, puts nothing on offer to later runs and takes
\* nothing off, and moves the hint only to another version's answer (decisions.py).
THEOREM ReplaysKeepOffers == MemorySpec => ReplayKeepsOffers
<1> DEFINE Repeat ==
      \A w \in Writers :
          LET told == Head(stage[w].todo) IN
          (/\ WriteLesson(w) /\ told.kind = "resolution"
           /\ Taught(told) \in {Taught(memory[i]) : i \in
                {j \in DOMAIN memory : memory[j].kind = "resolution"}})
          => \A h \in MemoryHooks, c \in Contexts :
               /\ Offers(h, c)' = Offers(h, c)
               /\ \/ Hint(h, c)' = Hint(h, c)
                  \/ /\ told.hook = h /\ Hint(h, c)' = {Offer(told)}
                     /\ \A given \in Hint(h, c) : given[1] # told.version
<1>1. MemoryInv => Repeat
  <2>1. ASSUME MemoryInv, NEW w \in Writers, WriteLesson(w),
               Head(stage[w].todo).kind = "resolution",
               NEW k \in DOMAIN memory, memory[k].kind = "resolution",
               Taught(Head(stage[w].todo)) = Taught(memory[k]),
               NEW h \in MemoryHooks, NEW c \in Contexts
        PROVE  Unmoved(Head(stage[w].todo), h, c)
    <3>1. /\ stage[w].pc = "memory" /\ stage[w].todo # <<>>
          /\ memory' = Append(memory, Head(stage[w].todo))
      BY <2>1 DEF WriteLesson, Writes
    <3>2. stage[w].todo \in Seq(MemoryLines)
      BY <2>1, <3>1 DEF MemoryInv, Off
    <3>3. Head(stage[w].todo) \in MemoryLines
      BY <3>1, <3>2
    <3> QED
      BY <2>1, <3>1, <3>3, RepeatKeepsOffers
  <2> QED
    BY <2>1 DEF Unmoved
<1> HIDE DEF Repeat
<1>2. MemorySpec => [][Repeat]_memoryVars
  BY <1>1, MemoryStarts, MemoryKeepsInv, PTL DEF MemorySpec
<1> QED
  BY <1>2 DEF Repeat, ReplayKeepsOffers

-----------------------------------------------------------------------------
(*****************************************************************************)
(* PortRun: a gated build carries every hook.                                *)
(*****************************************************************************)

\* The stages until a run leaves the gate.
UntilGate == {"extract", "index", "assess", "propose", "resolve", "discover", "gate"}

RunInv ==
    /\ runStage \in Closed \cup UntilGate \cup {"compose", "build"}
    /\ runStage \in UntilGate => subjects \in [RunHooks -> {"none", "agent"}]
    /\ runStage \notin Closed => carried = NothingBuilt
    /\ runStage \in {"compose", "build"} /\ request.gate => \A h \in RunHooks : Resolves(found[h])
    /\ runStage = "build" =>
         composed = {h \in RunHooks : found[h] = "resolved" \/ accepted[h] # NoProposal}
    /\ GatedBuildCarriesEveryHook

\* A run starts with no gate answered and nothing built.
LEMMA RunStarts == PortRunInit => RunInv
  BY DEF PortRunInit, RunInv, Closed, UntilGate, GatedBuildCarriesEveryHook

\* A step of the stages before the gate: no hook is composed or carried yet.
LEMMA EarlyStep ==
  ASSUME RunInv, runStage \in UntilGate, runStage' \in Closed \cup UntilGate,
         runStage' \in UntilGate => subjects' \in [RunHooks -> {"none", "agent"}],
         UNCHANGED <<request, carried>>
  PROVE  RunInv'
  BY DEF RunInv, Closed, UntilGate, GatedBuildCarriesEveryHook

\* A run that is closed keeps what it carries.
LEMMA ClosingStep ==
  ASSUME RunInv, runStage' \in Closed, UNCHANGED <<request, carried>>
  PROVE  RunInv'
  BY DEF RunInv, Closed, UntilGate, GatedBuildCarriesEveryHook

\* What the gate lets through resolved: the anchor is required of every provenance.
LEMMA GateHoldsUnresolved ==
  ASSUME RunInv, Gate, runStage' = "compose", request.gate, NEW h \in RunHooks
  PROVE  Resolves(found[h])
<1>1. Ready(h, claims')
  BY DEF Gate
<1>2. Provenance(h) \in {"agent", "already_applied", "mechanical"}
  BY DEF Gate, RunInv, UntilGate, Provenance
<1>3. "anchor" \in Required(Provenance(h))
  BY <1>2 DEF Required
<1>4. ClaimOf(h, "anchor", FALSE) \notin claims'
  BY <1>1, <1>3 DEF Ready
<1>5. ClaimOf(h, "anchor", Resolves(found[h])) \in claims'
  BY DEF Gate, SiteClaims
<1>6. Resolves(found[h]) \in BOOLEAN
  BY DEF Resolves
<1> QED
  BY <1>4, <1>5, <1>6

\* A run leaves the gate for the composition only if every hook is ready.
LEMMA GateStep ==
  ASSUME RunInv, Gate
  PROVE  RunInv'
<1>1. runStage' \in {"stopped", "ended", "compose"} /\ runStage = "gate"
      /\ UNCHANGED <<request, found, carried>>
  BY DEF Gate, Reach
<1>2. CASE runStage' # "compose"
  BY <1>1, <1>2, ClosingStep DEF Closed
<1>3. CASE runStage' = "compose"
  BY <1>1, <1>3, GateHoldsUnresolved DEF RunInv, Closed, UntilGate, GatedBuildCarriesEveryHook
<1> QED
  BY <1>2, <1>3

\* What is composed is what resolved, or was accepted.
LEMMA ComposeStep ==
  ASSUME RunInv, ComposePatch
  PROVE  RunInv'
<1>1. runStage' \in {"failed", "ended", "build"} /\ runStage = "compose"
      /\ UNCHANGED <<request, found, accepted, carried>>
  BY DEF ComposePatch, Reach, FailRun
<1>2. CASE runStage' # "build"
  BY <1>1, <1>2, ClosingStep DEF Closed
<1>3. CASE runStage' = "build"
  <2>1. composed' = {h \in RunHooks : found[h] = "resolved" \/ accepted[h] # NoProposal}
    BY <1>3 DEF ComposePatch, Reach, FailRun
  <2> QED
    BY <1>1, <1>3, <2>1 DEF RunInv, Closed, UntilGate, GatedBuildCarriesEveryHook
<1> QED
  BY <1>2, <1>3

\* Every hook that resolved is grafted: its home is among the DEX files replaced.
LEMMA ResolvedIsGrafted ==
  ASSUME RunInv, runStage = "build", NEW h \in RunHooks, Resolves(found[h])
  PROVE  h \in Grafted
<1>1. CASE found[h] = "already_applied"
  BY <1>1 DEF Grafted
<1>2. CASE found[h] = "resolved"
  <2>1. h \in composed /\ Target(h) = Entry(h).home
    BY <1>2 DEF RunInv, Target, Resolves
  <2>2. DexOf[Entry(h).home] \in ReplaceDex
    BY DEF ReplaceDex
  <2> QED
    BY <2>1, <2>2 DEF Grafted
<1> QED
  BY <1>1, <1>2 DEF Resolves

\* The build carries what is composed in the DEX files that are grafted.
LEMMA BuildStep ==
  ASSUME RunInv, Build
  PROVE  RunInv'
<1>1. runStage = "build" /\ runStage' \in Closed /\ UNCHANGED request
      /\ (UNCHANGED carried \/ carried' = Grafted)
  BY DEF Build, FailRun, Closed
<1>2. CASE UNCHANGED carried
  BY <1>1, <1>2, ClosingStep
<1>3. CASE carried' = Grafted
  <2>1. request.gate => carried' = RunHooks
    BY <1>1, <1>3, ResolvedIsGrafted DEF RunInv, Grafted
  <2> QED
    BY <1>1, <2>1 DEF RunInv, Closed, UntilGate, GatedBuildCarriesEveryHook
<1> QED
  BY <1>1, <1>2, <1>3

\* Every step of the driver keeps the invariant of a run.
LEMMA RunStep == RunInv /\ [PortRunNext]_runVars => RunInv'
<1> SUFFICES ASSUME RunInv, [PortRunNext]_runVars PROVE RunInv'
  OBVIOUS
<1>1. ASSUME NEW r \in PortRequests, StartPort(r)
      PROVE  RunInv'
  BY <1>1 DEF StartPort, RunInv, Closed, UntilGate, GatedBuildCarriesEveryHook
<1>2. CASE Extract
  BY <1>2, EarlyStep DEF Extract, Produce, Reuse, Reach, FailRun, RunInv, Closed, UntilGate
<1>3. CASE BuildIndex
  BY <1>3, EarlyStep DEF BuildIndex, Produce, Reuse, Reach, FailRun, RunInv, Closed, UntilGate
<1>4. CASE AssessSurface
  BY <1>4, EarlyStep DEF AssessSurface, Reach, RunInv, Closed, UntilGate
<1>5. CASE AssessProposals
  <2>1. subjects' \in [RunHooks -> {"none", "agent"}]
    BY <1>5 DEF AssessProposals
  <2> QED
    BY <1>5, <2>1, EarlyStep DEF AssessProposals, Closed, UntilGate
<1>6. CASE Resolve
  BY <1>6, EarlyStep DEF Resolve, RunInv, Closed, UntilGate
<1>7. ASSUME NEW h \in asking, NEW given \in [1..KAgents -> Classes \cup {NoClass}],
             NEW refuted \in [1..Checkers -> BOOLEAN], DiscoverOne(h, given, refuted)
      PROVE  RunInv'
  <2>1. runStage = "discover" /\ UNCHANGED <<runStage, request, carried>>
        /\ subjects' = [subjects EXCEPT ![h] = "agent"]
    BY <1>7 DEF DiscoverOne
  <2>2. subjects' \in [RunHooks -> {"none", "agent"}]
    BY <2>1 DEF RunInv, UntilGate
  <2> QED
    BY <2>1, <2>2, EarlyStep DEF UntilGate
<1>8. ASSUME NEW h \in asking, SkipHook(h)
      PROVE  RunInv'
  BY <1>8, EarlyStep DEF SkipHook, RunInv, UntilGate
<1>9. CASE DiscoveryUnavailable
  BY <1>9, EarlyStep DEF DiscoveryUnavailable, FailRun, Closed, UntilGate
<1>10. CASE Settle
  BY <1>10, EarlyStep DEF Settle, RunInv, Closed, UntilGate
<1>11. CASE UNCHANGED runVars
  BY <1>11 DEF runVars, RunInv, GatedBuildCarriesEveryHook
<1> QED
  BY <1>1, <1>2, <1>3, <1>4, <1>5, <1>6, <1>7, <1>8, <1>9, <1>10, <1>11,
     GateStep, ComposeStep, BuildStep DEF PortRunNext

\* An APK that left the gate carries every active hook (driver.py), although the DEX
\* files to graft are listed from the hooks that resolved, and the operations also from
\* the proposals that were accepted.
THEOREM GatedBuildComplete == PortRunSpec => []GatedBuildCarriesEveryHook
<1>1. RunInv => GatedBuildCarriesEveryHook
  BY DEF RunInv
<1> QED
  BY <1>1, RunStarts, RunStep, PTL DEF PortRunSpec

-----------------------------------------------------------------------------
(*****************************************************************************)
(* ReplayReceipts: consent is honoured.                                      *)
(*****************************************************************************)

-----------------------------------------------------------------------------
(* What only grows.                                                         *)

NamedIsListed == named \in Seq({named[i] : i \in DOMAIN named})

\* A content that is put has a digest, and what had one keeps it.
LEMMA PutNames ==
  ASSUME NamedIsListed, NEW content, named' = Put(content)
  PROVE  /\ NamedIsListed' /\ PutDigest(content) \in DOMAIN named'
         /\ named'[PutDigest(content)] = content
         /\ \A i \in DOMAIN named : i \in DOMAIN named' /\ named'[i] = named[i]
<1>1. CASE Named(content)
  <2>1. named' = named /\ PutDigest(content) = Digest(content)
    BY <1>1 DEF Put, PutDigest
  <2>2. Digest(content) \in DOMAIN named /\ named[Digest(content)] = content
    BY <1>1 DEF Named, Digest
  <2> QED
    BY <2>1, <2>2 DEF NamedIsListed
<1>2. CASE ~Named(content)
  <2>1. named' = Append(named, content) /\ PutDigest(content) = Len(named) + 1
    BY <1>2 DEF Put, PutDigest
  <2>2. PICK S : S = {named[i] : i \in DOMAIN named} \cup {content}
    OBVIOUS
  <2>3. named \in Seq(S)
    BY <2>2 DEF NamedIsListed
  <2>4. content \in S
    BY <2>2
  <2>5. /\ DOMAIN named = 1..Len(named) /\ Len(named) \in Nat
        /\ DOMAIN named' = 1..(Len(named) + 1) /\ named'[Len(named) + 1] = content
        /\ \A i \in DOMAIN named : named'[i] = named[i]
    BY <2>1, <2>3, <2>4
  <2>6. S = {named'[i] : i \in DOMAIN named'}
    BY <2>2, <2>5
  <2>7. named' \in Seq(S)
    BY <2>1, <2>3, <2>4
  <2>8. NamedIsListed'
    BY <2>6, <2>7 DEF NamedIsListed
  <2> QED
    BY <2>1, <2>5, <2>8
<1> QED
  BY <1>1, <1>2

\* What a step never takes back: a name, a row of a decision or an admission, and an
\* operation that is completed.
Grows ==
  /\ \A i \in DOMAIN named : i \in DOMAIN named' /\ named'[i] = named[i]
  /\ decisions \subseteq decisions' /\ admitted \subseteq admitted'
  /\ \A k \in DOMAIN operations : operations[k].status = "completed" =>
       k \in DOMAIN operations' /\ operations'[k] = operations[k]

-----------------------------------------------------------------------------
(* The invariant.                                                           *)

\* The history of an operation is one of claims, one effect and one completion.
HistoryOf(row) ==
  LET n == Len(row.events) IN
  /\ row.events \in Seq({"pending", "effect", "completed", "quarantined"})
  /\ DOMAIN row = {"status", "held", "output", "events"}
  /\ row.status \in {"pending", "effect", "completed", "quarantined"}
  /\ row.status = "pending" => n >= 1 /\ \A i \in 1..n : row.events[i] = "pending"
  /\ row.status = "effect" =>
       n >= 2 /\ row.events[n] = "effect" /\ \A i \in 1..(n - 1) : row.events[i] = "pending"
  /\ row.status = "completed" =>
       /\ n >= 3 /\ row.events[n] = "completed" /\ row.events[n - 1] = "effect"
       /\ \A i \in 1..(n - 2) : row.events[i] = "pending"

OperationsHold ==
  \A k \in DOMAIN operations :
    /\ HistoryOf(operations[k])
    /\ operations[k].status \in {"effect", "completed"} => operations[k].output \in DOMAIN named

\* An identifier is of one decision; a decision is about what its subject is about.
DecisionsHold ==
  /\ \A d, e \in decisions : d.id = e.id => d = e
  /\ \A d \in decisions : /\ d.run = d.subject.run
                          /\ d.subject \in RunSpecs \/ d.gate = d.subject.gate

AdmissionsHold == \A a \in admitted : a \in DOMAIN named /\ named[a].decision \in decisions

\* A grant coheres, loads, and finds its build.
GrantStands(g) == GrantCoheres(g) /\ GrantLoads(g) /\ VerificationPredecessors(g)

GrantsHold == \A g \in grants : GrantStands(g)

ReceiptInv == NamedIsListed /\ OperationsHold /\ DecisionsHold /\ AdmissionsHold /\ GrantsHold

\* Nothing is named, stored or granted at the start.
LEMMA ReceiptsStart == ReceiptsInit => ReceiptInv
BY DEF ReceiptsInit, ReceiptInv, NamedIsListed, OperationsHold, DecisionsHold, AdmissionsHold,
       GrantsHold

-----------------------------------------------------------------------------
(* What stays true as the records grow.                                     *)

\* A completed operation's output stays its output.
LEMMA OutputStays ==
  ASSUME OperationsHold, Grows, NEW k, CompletedOutput(k) # NoArtifact
  PROVE  /\ CompletedOutput(k)' = CompletedOutput(k) /\ CompletedOutput(k) \in DOMAIN named
         /\ k \in DOMAIN operations /\ operations[k].status = "completed"
         /\ operations[k].output = CompletedOutput(k) /\ HistoryOf(operations[k])
BY DEF CompletedOutput, OperationsHold, Grows

\* What an admission asks for is found in its row.
LEMMA AskedStays ==
  ASSUME Grows, NEW a \in DOMAIN named
  PROVE  /\ named'[a] = named[a] /\ a \in DOMAIN named'
         /\ SpecOf(a)' = SpecOf(a) /\ ProfileOf(a)' = ProfileOf(a)
         /\ StockOf(a)' = StockOf(a) /\ PortOf(a)' = PortOf(a)
         /\ HasFrameworks(a)' = HasFrameworks(a)
         /\ \A role : Binding(a, role)' = Binding(a, role)
         /\ FrameworkInputs(a)' = FrameworkInputs(a) /\ FrameworkIdentity(a)' = FrameworkIdentity(a)
         /\ \A f : DecodeIdentity(a, f)' = DecodeIdentity(a, f)
<1>1. named'[a] = named[a] /\ a \in DOMAIN named'
  BY DEF Grows
<1>2. /\ SpecOf(a)' = SpecOf(a) /\ ProfileOf(a)' = ProfileOf(a)
      /\ StockOf(a)' = StockOf(a) /\ PortOf(a)' = PortOf(a)
  BY <1>1 DEF SpecOf, ProfileOf, StockOf, PortOf
<1>3. HasFrameworks(a)' = HasFrameworks(a)
  BY <1>2 DEF HasFrameworks
<1>4. \A role : Binding(a, role)' = Binding(a, role)
  BY <1>2 DEF Binding
<1>5. FrameworkInputs(a)' = FrameworkInputs(a)
  BY <1>2, <1>4 DEF FrameworkInputs
<1>6. FrameworkIdentity(a)' = FrameworkIdentity(a)
  BY <1>5 DEF FrameworkIdentity, Key
<1>7. \A f : DecodeIdentity(a, f)' = DecodeIdentity(a, f)
  BY <1>2, <1>3, <1>4 DEF DecodeIdentity, Key
<1> QED
  BY <1>1, <1>2, <1>3, <1>4, <1>5, <1>6, <1>7

\* What a receipt names and holds stays as the stores grow.
LEMMA ReceiptStays ==
  ASSUME Grows, NEW i \in DOMAIN named
  PROVE  Stored(i)' = Stored(i) /\ Receipt(i)' = Receipt(i)
BY DEF Grows, Stored, Receipt

\* The operations a stage builds on are found again, and their receipts still hold.
LEMMA BuildStays ==
  ASSUME OperationsHold, Grows, NEW a \in DOMAIN named, ResolveReplayBuild(a)
  PROVE  /\ ResolveReplayBuild(a)' /\ CompletedBuild(a)' = CompletedBuild(a)
         /\ CompletedFramework(a)' = CompletedFramework(a)
         /\ CompletedBuild(a) \in DOMAIN named /\ BuildKey(a) \in DOMAIN operations
         /\ operations[BuildKey(a)].status = "completed"
         /\ operations[BuildKey(a)].output = CompletedBuild(a)
         /\ HistoryOf(operations[BuildKey(a)])
<1> DEFINE f == CompletedFramework(a)
           c == CompletedDecode(a)
           p == CompletedApply(a)
           b == CompletedBuild(a)
<1>0. DecodeSettled(a) /\ FrameworkSettled(a) /\ BuildPredecessors(a)
  BY DEF ResolveReplayBuild, BuildPredecessors, DecodeSettled
<1>1. f' = f
  <2>1. CASE HasFrameworks(a)
    <3>1. CompletedOutput(FrameworkIdentity(a)) # NoArtifact
      BY <1>0, <2>1 DEF FrameworkSettled, CompletedFramework
    <3>2. CompletedOutput(FrameworkIdentity(a))' = CompletedOutput(FrameworkIdentity(a))
      BY <3>1, OutputStays, AskedStays DEF CompletedOutput
    <3> QED
      BY <2>1, <3>2, AskedStays DEF CompletedFramework
  <2>2. CASE ~HasFrameworks(a)
    BY <2>2, AskedStays DEF CompletedFramework
  <2> QED
    BY <2>1, <2>2
<1>2. HasFrameworks(a) => f \in DOMAIN named /\ Stored(f)' = Stored(f) /\ Receipt(f)' = Receipt(f)
  <2> SUFFICES ASSUME HasFrameworks(a)
               PROVE  f \in DOMAIN named /\ Stored(f)' = Stored(f) /\ Receipt(f)' = Receipt(f)
    OBVIOUS
  <2>1. f = CompletedOutput(FrameworkIdentity(a)) /\ f # NoArtifact
    BY <1>0 DEF FrameworkSettled, CompletedFramework
  <2> HIDE DEF f
  <2>2. f \in DOMAIN named
    BY <2>1, OutputStays
  <2> QED
    BY <2>2, <1>1, ReceiptStays
<1> HIDE DEF f
<1>3. HasFrameworks(a) =>
        FrameworkReceiptHolds(f, FrameworkIdentity(a), a)'
        /\ FrameworkReceiptHolds(f, FrameworkIdentity(a), a)
  BY <1>1, <1>2, <1>0, AskedStays DEF FrameworkReceiptHolds, FrameworkSettled, Sealed, f
<1>4. FrameworkSettled(a)'
  BY <1>1, <1>3, <1>0, AskedStays DEF FrameworkSettled, f
<1>5. /\ DecodeIdentity(a, f)' = DecodeIdentity(a, f)
      /\ c = CompletedOutput(DecodeIdentity(a, f)) /\ c # NoArtifact
      /\ DecodeReceiptHolds(c, DecodeIdentity(a, f), a, f)
  BY <1>1, <1>0, AskedStays DEF f, CompletedDecode, DecodeSettled
<1>6. c' = c /\ c \in DOMAIN named
  <2>1. CompletedOutput(DecodeIdentity(a, f))' = c /\ c \in DOMAIN named
    BY <1>5, OutputStays DEF CompletedOutput
  <2> QED
    BY <2>1, <1>1, <1>5 DEF CompletedDecode, f
<1> HIDE DEF c
<1>7. Stored(c)' = Stored(c) /\ Receipt(c)' = Receipt(c)
  BY <1>6, ReceiptStays
<1>8. DecodeReceiptHolds(c, DecodeIdentity(a, f), a, f)'
  <2>1. CASE HasFrameworks(a)
    <3>1. DecodedTreeReceiptV2Holds(c, DecodeIdentity(a, f), a, f)
      BY <2>1, <1>5 DEF DecodeReceiptHolds
    <3>2. DecodedTreeReceiptV2Holds(c, DecodeIdentity(a, f), a, f)'
      BY <3>1, <2>1, <1>1, <1>2, <1>3, <1>5, <1>6, <1>7, AskedStays
         DEF DecodedTreeReceiptV2Holds, Sealed
    <3> QED
      BY <3>2, <2>1, AskedStays DEF DecodeReceiptHolds
  <2>2. CASE ~HasFrameworks(a)
    <3>1. DecodedTreeReceiptHolds(c, DecodeIdentity(a, f), a)
      BY <2>2, <1>5 DEF DecodeReceiptHolds
    <3>2. DecodedTreeReceiptHolds(c, DecodeIdentity(a, f), a)'
      BY <3>1, <1>5, <1>6, <1>7, AskedStays DEF DecodedTreeReceiptHolds, Sealed
    <3> QED
      BY <3>2, <2>2, AskedStays DEF DecodeReceiptHolds
  <2> QED
    BY <2>1, <2>2
<1>9. DecodeSettled(a)'
  BY <1>1, <1>4, <1>5, <1>6, <1>8 DEF DecodeSettled, c, f
<1>10. ApplyInputs(a, c)' = ApplyInputs(a, c) /\ ApplyIdentity(a, c)' = ApplyIdentity(a, c)
  BY <1>6, <1>7, AskedStays DEF ApplyInputs, ApplyIdentity, Key
<1>11. p = CompletedOutput(ApplyIdentity(a, c)) /\ p # NoArtifact
       /\ PatchedTreeReceiptHolds(p, ApplyIdentity(a, c), a, c)
  BY <1>0 DEF BuildPredecessors, CompletedApply, c
<1>12. p' = p /\ p \in DOMAIN named
  <2>1. CompletedOutput(ApplyIdentity(a, c))' = p /\ p \in DOMAIN named
    BY <1>10, <1>11, OutputStays DEF CompletedOutput
  <2> QED
    BY <2>1, <1>6 DEF CompletedApply, c
<1> HIDE DEF p
<1>13. Stored(p)' = Stored(p) /\ Receipt(p)' = Receipt(p)
  BY <1>12, ReceiptStays
<1>14. PatchedTreeReceiptHolds(p, ApplyIdentity(a, c), a, c)'
  BY <1>6, <1>10, <1>11, <1>12, <1>13 DEF PatchedTreeReceiptHolds, Sealed
<1>15. BuildPredecessors(a)'
  BY <1>9, <1>6, <1>11, <1>12, <1>14 DEF BuildPredecessors, c, p
<1>16. BuildInputs(a, p, f)' = BuildInputs(a, p, f)
         /\ BuildIdentity(a, p, f)' = BuildIdentity(a, p, f)
  BY <1>1, <1>12, <1>13, AskedStays DEF BuildInputs, BuildIdentity, Key
<1>17. BuildKey(a) = BuildIdentity(a, p, f) /\ BuildKey(a)' = BuildKey(a)
  BY <1>1, <1>12, <1>16 DEF BuildKey, p, f
<1>18. b = CompletedOutput(BuildKey(a)) /\ b # NoArtifact
       /\ PatchedApkReceiptHolds(b, BuildKey(a), a, p, f)
  BY DEF ResolveReplayBuild, CompletedBuild, p, f
<1>19. /\ b' = b /\ b \in DOMAIN named /\ BuildKey(a) \in DOMAIN operations
       /\ operations[BuildKey(a)].status = "completed" /\ operations[BuildKey(a)].output = b
       /\ HistoryOf(operations[BuildKey(a)])
  <2>1. CompletedOutput(BuildKey(a))' = b
    BY <1>17, <1>18, OutputStays DEF CompletedOutput
  <2> QED
    BY <2>1, <1>18, OutputStays DEF CompletedBuild
<1> HIDE DEF b
<1>20. Stored(b)' = Stored(b) /\ Receipt(b)' = Receipt(b)
  BY <1>19, ReceiptStays
<1>21. PatchedApkReceiptHolds(b, BuildKey(a), a, p, f)'
  BY <1>1, <1>12, <1>16, <1>17, <1>18, <1>19, <1>20 DEF PatchedApkReceiptHolds, Sealed
<1>22. ResolveReplayBuild(a)'
  BY <1>1, <1>12, <1>15, <1>18, <1>19, <1>21 DEF ResolveReplayBuild, b, p, f
<1> QED
  BY <1>1, <1>19, <1>22 DEF b, f

\* A grant that stood stands.
LEMMA GrantStays ==
  ASSUME OperationsHold, AdmissionsHold, Grows, grants \subseteq grants', NEW g, GrantStands(g)
  PROVE  GrantStands(g)'
<1> DEFINE a == g.admitted
           b == g.request.build
           key == Stored(b).producer
<1>1. a \in admitted /\ a \in DOMAIN named /\ a \in admitted' /\ named'[a] = named[a]
  BY DEF GrantStands, GrantLoads, AdmittedRow, AdmissionsHold, Grows
<1>2. AdmittedRow(a)'
  BY <1>1 DEF GrantStands, GrantLoads, AdmittedRow, RecordedDecision, Grows
<1>3. /\ ResolveReplayBuild(a)' /\ CompletedBuild(a)' = CompletedBuild(a)
      /\ CompletedBuild(a) = b /\ b \in DOMAIN named
  BY <1>1, BuildStays DEF GrantStands, VerificationPredecessors
<1>4. Stored(b)' = Stored(b) /\ Receipt(b)' = Receipt(b)
  BY <1>3, ReceiptStays DEF Stored, Receipt
<1>5. VerificationPredecessors(g)'
  BY <1>2, <1>3, <1>4 DEF GrantStands, VerificationPredecessors
<1>6. GrantCoheres(g)'
  BY <1>1, <1>4, AskedStays DEF GrantStands, GrantCoheres
<1>7. BuildClaimHolds(g)'
  <2>1. /\ key' = key /\ key \in DOMAIN operations /\ operations[key].status = "completed"
        /\ operations[key].output = b /\ BuildClaimHolds(g)
    BY <1>4 DEF GrantStands, GrantLoads, BuildClaimHolds
  <2>2. key \in DOMAIN operations' /\ operations'[key] = operations[key]
    BY <2>1 DEF Grows
  <2> QED
    BY <2>1, <2>2 DEF BuildClaimHolds
<1>8. GrantLoads(g)'
  BY <1>2, <1>7 DEF GrantStands, GrantLoads, RecordedDecision, Grows
<1> QED
  BY <1>5, <1>6, <1>8 DEF GrantStands

\* One row of the ledger is written, and no row that was completed.
LEMMA RowWritten ==
  ASSUME OperationsHold, NEW key, NEW row, HistoryOf(row),
         row.status \in {"effect", "completed"} => row.output \in DOMAIN named',
         \A i \in DOMAIN named : i \in DOMAIN named',
         DOMAIN operations' = DOMAIN operations \cup {key}, operations'[key] = row,
         \A k \in DOMAIN operations \ {key} : operations'[k] = operations[k],
         key \in DOMAIN operations => operations[key].status # "completed"
  PROVE  /\ OperationsHold'
         /\ \A k \in DOMAIN operations : operations[k].status = "completed" =>
              k \in DOMAIN operations' /\ operations'[k] = operations[k]
<1>1. ASSUME NEW k \in DOMAIN operations'
      PROVE  /\ HistoryOf(operations'[k])
             /\ operations'[k].status \in {"effect", "completed"} =>
                  operations'[k].output \in DOMAIN named'
  <2>1. CASE k = key
    BY <2>1
  <2>2. CASE k # key
    BY <2>2 DEF OperationsHold
  <2> QED
    BY <2>1, <2>2
<1>2. OperationsHold'
  BY <1>1 DEF OperationsHold, HistoryOf
<1> QED
  BY <1>2

\* An operation is begun, or claimed again.
LEMMA FirstClaim ==
  ASSUME NEW row, row = [status |-> "pending", held |-> TRUE, output |-> NoArtifact,
                         events |-> <<"pending">>]
  PROVE  HistoryOf(row) /\ row.status = "pending"
BY DEF HistoryOf

\* The events of an operation go on as its status does.
LEMMA RowGoesOn ==
  ASSUME NEW row, HistoryOf(row),
         NEW next, DOMAIN next = DOMAIN row,
         \/ /\ row.status = "pending" /\ next.status = "pending"
            /\ next.events = row.events \/ next.events = Append(row.events, "pending")
         \/ /\ row.status = "pending" /\ next.status = "effect"
            /\ next.events = Append(row.events, "effect")
         \/ /\ row.status = "effect" /\ next.status = "completed"
            /\ next.events = Append(row.events, "completed")
         \/ /\ row.status = "pending" /\ next.status = "quarantined"
            /\ next.events = Append(row.events, "quarantined")
  PROVE  HistoryOf(next)
<1> DEFINE n == Len(row.events)
           E == {"pending", "effect", "completed", "quarantined"}
<1>1. row.events \in Seq(E) /\ n \in Nat
  BY DEF HistoryOf
<1>2. CASE next.events = row.events /\ row.status = "pending" /\ next.status = "pending"
  BY <1>2 DEF HistoryOf
<1>3. ASSUME NEW e \in E, next.events = Append(row.events, e)
      PROVE  /\ next.events \in Seq(E) /\ Len(next.events) = n + 1 /\ next.events[n + 1] = e
             /\ \A i \in 1..n : next.events[i] = row.events[i]
  BY <1>1, <1>3
<1>4. CASE row.status = "pending" /\ next.status = "pending"
           /\ next.events = Append(row.events, "pending")
  BY <1>1, <1>3, <1>4 DEF HistoryOf
<1>5. CASE row.status = "pending" /\ next.status = "effect"
             /\ next.events = Append(row.events, "effect")
  BY <1>1, <1>3, <1>5 DEF HistoryOf
<1>6. CASE row.status = "effect" /\ next.status = "completed"
           /\ next.events = Append(row.events, "completed")
  BY <1>1, <1>3, <1>6 DEF HistoryOf
<1>7. CASE row.status = "pending" /\ next.status = "quarantined"
           /\ next.events = Append(row.events, "quarantined")
  BY <1>1, <1>3, <1>7 DEF HistoryOf
<1> QED
  BY <1>2, <1>4, <1>5, <1>6, <1>7

-----------------------------------------------------------------------------
(* The steps of the stages.                                                 *)

LedgerGoesOn ==
  /\ OperationsHold'
  /\ \A k \in DOMAIN operations : operations[k].status = "completed" =>
       k \in DOMAIN operations' /\ operations'[k] = operations[k]

\* A key is claimed for the first time, or again after it was handed back.
LEMMA ClaimGoesOn ==
  ASSUME OperationsHold, NEW r, NEW role, NEW key, ClaimStage(r, role, key)
  PROVE  LedgerGoesOn
<1>0. UNCHANGED named
  BY DEF ClaimStage
<1>1. CASE key \notin DOMAIN operations
  <2>1. PICK row : row = [status |-> "pending", held |-> TRUE, output |-> NoArtifact,
                          events |-> <<"pending">>]
    OBVIOUS
  <2>2. /\ DOMAIN operations' = DOMAIN operations \cup {key} /\ operations'[key] = row
        /\ \A k \in DOMAIN operations \ {key} : operations'[k] = operations[k]
    BY <1>1, <2>1 DEF ClaimStage
  <2>3. HistoryOf(row) /\ row.status = "pending"
    BY <2>1, FirstClaim
  <2> QED
    BY <1>0, <1>1, <2>2, <2>3, RowWritten DEF LedgerGoesOn
<1>2. CASE key \in DOMAIN operations
  <2>1. /\ operations[key].status = "pending"
        /\ operations' = [operations EXCEPT ![key].held = TRUE,
                                            ![key].events = Append(@, "pending")]
    BY <1>2 DEF ClaimStage
  <2>2. PICK row : row = operations'[key]
    OBVIOUS
  <2>3. /\ DOMAIN operations' = DOMAIN operations
        /\ \A k \in DOMAIN operations \ {key} : operations'[k] = operations[k]
    BY <2>1
  <2>4. HistoryOf(operations[key])
    BY <1>2 DEF OperationsHold
  <2>5. /\ DOMAIN row = DOMAIN operations[key] /\ row.status = "pending"
        /\ row.events = Append(operations[key].events, "pending")
    BY <1>2, <2>1, <2>2, <2>4 DEF HistoryOf
  <2>6. HistoryOf(row)
    BY <2>1, <2>4, <2>5, RowGoesOn
  <2>7. DOMAIN operations' = DOMAIN operations \cup {key}
    BY <1>2, <2>3
  <2> QED
    BY <1>0, <2>1, <2>2, <2>3, <2>5, <2>6, <2>7, RowWritten DEF LedgerGoesOn
<1> QED
  BY <1>1, <1>2

\* A receipt that is read is adopted.
LEMMA AdoptGoesOn ==
  ASSUME OperationsHold, NEW key \in DOMAIN operations, UNCHANGED named,
         operations[key].status = "effect",
         operations' = [operations EXCEPT ![key].status = "completed",
                                          ![key].events = Append(@, "completed")]
  PROVE  LedgerGoesOn
<1>1. PICK row : row = operations'[key]
  OBVIOUS
<1>2. /\ DOMAIN operations' = DOMAIN operations \cup {key}
      /\ \A k \in DOMAIN operations \ {key} : operations'[k] = operations[k]
  OBVIOUS
<1>3. HistoryOf(operations[key]) /\ operations[key].output \in DOMAIN named
  BY DEF OperationsHold
<1>4. /\ DOMAIN row = DOMAIN operations[key] /\ row.status = "completed"
      /\ row.events = Append(operations[key].events, "completed")
      /\ row.output = operations[key].output
  BY <1>1, <1>3 DEF HistoryOf
<1>5. HistoryOf(row)
  BY <1>3, <1>4, RowGoesOn
<1>6. row.output \in DOMAIN named'
  BY <1>3, <1>4
<1> QED
  BY <1>1, <1>2, <1>5, <1>6, RowWritten DEF LedgerGoesOn

\* A pending operation is handed back, or quarantined.
LEMMA ClaimEnds ==
  ASSUME OperationsHold, NEW key \in DOMAIN operations, UNCHANGED named,
         operations[key].status = "pending",
         \/ operations' = [operations EXCEPT ![key].held = FALSE]
         \/ operations' = [operations EXCEPT ![key].status = "quarantined",
                                             ![key].events = Append(@, "quarantined")]
  PROVE  LedgerGoesOn
<1>1. PICK row : row = operations'[key]
  OBVIOUS
<1>2. /\ DOMAIN operations' = DOMAIN operations
      /\ \A k \in DOMAIN operations \ {key} : operations'[k] = operations[k]
  OBVIOUS
<1>3. HistoryOf(operations[key])
  BY DEF OperationsHold
<1>4. /\ DOMAIN row = DOMAIN operations[key]
      /\ \/ row.status = "pending" /\ row.events = operations[key].events
         \/ /\ row.status = "quarantined"
            /\ row.events = Append(operations[key].events, "quarantined")
  <2>1. {"status", "events", "held"} \subseteq DOMAIN operations[key]
    BY <1>3 DEF HistoryOf
  <2>2. CASE operations' = [operations EXCEPT ![key].held = FALSE]
    <3>1. row = [operations[key] EXCEPT !.held = FALSE]
      BY <1>1, <2>2
    <3> QED
      BY <2>1, <3>1
  <2>3. CASE operations' = [operations EXCEPT ![key].status = "quarantined",
                                              ![key].events = Append(@, "quarantined")]
    <3>1. row = [operations[key] EXCEPT !.status = "quarantined",
                                        !.events = Append(@, "quarantined")]
      BY <1>1, <2>3
    <3> QED
      BY <2>1, <3>1
  <2> QED
    BY <2>2, <2>3
<1>5. HistoryOf(row)
  BY <1>3, <1>4, RowGoesOn
<1> QED
  BY <1>1, <1>2, <1>4, <1>5, RowWritten DEF LedgerGoesOn

\* The effect of a tool is recorded, with a name for its receipt.
LEMMA EffectGoesOn ==
  ASSUME OperationsHold, NEW key \in DOMAIN operations, NEW out \in DOMAIN named',
         \A i \in DOMAIN named : i \in DOMAIN named',
         operations[key].status = "pending",
         operations' = [operations EXCEPT ![key].status = "effect", ![key].output = out,
                                          ![key].events = Append(@, "effect")]
  PROVE  LedgerGoesOn
<1>1. PICK row : row = operations'[key]
  OBVIOUS
<1>2. /\ DOMAIN operations' = DOMAIN operations
      /\ \A k \in DOMAIN operations \ {key} : operations'[k] = operations[k]
  OBVIOUS
<1>3. HistoryOf(operations[key])
  BY DEF OperationsHold
<1>4. /\ DOMAIN row = DOMAIN operations[key] /\ row.status = "effect"
      /\ row.events = Append(operations[key].events, "effect") /\ row.output = out
  BY <1>1, <1>3 DEF HistoryOf
<1>5. HistoryOf(row)
  BY <1>3, <1>4, RowGoesOn
<1> QED
  BY <1>1, <1>2, <1>4, <1>5, RowWritten DEF LedgerGoesOn

\* A row that is not there is not written.
LEMMA NothingGoesOn ==
  ASSUME OperationsHold, DOMAIN operations' = DOMAIN operations,
         \A k \in DOMAIN operations : operations'[k] = operations[k],
         \A i \in DOMAIN named : i \in DOMAIN named'
  PROVE  LedgerGoesOn
BY DEF LedgerGoesOn, OperationsHold, HistoryOf

OthersStay == UNCHANGED <<decisions, admitted, grants, named>>

\* A stage begins with a claim, or by adopting a receipt.
LEMMA BeginningGoesOn ==
  ASSUME OperationsHold, NEW r, NEW role, NEW key, NEW holds, Beginning(r, role, key, holds)
  PROVE  LedgerGoesOn /\ OthersStay
<1>1. CASE ClaimStage(r, role, key)
  BY <1>1, ClaimGoesOn DEF ClaimStage, OthersStay
<1>2. CASE Adopt(r, key, holds)
  BY <1>2, AdoptGoesOn DEF Adopt, OthersStay
<1> QED
  BY <1>1, <1>2 DEF Beginning

\* However an attempt ends, the ledger goes on.
LEMMA EndingGoesOn ==
  ASSUME OperationsHold, NEW r,
         \/ CompleteStage(r) \/ HandBack(r) \/ Die(r) \/ QuarantineStage(r)
  PROVE  LedgerGoesOn /\ OthersStay
<1> DEFINE key == working[r].key
<1>1. CASE CompleteStage(r)
  <2>1. CASE key \in DOMAIN operations
    BY <1>1, <2>1, AdoptGoesOn DEF CompleteStage, OthersStay
  <2>2. CASE key \notin DOMAIN operations
    BY <1>1, <2>2, NothingGoesOn DEF CompleteStage, OthersStay
  <2> QED
    BY <2>1, <2>2
<1>2. CASE HandBack(r)
  <2>1. CASE key \in DOMAIN operations
    BY <1>2, <2>1, ClaimEnds DEF HandBack, OthersStay
  <2>2. CASE key \notin DOMAIN operations
    BY <1>2, <2>2, NothingGoesOn DEF HandBack, OthersStay
  <2> QED
    BY <2>1, <2>2
<1>3. CASE Die(r)
  BY <1>3, NothingGoesOn DEF Die, OthersStay
<1>4. CASE QuarantineStage(r)
  <2>1. CASE key \in DOMAIN operations
    BY <1>4, <2>1, ClaimEnds DEF QuarantineStage, OthersStay
  <2>2. CASE key \notin DOMAIN operations
    BY <1>4, <2>2, NothingGoesOn DEF QuarantineStage, OthersStay
  <2> QED
    BY <2>1, <2>2
<1> QED
  BY <1>1, <1>2, <1>3, <1>4

\* A receipt is named and the effect recorded.
LEMMA RecordGoesOn ==
  ASSUME NamedIsListed, OperationsHold, NEW r, NEW role, NEW kind, NEW what,
         Record(r, role, kind, what)
  PROVE  /\ LedgerGoesOn /\ NamedIsListed' /\ UNCHANGED <<decisions, admitted, grants>>
         /\ \A i \in DOMAIN named : i \in DOMAIN named' /\ named'[i] = named[i]
<1> DEFINE key == working[r].key
           artifact == Artifact(kind, key, what)
<1>1. /\ named' = Put(artifact) /\ operations[key].status = "pending"
      /\ operations' = [operations EXCEPT ![key].status = "effect",
                                          ![key].output = PutDigest(artifact),
                                          ![key].events = Append(@, "effect")]
      /\ UNCHANGED <<decisions, admitted, grants>>
  BY DEF Record
<1> HIDE DEF artifact, key
<1>2. /\ NamedIsListed' /\ PutDigest(artifact) \in DOMAIN named'
      /\ \A i \in DOMAIN named : i \in DOMAIN named' /\ named'[i] = named[i]
  BY <1>1, PutNames
<1>3. CASE key \in DOMAIN operations
  BY <1>1, <1>2, <1>3, EffectGoesOn
<1>4. CASE key \notin DOMAIN operations
  BY <1>1, <1>2, <1>4, NothingGoesOn
<1> QED
  BY <1>1, <1>2, <1>3, <1>4

\* The step of a stage: the operations go on, the names grow, and no row of another
\* table is written.
LEMMA StageGoesOn ==
  ASSUME ReceiptInv, NEW r,
         \/ InstallFrameworks(r) \/ Decode(r) \/ ApplyTree(r)
         \/ BuildPatchedApk(r) \/ VerifyFinalApk(r)
         \/ CompleteStage(r) \/ HandBack(r) \/ Die(r) \/ QuarantineStage(r)
         \/ \E out \in ToolOutputs :
              \/ FrameworksInstalled(r, out) \/ Decoded(r, out) \/ Applied(r, out)
              \/ Built(r, out) \/ Verified(r, out)
  PROVE  Grows /\ OperationsHold' /\ NamedIsListed' /\ UNCHANGED <<decisions, admitted, grants>>
<1>0. OperationsHold /\ NamedIsListed
  BY DEF ReceiptInv
<1>1. ASSUME LedgerGoesOn, OthersStay
      PROVE  Grows /\ OperationsHold' /\ NamedIsListed' /\ UNCHANGED <<decisions, admitted, grants>>
  BY <1>0, <1>1 DEF LedgerGoesOn, OthersStay, Grows, NamedIsListed
<1>2. ASSUME NEW role, NEW key, NEW holds, Beginning(r, role, key, holds)
      PROVE  LedgerGoesOn /\ OthersStay
  BY <1>0, <1>2, BeginningGoesOn
<1>3. ASSUME NEW role, NEW kind, NEW what, Record(r, role, kind, what)
      PROVE  Grows /\ OperationsHold' /\ NamedIsListed' /\ UNCHANGED <<decisions, admitted, grants>>
  BY <1>0, <1>3, RecordGoesOn DEF LedgerGoesOn, Grows
<1>4. CASE InstallFrameworks(r)
  BY <1>1, <1>2, <1>4 DEF InstallFrameworks
<1>5. CASE Decode(r)
  BY <1>1, <1>2, <1>5 DEF Decode
<1>6. CASE ApplyTree(r)
  BY <1>1, <1>2, <1>6 DEF ApplyTree
<1>7. CASE BuildPatchedApk(r)
  BY <1>1, <1>2, <1>7 DEF BuildPatchedApk
<1>8. CASE VerifyFinalApk(r)
  BY <1>1, <1>2, <1>8 DEF VerifyFinalApk
<1>9. CASE CompleteStage(r) \/ HandBack(r) \/ Die(r) \/ QuarantineStage(r)
  BY <1>0, <1>1, <1>9, EndingGoesOn
<1>10. ASSUME NEW out, \/ FrameworksInstalled(r, out) \/ Decoded(r, out) \/ Applied(r, out)
                       \/ Built(r, out) \/ Verified(r, out)
       PROVE  \E role, kind, what : Record(r, role, kind, what)
  BY <1>10 DEF FrameworksInstalled, Decoded, Applied, Built, Verified
<1> QED
  BY <1>3, <1>4, <1>5, <1>6, <1>7, <1>8, <1>9, <1>10

-----------------------------------------------------------------------------
(* The steps of the gates.                                                  *)

\* An answer goes on record under an identifier of its own, about its own subject.
LEMMA DecisionRecorded ==
  ASSUME DecisionsHold, NEW d, RecordDecision(d), d.run = d.subject.run,
         d.subject \in RunSpecs \/ d.gate = d.subject.gate
  PROVE  DecisionsHold'
<1>1. decisions' = decisions \cup {d} /\ \A e \in decisions : e.id = d.id => e = d
  BY DEF RecordDecision, MayRecordDecision
<1> QED
  BY <1>1 DEF DecisionsHold, RunSpecs, Envelopes

\* The answer to the first gate is stored under its own name.
LEMMA StartAnswered ==
  ASSUME DecisionsHold, AnswerStart
  PROVE  DecisionsHold' /\ decisions \subseteq decisions'
<1>1. PICK spec \in RunSpecs : \E ticket, who, answer :
        RecordDecision(Decision(ticket, spec.run, Gated(spec.run, "start"), spec, who, answer))
  BY DEF AnswerStart
<1>2. PICK ticket, who, answer :
        RecordDecision(Decision(ticket, spec.run, Gated(spec.run, "start"), spec, who, answer))
  BY <1>1
<1> DEFINE d == Decision(ticket, spec.run, Gated(spec.run, "start"), spec, who, answer)
<1>3. d.subject = spec /\ d.run = d.subject.run /\ d.subject \in RunSpecs
  BY DEF Decision
<1> HIDE DEF d
<1>4. RecordDecision(d)
  BY <1>2 DEF d
<1>5. decisions \subseteq decisions'
  BY <1>4 DEF RecordDecision
<1> QED
  BY <1>3, <1>4, <1>5, DecisionRecorded

\* So is the answer to the last gate of an admitted replay.
LEMMA FinalAnswered ==
  ASSUME DecisionsHold, NEW r, IsAdmitted(r), NEW ticket, NEW who, NEW answer,
         AnswerFinalGate(r, FinalAnswer(r, ticket, who, answer))
  PROVE  DecisionsHold' /\ decisions \subseteq decisions'
<1> DEFINE a == AdmissionOf(r)
           d == FinalAnswer(r, ticket, who, answer)
<1>1. SpecOf(a).run = r
  BY DEF AdmissionOf, IsAdmitted
<1> HIDE DEF a
<1>2. d.subject = VerificationRequest(a) /\ d.run = r /\ d.gate = VerificationRequest(a).gate
  BY DEF FinalAnswer, Decision, a
<1>3. VerificationRequest(a).run = r
  BY <1>1 DEF VerificationRequest
<1> HIDE DEF d
<1>4. RecordDecision(d)
  BY DEF AnswerFinalGate, d
<1>5. decisions \subseteq decisions'
  BY <1>4 DEF RecordDecision
<1> QED
  BY <1>2, <1>3, <1>4, <1>5, DecisionRecorded

\* An admission has a digest, and a decision that is on record.
LEMMA AdmissionRecorded ==
  ASSUME NamedIsListed, AdmissionsHold, OperationsHold, NEW req, NEW d \in decisions,
         AdmitReplay(req, d)
  PROVE  NamedIsListed' /\ AdmissionsHold' /\ OperationsHold' /\ Grows
<1> DEFINE content == Admission(req, d)
<1>1. content.decision = d
  BY DEF Admission
<1>2. /\ named' = Put(content) /\ admitted' = admitted \cup {PutDigest(content)}
      /\ UNCHANGED <<decisions, grants, operations, working>>
  BY DEF AdmitReplay
<1> HIDE DEF content
<1>3. /\ NamedIsListed' /\ PutDigest(content) \in DOMAIN named'
      /\ named'[PutDigest(content)] = content
      /\ \A i \in DOMAIN named : i \in DOMAIN named' /\ named'[i] = named[i]
  BY <1>2, PutNames
<1>4. AdmissionsHold'
  BY <1>1, <1>2, <1>3 DEF AdmissionsHold
<1>5. OperationsHold'
  BY <1>2, <1>3 DEF OperationsHold, HistoryOf
<1>6. Grows
  BY <1>2, <1>3 DEF Grows
<1> QED
  BY <1>3, <1>4, <1>5, <1>6

\* The grant that is admitted is for the build that was resolved.
LEMMA GrantAdmitted ==
  ASSUME OperationsHold, AdmissionsHold, GrantsHold, NEW r, NEW d,
         ResolveReplayBuild(AdmissionOf(r)), AdmitGrant(r, d),
         \A g \in grants : GrantStands(g)'
  PROVE  GrantsHold'
<1> DEFINE a == AdmissionOf(r)
<1>1. PICK g : g = Grant(VerificationRequest(a), d, a, CompletedBuild(a))
  OBVIOUS
<1>2. /\ MayRecordGrant(g) /\ grants' = grants \cup {g}
      /\ UNCHANGED <<decisions, admitted, operations, named, working>>
  BY <1>1 DEF AdmitGrant
<1>3. /\ g.request = VerificationRequest(a) /\ g.admitted = a
      /\ g.request.build = CompletedBuild(a) /\ g.request.apk = Receipt(CompletedBuild(a)).apk
  BY <1>1 DEF Grant, VerificationRequest
<1>4. GrantCoheres(g) /\ RecordedDecision(g.decision) /\ AdmittedRow(g.admitted)
        /\ BuildClaimHolds(g)
  BY <1>2 DEF MayRecordGrant
<1> HIDE DEF a
<1>5. VerificationPredecessors(g)
  BY <1>3, <1>4 DEF VerificationPredecessors, a
<1>6. VerificationPredecessors(g)' /\ GrantCoheres(g)'
  <2>1. GrantCoheres(g)'
    BY <1>2, <1>4 DEF GrantCoheres, Stored, Receipt, SpecOf, Binding, ProfileOf
  <2>2. AdmittedRow(g.admitted)'
    BY <1>2, <1>4 DEF AdmittedRow, RecordedDecision
  <2>3. ResolveReplayBuild(g.admitted)' /\ CompletedBuild(g.admitted)' = CompletedBuild(g.admitted)
    <3>1. Grows
      BY <1>2 DEF Grows
    <3>2. ResolveReplayBuild(g.admitted) /\ g.admitted \in DOMAIN named
      BY <1>5 DEF VerificationPredecessors, AdmittedRow, AdmissionsHold
    <3> QED
      BY <3>1, <3>2, BuildStays
  <2> QED
    BY <1>2, <1>5, <2>1, <2>2, <2>3 DEF VerificationPredecessors, Receipt
<1>7. GrantLoads(g)'
  BY <1>2, <1>4 DEF GrantLoads, RecordedDecision, AdmittedRow, BuildClaimHolds, Stored
<1> QED
  BY <1>2, <1>6, <1>7 DEF GrantsHold, GrantStands

-----------------------------------------------------------------------------
(* The invariant holds.                                                     *)

\* A grant that stood stands as the stores and the grants grow.
LEMMA GrantsGoOn ==
  ASSUME ReceiptInv, Grows, grants \subseteq grants', NEW g \in grants
  PROVE  GrantStands(g)'
BY GrantStays DEF ReceiptInv, GrantsHold

\* Every step of every run.
LEMMA ReceiptsGoOn == ASSUME ReceiptInv, ReceiptsNext PROVE ReceiptInv'
<1>0. NamedIsListed /\ OperationsHold /\ DecisionsHold /\ AdmissionsHold /\ GrantsHold
  BY DEF ReceiptInv
<1>1. ASSUME Grows, UNCHANGED grants PROVE GrantsHold'
  BY <1>1, GrantsGoOn DEF GrantsHold
<1>2. ASSUME DecisionsHold', decisions \subseteq decisions',
             UNCHANGED <<admitted, grants, operations, named, working>>
      PROVE  ReceiptInv'
  <2>1. Grows
    BY <1>2 DEF Grows
  <2>2. NamedIsListed' /\ OperationsHold' /\ AdmissionsHold'
    <3>1. NamedIsListed'
      BY <1>0, <1>2 DEF NamedIsListed
    <3>2. OperationsHold'
      BY <1>0, <1>2 DEF OperationsHold, HistoryOf
    <3>3. AdmissionsHold'
      BY <1>0, <1>2 DEF AdmissionsHold
    <3> QED
      BY <3>1, <3>2, <3>3
  <2> QED
    BY <1>1, <1>2, <2>1, <2>2 DEF ReceiptInv
<1>3. ASSUME Grows, OperationsHold', NamedIsListed', UNCHANGED <<decisions, admitted, grants>>
      PROVE  ReceiptInv'
  <2>1. DecisionsHold'
    BY <1>0, <1>3 DEF DecisionsHold, RunSpecs, Envelopes
  <2>2. AdmissionsHold'
    BY <1>0, <1>3 DEF AdmissionsHold, Grows
  <2> QED
    BY <1>1, <1>3, <2>1, <2>2 DEF ReceiptInv
<1>4. CASE AnswerStart
  BY <1>0, <1>2, <1>4, StartAnswered DEF AnswerStart
<1>5. CASE \E req \in Requests, d \in decisions : AdmitReplay(req, d)
  <2>1. PICK d \in decisions : \E req \in Requests : AdmitReplay(req, d)
    BY <1>5
  <2>2. PICK req \in Requests : AdmitReplay(req, d)
    BY <2>1
  <2>3. NamedIsListed' /\ AdmissionsHold' /\ OperationsHold' /\ Grows
    BY <1>0, <2>2, AdmissionRecorded
  <2>4. UNCHANGED <<decisions, grants>>
    BY <2>2 DEF AdmitReplay
  <2>5. DecisionsHold'
    BY <1>0, <2>4 DEF DecisionsHold, RunSpecs, Envelopes
  <2> QED
    BY <1>1, <2>3, <2>4, <2>5 DEF ReceiptInv
<1>6. CASE \E key \in DOMAIN operations : Release(key)
  <2>1. PICK key \in DOMAIN operations : Release(key)
    BY <1>6
  <2>2. LedgerGoesOn /\ UNCHANGED <<decisions, admitted, grants, named>>
    BY <1>0, <2>1, ClaimEnds DEF Release
  <2>3. Grows /\ OperationsHold' /\ NamedIsListed'
    BY <1>0, <2>2 DEF LedgerGoesOn, Grows, NamedIsListed
  <2> QED
    BY <1>3, <2>2, <2>3
<1>7. ASSUME NEW r \in {x \in RunNames : IsAdmitted(x)},
             \/ InstallFrameworks(r) \/ Decode(r) \/ ApplyTree(r)
             \/ BuildPatchedApk(r) \/ VerifyFinalApk(r)
             \/ CompleteStage(r) \/ HandBack(r) \/ Die(r) \/ QuarantineStage(r)
             \/ \E out \in ToolOutputs :
                  \/ FrameworksInstalled(r, out) \/ Decoded(r, out) \/ Applied(r, out)
                  \/ Built(r, out) \/ Verified(r, out)
      PROVE  ReceiptInv'
  BY <1>3, <1>7, StageGoesOn
<1>8. ASSUME NEW r \in {x \in RunNames : IsAdmitted(x)}, NEW ticket, NEW who, NEW answer,
             AnswerFinalGate(r, FinalAnswer(r, ticket, who, answer))
      PROVE  ReceiptInv'
  BY <1>0, <1>2, <1>8, FinalAnswered DEF AnswerFinalGate
<1>9. ASSUME NEW r, NEW d, ResolveReplayBuild(AdmissionOf(r)), AdmitGrant(r, d)
      PROVE  ReceiptInv'
  <2>1. grants \subseteq grants' /\ UNCHANGED <<decisions, admitted, operations, named, working>>
    BY <1>9 DEF AdmitGrant
  <2>2. Grows
    BY <2>1 DEF Grows
  <2>3. GrantsHold'
    BY <1>0, <1>9, <2>1, <2>2, GrantsGoOn, GrantAdmitted
  <2>4. NamedIsListed' /\ OperationsHold' /\ AdmissionsHold' /\ DecisionsHold'
    BY <1>0, <2>1 DEF NamedIsListed, OperationsHold, HistoryOf, AdmissionsHold, DecisionsHold,
                      RunSpecs, Envelopes
  <2> QED
    BY <2>3, <2>4 DEF ReceiptInv
<1> QED
  BY <1>4, <1>5, <1>6, <1>7, <1>8, <1>9 DEF ReceiptsNext

\* A step that leaves every variable as it is keeps the invariant.
LEMMA ReceiptsStutter == ASSUME ReceiptInv, UNCHANGED receiptVars PROVE ReceiptInv'
<1>1. Grows /\ UNCHANGED grants
  BY DEF receiptVars, Grows
<1>2. GrantsHold'
  BY <1>1, GrantsGoOn DEF GrantsHold
<1> QED
  BY <1>2 DEF receiptVars, ReceiptInv, NamedIsListed, OperationsHold, HistoryOf, AdmissionsHold,
              DecisionsHold, RunSpecs, Envelopes

-----------------------------------------------------------------------------
(* Consent is honoured.                                                     *)

\* The completed build of an admission, as its ledger row and its receipt have it.
LEMMA BuildFound ==
  ASSUME OperationsHold, NEW a, ResolveReplayBuild(a), NEW b, b = CompletedBuild(a)
  PROVE  /\ BuildKey(a) \in DOMAIN operations /\ operations[BuildKey(a)].status = "completed"
         /\ operations[BuildKey(a)].output = b /\ HistoryOf(operations[BuildKey(a)])
         /\ Stored(b).producer = BuildKey(a) /\ Receipt(b).key = BuildKey(a)
         /\ ExpectedKey(Receipt(b)) = BuildKey(a) /\ Receipt(b).inputs.admitted = a
<1> DEFINE p == CompletedApply(a)
           f == CompletedFramework(a)
<1>1. b = CompletedOutput(BuildKey(a)) /\ b # NoArtifact
      /\ PatchedApkReceiptHolds(b, BuildKey(a), a, p, f)
  BY DEF ResolveReplayBuild, CompletedBuild
<1>2. /\ Stored(b).producer = BuildKey(a) /\ Receipt(b).key = BuildKey(a)
      /\ Receipt(b).inputs = BuildInputs(a, p, f)
  BY <1>1 DEF PatchedApkReceiptHolds
<1>3. BuildKey(a) = Key("replay_build_patched_apk_v1", BuildInputs(a, p, f))
  BY DEF BuildKey, BuildIdentity
<1>4. BuildInputs(a, p, f).admitted = a
  BY DEF BuildInputs
<1>5. /\ BuildKey(a) \in DOMAIN operations /\ operations[BuildKey(a)].status = "completed"
      /\ operations[BuildKey(a)].output = b /\ HistoryOf(operations[BuildKey(a)])
  BY <1>1 DEF CompletedOutput, OperationsHold
<1> QED
  BY <1>2, <1>3, <1>4, <1>5 DEF ExpectedKey

\* An approval of what the completed build asks for makes a grant that coheres.
LEMMA ApprovalCoheres ==
  ASSUME ReceiptInv, NEW a \in admitted, NEW d \in decisions, ResolveReplayBuild(a),
         d.subject = VerificationRequest(a), d.answer = "approve", d.actor = SpecOf(a).actor,
         NEW g, g = Grant(VerificationRequest(a), d, a, CompletedBuild(a))
  PROVE  GrantCoheres(g) /\ RecordedDecision(g.decision) /\ AdmittedRow(g.admitted)
         /\ BuildClaimHolds(g)
<1> DEFINE b == CompletedBuild(a)
           req == VerificationRequest(a)
<1>0. OperationsHold /\ DecisionsHold /\ AdmissionsHold
  BY DEF ReceiptInv
<1>1. /\ g.request = req /\ g.decision = d /\ g.admitted = a /\ g.receipt = Receipt(b)
      /\ req.admitted = a /\ req.run = SpecOf(a).run /\ req.actor = SpecOf(a).actor
      /\ req.build = b /\ req.apk = Receipt(b).apk /\ req.tool = Binding(a, "decode")
  BY DEF Grant, VerificationRequest
<1>2. /\ BuildKey(a) \in DOMAIN operations /\ operations[BuildKey(a)].status = "completed"
      /\ operations[BuildKey(a)].output = b /\ HistoryOf(operations[BuildKey(a)])
      /\ Stored(b).producer = BuildKey(a) /\ Receipt(b).key = BuildKey(a)
      /\ ExpectedKey(Receipt(b)) = BuildKey(a) /\ Receipt(b).inputs.admitted = a
  BY <1>0, BuildFound
<1>3. d.run = req.run /\ d.gate = req.gate
  <2>1. req \notin RunSpecs
    <3>1. "gate" \in DOMAIN req
      BY DEF VerificationRequest
    <3>2. \A spec \in RunSpecs : "gate" \notin DOMAIN spec
      BY DEF RunSpecs
    <3> QED
      BY <3>1, <3>2
  <2> QED
    BY <1>0, <2>1 DEF DecisionsHold
<1> HIDE DEF b, req
<1>4. GrantCoheres(g)
  BY <1>1, <1>2, <1>3 DEF GrantCoheres, req
<1>5. AdmittedRow(a)
  BY <1>0 DEF AdmittedRow, RecordedDecision, AdmissionsHold
<1>6. BuildClaimHolds(g)
  <2>1. /\ g.request.build = b /\ Stored(g.request.build).producer = BuildKey(a)
        /\ ExpectedKey(g.receipt) = BuildKey(a) /\ g.receipt.key = BuildKey(a)
    BY <1>1, <1>2
  <2> QED
    BY <1>2, <2>1 DEF BuildClaimHolds, HistoryOf
<1> QED
  BY <1>1, <1>4, <1>5, <1>6 DEF RecordedDecision

\* A run that has no grant has none for the same decision, admission or build either.
LEMMA ApprovalGrants ==
  ASSUME ReceiptInv, NEW a \in admitted, NEW d \in decisions, ResolveReplayBuild(a),
         d.subject = VerificationRequest(a), d.answer = "approve", d.actor = SpecOf(a).actor,
         \A h \in grants : h.request.run # SpecOf(a).run
  PROVE  MayRecordGrant(Grant(VerificationRequest(a), d, a, CompletedBuild(a)))
<1> DEFINE b == CompletedBuild(a)
<1>1. PICK g : g = Grant(VerificationRequest(a), d, a, b)
  OBVIOUS
<1>2. /\ GrantCoheres(g) /\ RecordedDecision(g.decision) /\ AdmittedRow(g.admitted)
      /\ BuildClaimHolds(g)
  BY <1>1, ApprovalCoheres
<1>3. /\ g.decision = d /\ g.admitted = a /\ g.request = VerificationRequest(a)
      /\ g.request.run = SpecOf(a).run /\ g.receipt = Receipt(b)
  BY <1>1 DEF Grant, VerificationRequest
<1>4. ASSUME NEW h \in grants,
             \/ h.request.run = g.request.run \/ h.decision.id = g.decision.id
             \/ h.admitted = g.admitted
             \/ Stored(h.request.build).producer = Stored(g.request.build).producer
      PROVE  FALSE
  <2>1. GrantCoheres(h) /\ RecordedDecision(h.decision) /\ BuildClaimHolds(h)
    BY DEF ReceiptInv, GrantsHold, GrantStands, GrantLoads
  <2>2. h.request.run # SpecOf(a).run /\ h.request.run = SpecOf(h.admitted).run
    BY <2>1 DEF GrantCoheres
  <2>3. CASE h.decision.id = g.decision.id
    <3>1. h.decision = d
      BY <1>3, <2>1, <2>3 DEF RecordedDecision, ReceiptInv, DecisionsHold
    <3>2. h.request = VerificationRequest(a)
      BY <2>1, <3>1 DEF GrantCoheres
    <3> QED
      BY <1>3, <2>2, <3>2
  <2>4. CASE Stored(h.request.build).producer = Stored(g.request.build).producer
    <3>1. ExpectedKey(h.receipt) = ExpectedKey(g.receipt)
      BY <1>2, <2>1, <2>4 DEF BuildClaimHolds
    <3>2. h.receipt.inputs = g.receipt.inputs
      BY <3>1 DEF ExpectedKey, Key
    <3>3. h.admitted = g.admitted
      BY <1>2, <2>1, <3>2 DEF GrantCoheres
    <3> QED
      BY <1>3, <2>2, <3>3
  <2> QED
    BY <1>3, <1>4, <2>2, <2>3, <2>4
<1> QED
  BY <1>1, <1>2, <1>4 DEF MayRecordGrant

\* Consent is honoured: an approval of the completed build can be made a grant, however
\* many attempts the build took, and a grant on record loads and finds its build for as
\* long as it stands (activities.py, replay_contracts.py, ledger.py), for any runs and profiles.
THEOREM ConsentHonoured == ReceiptsSpec => []ConsentIsHonoured
<1>1. ReceiptsInit => ReceiptInv
  BY ReceiptsStart
<1>2. ReceiptInv /\ [ReceiptsNext]_receiptVars => ReceiptInv'
  BY ReceiptsGoOn, ReceiptsStutter
<1>3. ReceiptInv => ConsentIsHonoured
  <2>1. ASSUME ReceiptInv, NEW g \in grants
        PROVE  GrantLoads(g) /\ VerificationPredecessors(g)
    BY <2>1 DEF ReceiptInv, GrantsHold, GrantStands
  <2> QED
    BY <2>1, ApprovalGrants DEF ConsentIsHonoured
<1> QED
  BY <1>1, <1>2, <1>3, PTL DEF ReceiptsSpec

-----------------------------------------------------------------------------
(*****************************************************************************)
(* WorkspaceReaper: a workspace in use is not removed before its floor.      *)
(*****************************************************************************)

BeforeLeaf == {"idle", "claimed", "keyed", "adopting", "readopting"}

AttemptsWellFormed ==
    /\ DOMAIN attempt = Owners
    /\ \A o \in Owners :
         /\ attempt[o] = [pc |-> attempt[o].pc, key |-> attempt[o].key,
                          since |-> attempt[o].since]
         /\ attempt[o].since \in Nat
         /\ attempt[o].pc # "idle" => attempt[o].key \in Keys

\* A workspace is made once, by its owner.
MadeByItsOwner ==
    /\ day \in Nat
    /\ DOMAIN made \subseteq Leaves
    /\ \A l \in DOMAIN made : /\ made[l] \in Nat
                              /\ attempt[l[2]].pc \notin BeforeLeaf

\* Whoever uses a workspace made it when the attempt says, and has it, or had it for as
\* long as the floor.
UsedWasKept ==
    \A o \in Owners : Using(o) =>
      IF Leaf(attempt[o].key, o) \in DOMAIN made
      THEN made[Leaf(attempt[o].key, o)] = attempt[o].since
      ELSE day - attempt[o].since >= Floor

\* What a survey found had reached the floor at the moment the survey began.
FoundIsOld ==
    /\ {"pc", "moment", "found", "claims", "flags"} = DOMAIN reaper
    /\ reaper.pc # "away" => reaper.moment \in Nat /\ reaper.moment <= day
    /\ reaper.pc # "surveyed" => reaper.found = {}
    /\ \A l \in reaper.found : l \in DOMAIN made /\ reaper.moment - made[l] >= Floor

ReaperInv == AttemptsWellFormed /\ MadeByItsOwner /\ UsedWasKept /\ FoundIsOld

-----------------------------------------------------------------------------
\* No leaf exists at the start.
LEMMA ReaperStarts == ReaperInit => ReaperInv
<1> SUFFICES ASSUME ReaperInit PROVE ReaperInv
  OBVIOUS
<1>1. AttemptsWellFormed /\ UsedWasKept
  BY ReaperAssumption DEF ReaperAssumption, ReaperInit, AttemptsWellFormed, UsedWasKept, Using, NotStarted
<1>2. MadeByItsOwner
  BY DEF ReaperInit, MadeByItsOwner
<1>3. FoundIsOld
  BY DEF ReaperInit, FoundIsOld, Resting
<1> QED
  BY <1>1, <1>2, <1>3 DEF ReaperInv

\* A step of an attempt that neither makes nor enters a workspace.
LEMMA AttemptMovesOn ==
  ASSUME ReaperInv, NEW o \in Owners, NEW to,
         attempt[o].pc # "idle",
         attempt' = [attempt EXCEPT ![o].pc = to],
         to \notin {"working", "validating", "idle"},
         attempt[o].pc \notin BeforeLeaf => to \notin BeforeLeaf,
         UNCHANGED <<day, made, reaper>>
  PROVE  ReaperInv'
  BY DEF ReaperInv, AttemptsWellFormed, MadeByItsOwner, UsedWasKept, FoundIsOld, Using,
         Leaves, Leaf

\* An attempt that begins has no workspace yet.
LEMMA AttemptBegins ==
  ASSUME ReaperInv, NEW o \in Owners, NEW k \in Keys, NEW pc \in {"claimed", "adopting"},
         attempt[o].pc = "idle",
         attempt' = [attempt EXCEPT ![o] = [pc |-> pc, key |-> k, since |-> 0]],
         UNCHANGED <<day, made, reaper>>
  PROVE  ReaperInv'
  BY DEF ReaperInv, AttemptsWellFormed, MadeByItsOwner, UsedWasKept, FoundIsOld, Using,
         Leaves, Leaf, BeforeLeaf

\* The leaf that an owner makes is its own, and new.
LEMMA LeafIsMade ==
  ASSUME ReaperInv, NEW o \in Owners, MakeLeaf(o)
  PROVE  ReaperInv'
<1> DEFINE l == Leaf(attempt[o].key, o)
<1>1. /\ attempt[o].pc \in {"keyed", "readopting"} /\ attempt[o].key \in Keys
      /\ l \in Leaves /\ l \notin DOMAIN made /\ l \notin reaper.found
  BY DEF MakeLeaf, Goes, ReaperInv, AttemptsWellFormed, MadeByItsOwner, FoundIsOld,
         BeforeLeaf, Leaf, Leaves
<1>2. /\ made' = [m \in DOMAIN made \cup {l} |-> IF m = l THEN day ELSE made[m]]
      /\ UNCHANGED <<day, reaper>>
      /\ \E to \in {"working", "validating"} :
           attempt' = [attempt EXCEPT ![o] = [pc |-> to, key |-> attempt[o].key, since |-> day]]
  BY DEF MakeLeaf
<1>3. AttemptsWellFormed' /\ attempt'[o].key = attempt[o].key /\ attempt'[o].since = day
  BY <1>1, <1>2 DEF ReaperInv, AttemptsWellFormed, MadeByItsOwner
<1>4. MadeByItsOwner'
  BY <1>1, <1>2 DEF ReaperInv, AttemptsWellFormed, MadeByItsOwner, BeforeLeaf, Leaves, Leaf
<1>5. UsedWasKept'
  <2>1. ASSUME NEW p \in Owners, p # o
        PROVE  attempt'[p] = attempt[p] /\ Leaf(attempt[p].key, p) # l
    BY <1>2, <2>1 DEF ReaperInv, AttemptsWellFormed, Leaf
  <2>2. \A m : m # l => (m \in DOMAIN made' <=> m \in DOMAIN made) /\ (m \in DOMAIN made => made'[m] = made[m])
    BY <1>2
  <2>3. l \in DOMAIN made' /\ made'[l] = day /\ l = Leaf(attempt'[o].key, o)
    BY <1>2, <1>3
  <2>4. ASSUME NEW p \in Owners, Using(p)'
        PROVE  IF Leaf(attempt'[p].key, p) \in DOMAIN made'
               THEN made'[Leaf(attempt'[p].key, p)] = attempt'[p].since
               ELSE day' - attempt'[p].since >= Floor
    <3>1. CASE p = o
      BY <1>3, <2>3, <3>1
    <3>2. CASE p # o
      BY <1>2, <2>1, <2>2, <2>4, <3>2 DEF ReaperInv, UsedWasKept, Using
    <3> QED
      BY <3>1, <3>2
  <2> QED
    BY <2>4 DEF UsedWasKept, Leaf
<1>6. FoundIsOld'
  BY <1>1, <1>2 DEF ReaperInv, FoundIsOld
<1> QED
  BY <1>3, <1>4, <1>5, <1>6 DEF ReaperInv

\* Days pass, and who had a workspace for as long as the floor had it so long.
LEMMA DayPasses ==
  ASSUME ReaperInv, NewDay
  PROVE  ReaperInv'
<1>1. AttemptsWellFormed' /\ MadeByItsOwner' /\ FoundIsOld'
  BY DEF NewDay, ReaperInv, AttemptsWellFormed, MadeByItsOwner, FoundIsOld
<1>2. /\ UNCHANGED <<attempt, made>> /\ day' = day + 1 /\ day \in Nat /\ Floor \in Nat
      /\ \A o \in Owners : attempt[o].since \in Nat
  BY ReaperAssumption
  DEF NewDay, ReaperInv, AttemptsWellFormed, MadeByItsOwner, ReaperAssumption
<1>3. UsedWasKept'
  BY <1>2 DEF ReaperInv, UsedWasKept, Using, Leaf
<1> QED
  BY <1>1, <1>3 DEF ReaperInv

\* What a walk of the root finds had reached the floor when the survey began.
LEMMA SurveyWalks ==
  ASSUME ReaperInv, WalkRoot
  PROVE  ReaperInv'
<1>1. /\ UNCHANGED <<day, attempt, made>>
      /\ DOMAIN reaper' = DOMAIN reaper
      /\ reaper'.moment = reaper.moment /\ reaper'.pc = "surveyed" /\ reaper.pc = "read"
      /\ reaper'.found = {l \in DOMAIN made : MayReap(reaper.claims, reaper.moment,
                                                      reaper.flags, l[1], l[2])}
  BY DEF WalkRoot, ReaperOnly, ReaperInv, FoundIsOld
<1>2. \A l \in reaper'.found : l \in DOMAIN made /\ reaper.moment - made[l] >= Floor
  <2> SUFFICES ASSUME NEW l \in reaper'.found
               PROVE  l \in DOMAIN made /\ reaper.moment - made[l] >= Floor
    OBVIOUS
  <2>1. l \in DOMAIN made /\ l \in Leaves
    BY <1>1 DEF ReaperInv, MadeByItsOwner
  <2>2. Leaf(l[1], l[2]) = l
    BY <2>1 DEF Leaf, Leaves
  <2> QED
    BY <1>1, <2>1, <2>2 DEF MayReap
<1> QED
  BY <1>1, <1>2
  DEF ReaperInv, AttemptsWellFormed, MadeByItsOwner, UsedWasKept, FoundIsOld, Using

\* The heart of it: who uses a workspace that may be removed had it for the floor.
LEMMA RemovedWasKept ==
  ASSUME ReaperInv, NEW l \in reaper.found, NEW o \in Owners, Using(o),
         Leaf(attempt[o].key, o) = l
  PROVE  day - attempt[o].since >= Floor
<1>1. l \in DOMAIN made /\ reaper.moment - made[l] >= Floor /\ made[l] = attempt[o].since
  BY DEF ReaperInv, FoundIsOld, UsedWasKept
<1>2. /\ reaper.moment \in Nat /\ reaper.moment <= day /\ day \in Nat /\ made[l] \in Nat
      /\ Floor \in Nat
  BY <1>1, ReaperAssumption DEF ReaperInv, FoundIsOld, MadeByItsOwner, ReaperAssumption
<1> QED
  BY <1>1, <1>2

\* A leaf that is removed had reached the floor, and so had its use.
LEMMA LeafIsRemoved ==
  ASSUME ReaperInv, NEW l \in Leaves, RemoveLeaf(l)
  PROVE  ReaperInv'
<1>1. /\ UNCHANGED <<day, attempt>> /\ l \in reaper.found
      /\ made' = [m \in DOMAIN made \ {l} |-> made[m]]
      /\ DOMAIN reaper' = DOMAIN reaper
      /\ reaper'.moment = reaper.moment /\ reaper'.pc = reaper.pc
      /\ reaper'.found = reaper.found \ {l}
  BY DEF RemoveLeaf, ReaperOnly, ReaperInv, FoundIsOld
<1>2. UsedWasKept'
  <2> SUFFICES ASSUME NEW o \in Owners, Using(o)
               PROVE  IF Leaf(attempt[o].key, o) \in DOMAIN made'
                      THEN made'[Leaf(attempt[o].key, o)] = attempt[o].since
                      ELSE day - attempt[o].since >= Floor
    BY <1>1 DEF UsedWasKept, Using, Leaf
  <2>1. CASE Leaf(attempt[o].key, o) = l
    BY <1>1, <2>1, RemovedWasKept
  <2>2. CASE Leaf(attempt[o].key, o) # l
    BY <1>1, <2>2 DEF ReaperInv, UsedWasKept
  <2> QED
    BY <2>1, <2>2
<1> QED
  BY <1>1, <1>2 DEF ReaperInv, AttemptsWellFormed, MadeByItsOwner, FoundIsOld

\* Every step of owners, clock and reaper keeps the invariant.
LEMMA ReaperKeeps == ReaperInv /\ [ReaperNext]_reaperVars => ReaperInv'
<1> SUFFICES ASSUME ReaperInv, [ReaperNext]_reaperVars
             PROVE  ReaperInv'
  OBVIOUS
<1>1. ASSUME NEW o \in Owners, NEW k \in Keys, StageClaims(o, k) \/ StageAdopts(o, k)
      PROVE  ReaperInv'
  BY <1>1, AttemptBegins DEF StageClaims, StageAdopts
<1>2. ASSUME NEW o \in Owners,
             \/ MakeKeyDir(o) \/ StagePublishes(o) \/ StageCompletes(o) \/ StageFails(o)
      PROVE  ReaperInv'
  <2>1. PICK to \in {"keyed", "readopting", "published", "over"} :
          /\ attempt' = [attempt EXCEPT ![o].pc = to]
          /\ attempt[o].pc # "idle"
          /\ attempt[o].pc \notin BeforeLeaf => to \notin BeforeLeaf
    BY <1>2 DEF MakeKeyDir, StagePublishes, StageCompletes, StageFails, Goes, BeforeLeaf
  <2>2. UNCHANGED <<day, made, reaper>>
    BY <1>2 DEF MakeKeyDir, StagePublishes, StageCompletes, StageFails
  <2> QED
    BY <2>1, <2>2, AttemptMovesOn
<1>3. ASSUME NEW k \in Keys, OperatorReleases(k) \/ RemoveKeyDir(k)
      PROVE  ReaperInv'
  BY <1>3 DEF OperatorReleases, RemoveKeyDir, ReaperOnly, ReaperInv, AttemptsWellFormed,
              MadeByItsOwner, UsedWasKept, FoundIsOld, Using
<1>4. ASSUME NEW flags \in SUBSET Flag, ReadClaims(flags)
      PROVE  ReaperInv'
  BY <1>4 DEF ReadClaims, Resting, ReaperOnly, ReaperInv, AttemptsWellFormed, MadeByItsOwner,
              UsedWasKept, FoundIsOld, Using
<1>5. CASE ReaperEnds
  BY <1>5 DEF ReaperEnds, Resting, ReaperOnly, ReaperInv, AttemptsWellFormed, MadeByItsOwner,
              UsedWasKept, FoundIsOld, Using
<1>6. CASE UNCHANGED reaperVars
  BY <1>6 DEF reaperVars, ReaperInv, AttemptsWellFormed, MadeByItsOwner, UsedWasKept,
              FoundIsOld, Using
<1> QED
  BY <1>1, <1>2, <1>3, <1>4, <1>5, <1>6, DayPasses, LeafIsMade, SurveyWalks, LeafIsRemoved
  DEF ReaperNext

\* No workspace disappears under the attempt that uses it before it has reached the age
\* floor (reaper.py, survey and reap), for any number of operations, attempts and
\* surveys, and however long a stage runs.
THEOREM WorkspaceSurvives == ReaperSpec => []LiveWorkspaceSurvives
<1>1. ReaperInv => LiveWorkspaceSurvives
  <2> SUFFICES ASSUME ReaperInv, NEW o \in Owners, Using(o), day - attempt[o].since < Floor
               PROVE  Leaf(attempt[o].key, o) \in DOMAIN made
    BY DEF LiveWorkspaceSurvives
  <2>1. day \in Nat /\ attempt[o].since \in Nat /\ Floor \in Nat
    BY ReaperAssumption DEF ReaperInv, AttemptsWellFormed, MadeByItsOwner, ReaperAssumption
  <2> QED
    BY <2>1 DEF ReaperInv, UsedWasKept
<1> QED
  BY <1>1, ReaperStarts, ReaperKeeps, PTL DEF ReaperSpec

-----------------------------------------------------------------------------
(*****************************************************************************)
(* HookSites: a tree that this pipeline patched is recognised when it is       *)
(* ported again.  First, lines: those that count, and those of a patched text. *)
(*****************************************************************************)

\* How many numbers of a set are not above one of them.
Rank(S, i) == Cardinality({j \in S : j <= i})

\* The numbers of a set come in order, each at its rank.
LEMMA SiteOrder ==
  ASSUME NEW n \in Nat, NEW S \in SUBSET (1..n)
  PROVE  /\ Cardinality(S) \in Nat
         /\ \A p \in 1..Cardinality(S) : InOrder(S)[p] \in S /\ Rank(S, InOrder(S)[p]) = p
         /\ \A k \in S : Rank(S, k) \in 1..Cardinality(S) /\ InOrder(S)[Rank(S, k)] = k
         /\ \A j, k \in S : j < k => Rank(S, j) < Rank(S, k)
<1>0. \A k \in S : k \in Nat
  OBVIOUS
<1>1. IsFiniteSet(1..n)
  BY FS_Interval
<1>2. IsFiniteSet(S) /\ Cardinality(S) \in Nat
  BY <1>1, FS_Subset, FS_CardinalityType
<1>3. ASSUME NEW k \in S
      PROVE  /\ IsFiniteSet({j \in S : j <= k}) /\ Rank(S, k) \in Nat
             /\ Rank(S, k) <= Cardinality(S) /\ Rank(S, k) # 0
  <2>1. /\ IsFiniteSet({j \in S : j <= k})
        /\ Cardinality({j \in S : j <= k}) <= Cardinality(S)
    BY <1>2, FS_Subset
  <2>2. k \in {j \in S : j <= k}
    BY <1>0
  <2>3. Cardinality({j \in S : j <= k}) # 0
    BY <2>1, <2>2, FS_EmptySet
  <2> QED
    BY <2>1, <2>3, FS_CardinalityType DEF Rank
<1>4. ASSUME NEW j \in S, NEW k \in S, j < k PROVE Rank(S, j) < Rank(S, k)
  <2>1. {i \in S : i <= j} \in SUBSET {i \in S : i <= k}
    <3>1. \A i \in S : i <= j => i <= k
      BY <1>0, <1>4
    <3> QED
      BY <3>1
  <2>2. k \in {i \in S : i <= k} /\ k \notin {i \in S : i <= j}
    BY <1>0, <1>4
  <2>3. /\ Cardinality({i \in S : i <= j}) <= Cardinality({i \in S : i <= k})
        /\ Cardinality({i \in S : i <= k}) # Cardinality({i \in S : i <= j})
    BY <2>1, <2>2, <1>3, FS_Subset
  <2> QED
    BY <2>3, <1>3 DEF Rank
<1>11. ASSUME NEW k \in S PROVE Rank(S, k) \in 1..Cardinality(S)
  <2>1. /\ Rank(S, k) \in Nat /\ Rank(S, k) <= Cardinality(S) /\ Rank(S, k) # 0
        /\ Cardinality(S) \in Nat
    BY <1>2, <1>3
  <2> QED
    BY <2>1
<1> DEFINE place == [k \in S |-> Rank(S, k)]
<1>5. place \in Injection(S, 1..Cardinality(S))
  <2>1. \A k \in S : Rank(S, k) \in 1..Cardinality(S)
    BY <1>11
  <2>2. \A j, k \in S : place[j] = place[k] => j = k
    <3> SUFFICES ASSUME NEW j \in S, NEW k \in S, Rank(S, j) = Rank(S, k) PROVE j = k
      OBVIOUS
    <3>1. Rank(S, j) \in Nat
      BY <1>3
    <3>2. ~(j < k)
      BY <1>4, <3>1
    <3>3. ~(k < j)
      BY <1>4, <3>1
    <3> QED
      BY <3>2, <3>3, <1>0
  <2>3. place \in [S -> 1..Cardinality(S)]
    BY <2>1
  <2> HIDE DEF place
  <2> QED
    BY <2>3, <2>2, Fun_IsInj
<1>6. IsFiniteSet(1..Cardinality(S)) /\ Cardinality(1..Cardinality(S)) = Cardinality(S)
  BY <1>2, FS_Interval
<1>7. place \in Surjection(S, 1..Cardinality(S))
  BY <1>5, <1>6, FS_Injection
<1>8. \A p \in 1..Cardinality(S) : \E k \in S : Rank(S, k) = p
  <2> HIDE DEF place
  <2>1. \A p \in 1..Cardinality(S) : \E k \in S : place[k] = p
    BY <1>7, Fun_SurjectionProperties
  <2> QED
    BY <2>1 DEF place
<1>9. \A p \in 1..Cardinality(S) : InOrder(S)[p] \in S /\ Rank(S, InOrder(S)[p]) = p
  BY <1>8 DEF InOrder, Rank
<1>10. ASSUME NEW k \in S PROVE InOrder(S)[Rank(S, k)] = k
  <2>1. Rank(S, k) \in 1..Cardinality(S)
    BY <1>11
  <2>2. InOrder(S)[Rank(S, k)] \in S /\ Rank(S, InOrder(S)[Rank(S, k)]) = Rank(S, k)
    BY <1>9, <2>1
  <2> DEFINE i == InOrder(S)[Rank(S, k)]
  <2>3. i \in S /\ Rank(S, i) = Rank(S, k) /\ Rank(S, k) \in Nat
    BY <2>2, <1>3
  <2> HIDE DEF i
  <2>4. ~(i < k) /\ ~(k < i)
    BY <2>3, <1>4
  <2>5. i = k
    BY <2>3, <2>4, <1>0
  <2> QED
    BY <2>5 DEF i
<1> HIDE DEF place
<1> QED
  BY <1>2, <1>11, <1>4, <1>9, <1>10, Zenon

(* A text with a payload in place of the lines after its a-th and before its b-th. *)
Splice(body, a, payload, b) == SubSeq(body, 1, a) \o payload \o SubSeq(body, b, Len(body))

\* The lines of a text, and those of a text with a payload in it.
LEMMA BodyLines ==
  ASSUME NEW body, IsBody(body)
  PROVE  /\ Len(body) \in Nat /\ DOMAIN body = 1..Len(body)
         /\ \A S : (\A i \in DOMAIN body : body[i] \in S) => body \in Seq(S)
<1>1. body \in Seq({body[i] : i \in DOMAIN body})
  BY DEF IsBody
<1>2. Len(body) \in Nat /\ DOMAIN body = 1..Len(body) /\ body = [i \in 1..Len(body) |-> body[i]]
  BY <1>1
<1> QED
  BY <1>2

\* Joining two texts keeps the lines of each in their order.
LEMMA JoinedLines ==
  ASSUME NEW S, NEW s \in Seq(S), NEW t \in Seq(S)
  PROVE  /\ s \o t \in Seq(S) /\ Len(s \o t) = Len(s) + Len(t)
         /\ \A i \in 1..Len(s) : (s \o t)[i] = s[i]
         /\ \A i \in 1..Len(t) : (s \o t)[Len(s) + i] = t[i]
  OBVIOUS

\* How long a text with a payload in it is, and where each line is in it.
SpliceLines(body, a, payload, b, new) ==
  /\ IsBody(new) /\ Len(new) = a + Len(payload) + Len(body) - b + 1
  /\ \A i \in 1..a : new[i] = body[i]
  /\ \A i \in DOMAIN payload : new[a + i] = payload[i]
  /\ \A i \in b..Len(body) : new[i + (a + Len(payload) + 1 - b)] = body[i]

\* Where each line of a text and of its payload is in the spliced text.
LEMMA SplicedLines ==
  ASSUME NEW body, IsBody(body), NEW payload, IsBody(payload),
         NEW a \in 0..Len(body), NEW b \in 1..(Len(body) + 1), a < b,
         NEW new, new = Splice(body, a, payload, b)
  PROVE  SpliceLines(body, a, payload, b, new)
<1> DEFINE S == {body[i] : i \in DOMAIN body} \cup {payload[i] : i \in DOMAIN payload}
<1>1. body \in Seq(S) /\ payload \in Seq(S)
  BY BodyLines
<1>2. /\ Len(body) \in Nat /\ DOMAIN body = 1..Len(body)
      /\ Len(payload) \in Nat /\ DOMAIN payload = 1..Len(payload)
  BY BodyLines
<1> HIDE DEF S
<1> DEFINE left == SubSeq(body, 1, a)  right == SubSeq(body, b, Len(body))
<1>3. left \in Seq(S) /\ Len(left) = a /\ \A i \in 1..a : left[i] = body[i]
  BY <1>1, <1>2
<1>4. /\ right \in Seq(S) /\ Len(right) = Len(body) - b + 1
      /\ \A i \in 1..(Len(body) - b + 1) : right[i] = body[b + i - 1]
  BY <1>1, <1>2
<1> HIDE DEF left, right
<1> DEFINE start == left \o payload
<1>5. /\ start \in Seq(S) /\ Len(start) = a + Len(payload)
      /\ \A i \in 1..a : start[i] = left[i]
      /\ \A i \in 1..Len(payload) : start[a + i] = payload[i]
  <2>1. left \in Seq(S) /\ payload \in Seq(S)
    BY <1>1, <1>3
  <2>2. /\ start \in Seq(S) /\ Len(start) = Len(left) + Len(payload)
        /\ \A i \in 1..Len(left) : start[i] = left[i]
        /\ \A i \in 1..Len(payload) : start[Len(left) + i] = payload[i]
    BY <2>1, JoinedLines
  <2> HIDE DEF start
  <2> QED
    BY <2>2, <1>3
<1>6. new = start \o right
  BY DEF Splice, left, right
<1> HIDE DEF start
<1>7. /\ new \in Seq(S) /\ Len(new) = Len(start) + Len(right)
      /\ \A i \in 1..Len(start) : new[i] = start[i]
      /\ \A i \in 1..Len(right) : new[Len(start) + i] = right[i]
  <2>1. start \in Seq(S) /\ right \in Seq(S)
    BY <1>4, <1>5
  <2>2. /\ start \o right \in Seq(S) /\ Len(start \o right) = Len(start) + Len(right)
        /\ \A i \in 1..Len(start) : (start \o right)[i] = start[i]
        /\ \A i \in 1..Len(right) : (start \o right)[Len(start) + i] = right[i]
    BY <2>1, JoinedLines
  <2> QED
    BY <2>2, <1>6
<1>8. IsBody(new)
  <2>1. /\ new = [i \in 1..Len(new) |-> new[i]] /\ Len(new) \in Nat
        /\ DOMAIN new = 1..Len(new)
    BY <1>7
  <2> DEFINE T == {new[j] : j \in DOMAIN new}
  <2>2. \A i \in 1..Len(new) : new[i] \in T
    BY <2>1
  <2> HIDE DEF T
  <2>3. new \in Seq(T)
    BY <2>1, <2>2
  <2> QED
    BY <2>3 DEF IsBody, T
<1>9. Len(new) = a + Len(payload) + Len(body) - b + 1
  BY <1>2, <1>4, <1>5, <1>7
<1>10. ASSUME NEW i \in 1..a PROVE new[i] = body[i]
  <2>1. i \in 1..Len(start)
    BY <1>2, <1>5
  <2> QED
    BY <2>1, <1>3, <1>5, <1>7
<1>11. \A i \in DOMAIN payload : new[a + i] = payload[i]
  BY <1>2, <1>5, <1>7
<1>12. ASSUME NEW i \in b..Len(body) PROVE new[i + (a + Len(payload) + 1 - b)] = body[i]
  <2>1. i - b + 1 \in 1..Len(right) /\ b + (i - b + 1) - 1 = i
    BY <1>2, <1>4
  <2>2. Len(start) + (i - b + 1) = i + (a + Len(payload) + 1 - b)
    BY <1>2, <1>5
  <2>3. right[i - b + 1] = body[i]
    BY <2>1, <1>4, <1>2
  <2> QED
    BY <2>1, <2>2, <2>3, <1>7
<1> QED
  BY <1>8, <1>9, <1>10, <1>11, <1>12 DEF SpliceLines

\* A text with a payload in it: each of its lines is one of the text or one of the payload.
Spliced(body, a, payload, b, new) ==
  /\ IsBody(body) /\ IsBody(payload) /\ IsBody(new)
  /\ a \in 0..Len(body) /\ b \in 1..(Len(body) + 1) /\ a < b
  /\ \A i \in DOMAIN body : i <= a => i \in DOMAIN new /\ new[i] = body[i]
  /\ \A i \in DOMAIN payload : a + i \in DOMAIN new /\ new[a + i] = payload[i]
  /\ \A i \in DOMAIN body : b <= i =>
       LET j == i + (a + Len(payload) + 1 - b) IN j \in DOMAIN new /\ new[j] = body[i]
  /\ \A j \in DOMAIN new :
       \/ j \in DOMAIN body /\ j <= a
       \/ \E i \in DOMAIN payload : j = a + i
       \/ \E i \in DOMAIN body : b <= i /\ j = i + (a + Len(payload) + 1 - b)

\* A splice is spliced: it has those lines, and no other.
LEMMA SpliceSplices ==
  ASSUME NEW body, IsBody(body), NEW payload, IsBody(payload),
         NEW a \in 0..Len(body), NEW b \in 1..(Len(body) + 1), a < b
  PROVE  Spliced(body, a, payload, b, Splice(body, a, payload, b))
<1>0. SUFFICES ASSUME NEW new, new = Splice(body, a, payload, b)
               PROVE  Spliced(body, a, payload, b, new)
  OBVIOUS
<1> DEFINE d == a + Len(payload) + 1 - b
<1>1. /\ Len(body) \in Nat /\ DOMAIN body = 1..Len(body)
      /\ Len(payload) \in Nat /\ DOMAIN payload = 1..Len(payload)
  BY BodyLines
<1>2. /\ IsBody(new) /\ Len(new) = a + Len(payload) + Len(body) - b + 1
      /\ \A i \in 1..a : new[i] = body[i]
      /\ \A i \in DOMAIN payload : new[a + i] = payload[i]
      /\ \A i \in b..Len(body) : new[i + (a + Len(payload) + 1 - b)] = body[i]
  <2>1. SpliceLines(body, a, payload, b, new)
    BY <1>0, SplicedLines
  <2> QED
    BY <2>1 DEF SpliceLines
<1>3. DOMAIN new = 1..(a + Len(payload) + Len(body) - b + 1)
  BY <1>2, BodyLines
<1>4. ASSUME NEW i \in DOMAIN body, i <= a PROVE i \in DOMAIN new /\ new[i] = body[i]
  <2>1. i \in 1..a
    BY <1>4, <1>1
  <2>2. i \in DOMAIN new
    BY <2>1, <1>1, <1>3
  <2> QED
    BY <2>1, <2>2, <1>2
<1>5. ASSUME NEW i \in DOMAIN payload PROVE a + i \in DOMAIN new /\ new[a + i] = payload[i]
  <2>1. a + i \in DOMAIN new
    BY <1>1, <1>3
  <2> QED
    BY <2>1, <1>2
<1>6. ASSUME NEW i \in DOMAIN body, b <= i
      PROVE  LET j == i + (a + Len(payload) + 1 - b) IN j \in DOMAIN new /\ new[j] = body[i]
  <2>1. i \in b..Len(body)
    BY <1>6, <1>1
  <2>2. i + (a + Len(payload) + 1 - b) \in DOMAIN new
    BY <2>1, <1>1, <1>3
  <2> QED
    BY <2>1, <2>2, <1>2
<1>7. ASSUME NEW j \in DOMAIN new
      PROVE  \/ j \in DOMAIN body /\ j <= a
             \/ \E i \in DOMAIN payload : j = a + i
             \/ \E i \in DOMAIN body : b <= i /\ j = i + (a + Len(payload) + 1 - b)
  <2>1. CASE j <= a
    BY <2>1, <1>1, <1>3
  <2>2. CASE a < j /\ j <= a + Len(payload)
    <3>1. j - a \in DOMAIN payload /\ j = a + (j - a)
      BY <2>2, <1>1, <1>3
    <3> QED
      BY <3>1
  <2>3. CASE a + Len(payload) < j
    <3> DEFINE i == j - (a + Len(payload) + 1 - b)
    <3>1. i \in DOMAIN body /\ b <= i /\ j = i + (a + Len(payload) + 1 - b)
      BY <2>3, <1>1, <1>3
    <3> HIDE DEF i
    <3> QED
      BY <3>1
  <2> QED
    BY <2>1, <2>2, <2>3, <1>1, <1>3
<1> QED
  BY <1>2, <1>4, <1>5, <1>6, <1>7 DEF Spliced

\* There are finitely many lines that are an instance of an op.
LEMMA LinesAreFinite ==
  ASSUME NEW body, IsBody(body), NEW op
  PROVE  IsFiniteSet(LinesOf(op, body)) /\ LinesOf(op, body) \in SUBSET (1..Len(body))
<1>1. Len(body) \in Nat /\ LinesOf(op, body) \in SUBSET (1..Len(body))
  BY BodyLines DEF LinesOf
<1>2. IsFiniteSet(1..Len(body))
  BY <1>1, FS_Interval
<1> QED
  BY <1>1, <1>2, FS_Subset

\* An op that the payload does not bring and that is not cut out is there as often.
LEMMA SplicedKeepsCount ==
  ASSUME NEW body, NEW a, NEW payload, NEW b, NEW new, Spliced(body, a, payload, b, new),
         NEW op, LinesOf(op, payload) = {}, \A i \in LinesOf(op, body) : i <= a \/ b <= i
  PROVE  Cardinality(LinesOf(op, new)) = Cardinality(LinesOf(op, body))
<1> DEFINE d == a + Len(payload) + 1 - b
           moved == [i \in LinesOf(op, body) |-> IF i <= a THEN i ELSE i + d]
<1>1. /\ Len(body) \in Nat /\ DOMAIN body = 1..Len(body)
      /\ Len(payload) \in Nat /\ DOMAIN payload = 1..Len(payload)
      /\ a \in Nat /\ b \in Nat /\ a < b
  BY BodyLines DEF Spliced
<1>2. d \in Int /\ (\A i \in Nat : b <= i => a < i + d)
  BY <1>1
<1>3. ASSUME NEW i \in LinesOf(op, body)
      PROVE  moved[i] \in LinesOf(op, new) /\ i \in Nat
  <2>1. i \in DOMAIN body /\ body[i].op = op /\ i \in Nat
    BY <1>1 DEF LinesOf
  <2>2. CASE i <= a
    BY <2>1, <2>2 DEF Spliced, LinesOf
  <2>3. CASE b <= i
    <3>1. i + d \in DOMAIN new /\ new[i + d] = body[i] /\ ~(i <= a)
      BY <2>1, <2>3, <1>1 DEF Spliced
    <3> HIDE DEF d
    <3> QED
      BY <3>1, <2>1 DEF LinesOf
  <2> QED
    BY <2>1, <2>2, <2>3
<1> HIDE DEF d
<1>4. \A i, j \in LinesOf(op, body) : moved[i] = moved[j] => i = j
  <2> SUFFICES ASSUME NEW i \in LinesOf(op, body), NEW j \in LinesOf(op, body),
                      moved[i] = moved[j]
               PROVE  i = j
    OBVIOUS
  <2>1. i \in Nat /\ j \in Nat
    BY <1>3
  <2>2. (i <= a \/ b <= i) /\ (j <= a \/ b <= j)
    OBVIOUS
  <2> QED
    BY <2>1, <2>2, <1>1, <1>2
<1>5. \A j \in LinesOf(op, new) : \E i \in LinesOf(op, body) : moved[i] = j
  <2> TAKE j \in LinesOf(op, new)
  <2>1. j \in DOMAIN new /\ new[j].op = op
    BY DEF LinesOf
  <2>2. CASE j \in DOMAIN body /\ j <= a
    <3>1. j \in LinesOf(op, body)
      BY <2>1, <2>2 DEF Spliced, LinesOf
    <3> QED
      BY <3>1, <2>2
  <2>3. ASSUME NEW i \in DOMAIN payload, j = a + i PROVE FALSE
    <3>1. new[a + i] = payload[i]
      BY DEF Spliced
    <3> QED
      BY <3>1, <2>1, <2>3 DEF LinesOf
  <2>4. ASSUME NEW i \in DOMAIN body, b <= i, j = i + d
        PROVE  \E k \in LinesOf(op, body) : moved[k] = j
    <3>1. new[i + d] = body[i] /\ ~(i <= a)
      BY <2>4, <1>1 DEF Spliced, d
    <3>2. i \in LinesOf(op, body)
      BY <3>1, <2>1, <2>4 DEF LinesOf
    <3> QED
      BY <3>1, <3>2, <2>4
  <2>5. \/ j \in DOMAIN body /\ j <= a
        \/ \E i \in DOMAIN payload : j = a + i
        \/ \E i \in DOMAIN body : b <= i /\ j = i + d
    BY <2>1 DEF Spliced, d
  <2> HIDE DEF moved
  <2> QED
    BY <2>2, <2>3, <2>4, <2>5
<1>6. moved \in [LinesOf(op, body) -> LinesOf(op, new)]
  <2>1. DOMAIN moved = LinesOf(op, body) /\ moved = [i \in LinesOf(op, body) |-> moved[i]]
    OBVIOUS
  <2> HIDE DEF moved
  <2> QED
    BY <2>1, <1>3
<1> HIDE DEF moved
<1>7. moved \in Bijection(LinesOf(op, body), LinesOf(op, new))
  BY <1>4, <1>5, <1>6, Fun_IsBij
<1>8. IsFiniteSet(LinesOf(op, body))
  BY LinesAreFinite DEF Spliced
<1> QED
  BY <1>7, <1>8, FS_Bijection DEF ExistsBijection

\* An op that the text does not have is there as often as in the payload.
LEMMA SplicedBringsCount ==
  ASSUME NEW body, NEW a, NEW payload, NEW b, NEW new, Spliced(body, a, payload, b, new),
         NEW op, LinesOf(op, body) = {}
  PROVE  Cardinality(LinesOf(op, new)) = Cardinality(LinesOf(op, payload))
<1> DEFINE moved == [i \in LinesOf(op, payload) |-> a + i]
<1>1. /\ Len(payload) \in Nat /\ DOMAIN payload = 1..Len(payload) /\ a \in Nat
  BY BodyLines DEF Spliced
<1>2. ASSUME NEW i \in LinesOf(op, payload)
      PROVE  moved[i] \in LinesOf(op, new) /\ i \in Nat
  BY <1>1 DEF LinesOf, Spliced
<1>3. \A i, j \in LinesOf(op, payload) : moved[i] = moved[j] => i = j
  BY <1>1, <1>2
<1>4. \A j \in LinesOf(op, new) : \E i \in LinesOf(op, payload) : moved[i] = j
  <2> TAKE j \in LinesOf(op, new)
  <2>1. j \in DOMAIN new /\ new[j].op = op
    BY DEF LinesOf
  <2>2. ~(j \in DOMAIN body /\ j <= a)
    BY <2>1 DEF Spliced, LinesOf
  <2>3. ASSUME NEW i \in DOMAIN body, b <= i, j = i + (a + Len(payload) + 1 - b) PROVE FALSE
    BY <2>1, <2>3 DEF Spliced, LinesOf
  <2>4. PICK i \in DOMAIN payload : j = a + i
    BY <2>1, <2>2, <2>3 DEF Spliced
  <2>5. i \in LinesOf(op, payload)
    BY <2>1, <2>4 DEF Spliced, LinesOf
  <2> QED
    BY <2>4, <2>5
<1>5. moved \in [LinesOf(op, payload) -> LinesOf(op, new)]
  <2>1. DOMAIN moved = LinesOf(op, payload) /\ moved = [i \in LinesOf(op, payload) |-> moved[i]]
    OBVIOUS
  <2> HIDE DEF moved
  <2> QED
    BY <2>1, <1>2
<1> HIDE DEF moved
<1>6. moved \in Bijection(LinesOf(op, payload), LinesOf(op, new))
  BY <1>3, <1>4, <1>5, Fun_IsBij
<1>7. IsFiniteSet(LinesOf(op, payload))
  BY LinesAreFinite DEF Spliced
<1> QED
  BY <1>6, <1>7, FS_Bijection DEF ExistsBijection

\* The lines that count from the first to the last of a window are the window's.
Framed(body, first, last, window) ==
  /\ first \in Counting(body) /\ last \in Counting(body) /\ first <= last
  /\ \A k \in Counting(body) :
       first <= k /\ k <= last => \E p \in DOMAIN window : window[p] = body[k]

\* A window is all that counts from its first line to its last.
LEMMA WindowFrames ==
  ASSUME NEW body, IsBody(body), NEW width \in Nat \ {0}, NEW s \in Starts(body, width)
  PROVE  Framed(body, Significant(body)[s], Significant(body)[s + width - 1],
                Window(body, s, width))
<1> DEFINE S == Counting(body)  C == Cardinality(Counting(body))
<1>1. Len(body) \in Nat /\ S \in SUBSET (1..Len(body))
  BY BodyLines DEF Counting
<1>2. /\ C \in Nat
      /\ \A p \in 1..C : InOrder(S)[p] \in S /\ Rank(S, InOrder(S)[p]) = p
      /\ \A k \in S : Rank(S, k) \in 1..C /\ InOrder(S)[Rank(S, k)] = k
      /\ \A j, k \in S : j < k => Rank(S, j) < Rank(S, k)
  BY <1>1, SiteOrder
<1>3. Significant(body) = InOrder(S) /\ DOMAIN InOrder(S) = 1..C
  BY DEF Significant, InOrder
<1>4. Len(InOrder(S)) = C
  BY <1>2, <1>3
<1>5. s \in 1..(C - width + 1)
  BY <1>3, <1>4 DEF Starts
<1>6. s \in 1..C /\ s + width - 1 \in 1..C
  BY <1>5, <1>2
<1> DEFINE first == Significant(body)[s]  last == Significant(body)[s + width - 1]
<1>7. first \in S /\ last \in S /\ Rank(S, first) = s /\ Rank(S, last) = s + width - 1
  BY <1>2, <1>3, <1>6
<1>8. \A k \in S : k \in Nat
  BY <1>1
<1> HIDE DEF first, last, S, C
<1>9. ~(last < first)
  BY <1>2, <1>5, <1>7
<1>10. first <= last
  BY <1>7, <1>8, <1>9
<1>11. ASSUME NEW k \in S, first <= k, k <= last
       PROVE  \E p \in DOMAIN Window(body, s, width) : Window(body, s, width)[p] = body[k]
  <2>1. Rank(S, k) \in Nat /\ s \in Nat
    BY <1>2, <1>5
  <2>2. s <= Rank(S, k) /\ Rank(S, k) <= s + width - 1
    <3>1. first = k \/ first < k
      BY <1>7, <1>8, <1>11
    <3>2. k = last \/ k < last
      BY <1>7, <1>8, <1>11
    <3>3. s <= Rank(S, k)
      BY <3>1, <1>2, <1>7, <2>1
    <3>4. Rank(S, k) <= s + width - 1
      BY <3>2, <1>2, <1>7, <2>1
    <3> QED
      BY <3>3, <3>4
  <2> DEFINE p == Rank(S, k) - s + 1
  <2>3. p \in 1..width /\ s + p - 1 = Rank(S, k)
    BY <2>1, <2>2
  <2>4. Significant(body)[s + p - 1] = k
    BY <2>3, <1>2, <1>3
  <2> HIDE DEF p
  <2>5. p \in DOMAIN Window(body, s, width) /\ Window(body, s, width)[p] = body[k]
    BY <2>3, <2>4 DEF Window
  <2> QED
    BY <2>5
<1> QED
  BY <1>7, <1>10, <1>11 DEF Framed, first, last, S

\* What a window shows is a line of the text.
LEMMA SignificantLines ==
  ASSUME NEW body, IsBody(body), NEW width \in Nat \ {0}, NEW s \in Starts(body, width),
         NEW p \in 1..width
  PROVE  Significant(body)[s + p - 1] \in DOMAIN body
<1> DEFINE S == Counting(body)  C == Cardinality(Counting(body))
<1>1. Len(body) \in Nat /\ S \in SUBSET (1..Len(body)) /\ S \subseteq DOMAIN body
  BY BodyLines DEF Counting
<1>2. C \in Nat /\ \A q \in 1..C : InOrder(S)[q] \in S
  BY <1>1, SiteOrder
<1>3. Significant(body) = InOrder(S) /\ DOMAIN InOrder(S) = 1..C
  BY DEF Significant, InOrder
<1>4. Len(InOrder(S)) = C
  BY <1>2, <1>3
<1>5. s \in 1..(C - width + 1)
  BY <1>3, <1>4 DEF Starts
<1>6. s + p - 1 \in 1..C
  BY <1>5, <1>2
<1> QED
  BY <1>1, <1>2, <1>3, <1>6

\* What a patch cuts: it puts its payload after the last line of a place, or in place of it.
Cut(body, a, b, first, last, mode) ==
  /\ b = last + 1
  /\ mode = "replace" => a = first - 1
  /\ mode # "replace" => a = last

\* A patch splices its payload in after a place of its anchor, or instead of it.
LEMMA PatchSplices ==
  ASSUME NEW body, IsBody(body), NEW operation, IsBody(operation.payload),
         Len(operation.anchor) \in Nat \ {0}, Places(body, operation.anchor) # {}
  PROVE  \E a, b, first, last :
           /\ Spliced(body, a, operation.payload, b, Patched(body, operation))
           /\ Framed(body, first, last, operation.anchor)
           /\ Cut(body, a, b, first, last, operation.mode)
<1> DEFINE s == CHOOSE p \in Places(body, operation.anchor) : TRUE
           first == Significant(body)[s]
           last  == Significant(body)[s + Len(operation.anchor) - 1]
           a == IF operation.mode = "replace" THEN first - 1 ELSE last
<1>1. s \in Places(body, operation.anchor)
  OBVIOUS
<1>2. /\ s \in Starts(body, Len(operation.anchor))
      /\ Window(body, s, Len(operation.anchor)) = operation.anchor
  BY <1>1 DEF Places
<1> HIDE DEF s
<1>3. Framed(body, first, last, operation.anchor)
  BY <1>2, WindowFrames
<1>4. Patched(body, operation) = Splice(body, a, operation.payload, last + 1)
  BY DEF Patched, Splice, s
<1> HIDE DEF first, last
<1>5. Len(body) \in Nat /\ first \in 1..Len(body) /\ last \in 1..Len(body) /\ first <= last
  BY <1>3, BodyLines DEF Framed, Counting
<1>6. a \in 0..Len(body) /\ last + 1 \in 1..(Len(body) + 1) /\ a < last + 1
  BY <1>5
<1>7. Cut(body, a, last + 1, first, last, operation.mode)
  BY DEF Cut
<1> HIDE DEF a
<1>8. Spliced(body, a, operation.payload, last + 1, Patched(body, operation))
  BY <1>4, <1>6, SpliceSplices
<1> QED
  BY <1>3, <1>7, <1>8

\* A patch cuts out no marker of a fenced text and puts nothing between a marker and its
\* fence; so the patched text is fenced again.
LEMMA MarkersAreNotCut ==
  ASSUME NEW body, IsBody(body), Fenced(body), NEW a, NEW b, NEW first, NEW last, NEW window,
         NEW mode, Framed(body, first, last, window), Cut(body, a, b, first, last, mode),
         \A p \in DOMAIN window : Asked(window[p].op) /\ window[p].op \notin Markers,
         NEW m \in DOMAIN body, body[m].op \in Markers
  PROVE  /\ m <= a \/ b <= m
         /\ \E g \in Counting(body) :
              /\ ~Asked(body[g].op) /\ (g <= a \/ b <= g) /\ (g <= a <=> m <= a)
              /\ \A k \in Counting(body) : ~(m < k /\ k < g) /\ ~(g < k /\ k < m)
<1>1. PICK g \in Counting(body) :
        /\ ~Asked(body[g].op)
        /\ \A k \in Counting(body) : ~(m < k /\ k < g) /\ ~(g < k /\ k < m)
  BY DEF Fenced
<1>2. /\ first \in Nat /\ last \in Nat /\ m \in Nat /\ g \in Nat /\ first <= last
      /\ first \in Counting(body) /\ last \in Counting(body)
  <2>1. DOMAIN body \subseteq Nat
    BY BodyLines
  <2> QED
    BY <2>1 DEF Framed, Counting
<1>3. ~(first <= g /\ g <= last)
  BY <1>1 DEF Framed
<1>4. m # first /\ m # last
  BY <1>2 DEF Framed
<1>5. /\ ~(m < first /\ first < g) /\ ~(g < first /\ first < m)
      /\ ~(m < last /\ last < g) /\ ~(g < last /\ last < m)
  BY <1>1, <1>2
<1>6. \/ m < first /\ g < first
      \/ last < m /\ last < g
  BY <1>2, <1>3, <1>4, <1>5
<1>7. b = last + 1 /\ (a = first - 1 \/ a = last)
  BY DEF Cut
<1>8. (m <= a \/ b <= m) /\ (g <= a \/ b <= g) /\ (g <= a <=> m <= a)
  BY <1>2, <1>6, <1>7
<1> QED
  BY <1>1, <1>8

\* A fenced text is fenced still when a fenced payload is patched into it.
LEMMA FencedStays ==
  ASSUME NEW body, Fenced(body), NEW a, NEW b, NEW first, NEW last, NEW window, NEW payload,
         NEW mode, NEW new, Framed(body, first, last, window), Fenced(payload),
         Cut(body, a, b, first, last, mode), Spliced(body, a, payload, b, new),
         \A p \in DOMAIN window : Asked(window[p].op) /\ window[p].op \notin Markers
  PROVE  Fenced(new)
<1> DEFINE d == a + Len(payload) + 1 - b
           To(i) == IF i <= a THEN i ELSE i + d
<1>1. /\ Len(body) \in Nat /\ DOMAIN body = 1..Len(body)
      /\ Len(payload) \in Nat /\ DOMAIN payload = 1..Len(payload)
      /\ a \in Nat /\ b \in Nat /\ a < b /\ IsBody(body)
  BY BodyLines DEF Spliced
<1>2. /\ DOMAIN new \subseteq Nat /\ DOMAIN body \subseteq Nat /\ DOMAIN payload \subseteq Nat
      /\ d \in Int
  <2>1. IsBody(new)
    BY DEF Spliced
  <2> QED
    BY <1>1, <2>1, BodyLines
<1>3. ASSUME NEW i \in DOMAIN body, i <= a \/ b <= i
      PROVE  To(i) \in DOMAIN new /\ new[To(i)] = body[i]
  <2>1. i \in Nat
    BY <1>1
  <2>2. CASE i <= a
    BY <2>2 DEF Spliced
  <2>3. CASE b <= i
    <3>1. ~(i <= a)
      BY <2>1, <2>3, <1>1
    <3>2. i + d \in DOMAIN new /\ new[i + d] = body[i]
      BY <2>3 DEF Spliced
    <3> QED
      BY <3>1, <3>2
  <2> QED
    BY <1>3, <2>2, <2>3
<1>4. \A j \in DOMAIN new :
       \/ \E i \in DOMAIN payload : j = a + i
       \/ \E i \in DOMAIN body : (i <= a \/ b <= i) /\ j = To(i)
  <2> TAKE j \in DOMAIN new
  <2>1. \/ j \in DOMAIN body /\ j <= a
        \/ \E i \in DOMAIN payload : j = a + i
        \/ \E i \in DOMAIN body : b <= i /\ j = i + d
    BY DEF Spliced
  <2>2. \A i \in DOMAIN body : b <= i => To(i) = i + d
    BY <1>1
  <2> QED
    BY <2>1, <2>2
<1>5. \A i \in DOMAIN payload : a + i \in DOMAIN new /\ new[a + i] = payload[i]
  BY DEF Spliced
<1>6. \A i \in DOMAIN body : (i <= a => To(i) <= a) /\ (b <= i => a + Len(payload) < To(i))
  BY <1>1
<1>7. \A i, k \in DOMAIN body : (i <= a \/ b <= i) /\ (k <= a \/ b <= k) => (To(i) < To(k) <=> i < k)
  BY <1>1
<1>8. \A i \in DOMAIN body : To(i) \in Int
  BY <1>1, <1>2
<1> SUFFICES ASSUME NEW j \in DOMAIN new, new[j].op \in Markers
             PROVE  \E g \in Counting(new) :
                      /\ ~Asked(new[g].op)
                      /\ \A k \in Counting(new) : ~(j < k /\ k < g) /\ ~(g < k /\ k < j)
  BY DEF Fenced
<1> HIDE DEF d, To
<1>9. ASSUME NEW m \in DOMAIN payload, j = a + m
      PROVE  \E g \in Counting(new) :
               /\ ~Asked(new[g].op)
               /\ \A k \in Counting(new) : ~(j < k /\ k < g) /\ ~(g < k /\ k < j)
  <2>1. payload[m].op \in Markers
    BY <1>5, <1>9
  <2>2. PICK g \in Counting(payload) :
          /\ ~Asked(payload[g].op)
          /\ \A k \in Counting(payload) : ~(m < k /\ k < g) /\ ~(g < k /\ k < m)
    BY <2>1 DEF Fenced
  <2>3. a + g \in Counting(new) /\ ~Asked(new[a + g].op) /\ g \in DOMAIN payload
    BY <2>2, <1>5 DEF Counting
  <2>4. ASSUME NEW k \in Counting(new) PROVE ~(j < k /\ k < a + g) /\ ~(a + g < k /\ k < j)
    <3>1. k \in DOMAIN new /\ new[k].op \notin Ignored
      BY DEF Counting
    <3>2. CASE \E i \in DOMAIN payload : k = a + i
      <4>1. PICK i \in DOMAIN payload : k = a + i
        BY <3>2
      <4>2. i \in Counting(payload)
        BY <4>1, <3>1, <1>5 DEF Counting
      <4>3. ~(m < i /\ i < g) /\ ~(g < i /\ i < m)
        BY <4>2, <2>2
      <4> QED
        BY <4>1, <4>3, <1>1, <1>9, <2>3
    <3>3. CASE \E i \in DOMAIN body : (i <= a \/ b <= i) /\ k = To(i)
      <4>1. k \in Int /\ (k <= a \/ a + Len(payload) < k)
        BY <3>3, <1>6, <1>8
      <4> QED
        BY <4>1, <1>1, <1>9, <2>3
    <3> QED
      BY <3>1, <3>2, <3>3, <1>4
  <2> QED
    BY <2>3, <2>4
<1>10. ASSUME NEW m \in DOMAIN body, m <= a \/ b <= m, j = To(m)
       PROVE  \E g \in Counting(new) :
                /\ ~Asked(new[g].op)
                /\ \A k \in Counting(new) : ~(j < k /\ k < g) /\ ~(g < k /\ k < j)
  <2>1. body[m].op \in Markers
    BY <1>3, <1>10
  <2>2. PICK g \in Counting(body) :
          /\ ~Asked(body[g].op) /\ (g <= a \/ b <= g) /\ (g <= a <=> m <= a)
          /\ \A k \in Counting(body) : ~(m < k /\ k < g) /\ ~(g < k /\ k < m)
    BY <2>1, <1>1, MarkersAreNotCut
  <2>3. To(g) \in Counting(new) /\ ~Asked(new[To(g)].op) /\ g \in DOMAIN body
    BY <2>2, <1>3 DEF Counting
  <2>4. ASSUME NEW k \in Counting(new) PROVE ~(j < k /\ k < To(g)) /\ ~(To(g) < k /\ k < j)
    <3>1. k \in DOMAIN new /\ new[k].op \notin Ignored
      BY DEF Counting
    <3>2. CASE \E i \in DOMAIN payload : k = a + i
      <4>1. k \in Nat /\ a < k /\ k <= a + Len(payload)
        BY <3>2, <1>1
      <4>2. \/ j <= a /\ To(g) <= a
            \/ a + Len(payload) < j /\ a + Len(payload) < To(g)
        BY <2>2, <2>3, <1>6, <1>10, <1>1
      <4> QED
        BY <4>1, <4>2, <1>1, <1>8, <1>10, <2>3
    <3>3. CASE \E i \in DOMAIN body : (i <= a \/ b <= i) /\ k = To(i)
      <4>1. PICK i \in DOMAIN body : (i <= a \/ b <= i) /\ k = To(i)
        BY <3>3
      <4>2. i \in Counting(body)
        BY <4>1, <3>1, <1>3 DEF Counting
      <4>3. ~(m < i /\ i < g) /\ ~(g < i /\ i < m)
        BY <4>2, <2>2
      <4> QED
        BY <4>1, <4>3, <1>7, <1>10, <2>2, <2>3
    <3> QED
      BY <3>1, <3>2, <3>3, <1>4
  <2> QED
    BY <2>3, <2>4
<1> QED
  BY <1>4, <1>9, <1>10

\* A literal that counts is still there after a patch that puts it back.
LEMMA LiteralStays ==
  ASSUME NEW body, NEW a, NEW b, NEW first, NEW last, NEW window, NEW payload,
         NEW mode, NEW new, Framed(body, first, last, window),
         Cut(body, a, b, first, last, mode), Spliced(body, a, payload, b, new),
         NEW l, l \notin Ignored, LinesOf(l, body) # {},
         mode = "replace" => (LinesOf(l, window) # {} => LinesOf(l, payload) # {})
  PROVE  LinesOf(l, new) # {}
<1>1. PICK i \in DOMAIN body : body[i].op = l
  BY DEF LinesOf
<1>2. /\ DOMAIN body \subseteq Nat /\ first \in Nat /\ last \in Nat
  <2>1. DOMAIN body \subseteq Nat
    BY BodyLines DEF Spliced
  <2> QED
    BY <2>1 DEF Framed, Counting
<1>3. CASE i <= a
  BY <1>1, <1>3 DEF Spliced, LinesOf
<1>4. CASE b <= i
  BY <1>1, <1>4 DEF Spliced, LinesOf
<1>5. CASE ~(i <= a) /\ ~(b <= i)
  <2>1. mode = "replace" /\ first <= i /\ i <= last
    BY <1>2, <1>5 DEF Cut
  <2>2. i \in Counting(body)
    BY <1>1 DEF Counting
  <2>3. LinesOf(l, window) # {}
    BY <1>1, <2>1, <2>2 DEF Framed, LinesOf
  <2>4. PICK k \in DOMAIN payload : payload[k].op = l
    BY <2>1, <2>3 DEF LinesOf
  <2> QED
    BY <2>4 DEF Spliced, LinesOf
<1> QED
  BY <1>3, <1>4, <1>5

(*****************************************************************************)
(* What the resolve stage reports of a hook.                                 *)
(*****************************************************************************)

SitesAreHosts == \A h \in HookIds : proposed[h] \subseteq Hosts(decode)

\* What the loader of the manifest demands, hook by hook.
LEMMA ManifestIsLoaded ==
  /\ HookIds \subseteq Nat /\ HookIds = 1..Len(SiteHooks) /\ Len(SiteHooks) \in Nat
  /\ \A h \in HookIds :
       /\ SiteHooks[h].expected \in Nat \ {0}
       /\ \A i \in DOMAIN SiteHooks[h].hosts :
            SiteHooks[h].hosts[i].kind \in {"named", "by_literal", "by_agent", "by_anchor"}
       /\ \A form \in FormsOf(h) : FormLoads(form, SiteHooks[h])
  /\ \A g, h \in HookIds : SiteHooks[g].marker = SiteHooks[h].marker => g = h
<1>1. ManifestLoads
  BY SitesAssumption DEF SitesAssumption
<1>2. IsBody(SiteHooks)
  BY <1>1 DEF ManifestLoads
<1>3. Len(SiteHooks) \in Nat /\ DOMAIN SiteHooks = 1..Len(SiteHooks)
  BY <1>2, BodyLines
<1> QED
  BY <1>1, <1>3 DEF ManifestLoads, HookIds, FormsOf

\* A fingerprint finds classes of the decode only.
LEMMA SearchFindsHosts ==
  ASSUME NEW h \in HookIds, SitesAreHosts, NEW i \in DOMAIN SiteHooks[h].hosts
  PROVE  Search(h, SiteHooks[h].hosts[i]) \subseteq Hosts(decode)
<1>1. SiteHooks[h].hosts[i].kind \in {"named", "by_literal", "by_agent", "by_anchor"}
  BY ManifestIsLoaded
<1> DEFINE k == SiteHooks[h].hosts[i]
<1>2. CASE k.kind = "named"
  BY <1>2 DEF Search
<1>3. CASE k.kind = "by_literal"
  BY <1>3 DEF Search
<1>4. CASE k.kind = "by_anchor"
  BY <1>4 DEF Search, AnchorScan
<1>5. CASE k.kind = "by_agent"
  BY <1>5 DEF Search, SitesAreHosts
<1> QED
  BY <1>1, <1>2, <1>3, <1>4, <1>5

\* So do the fingerprints of a hook together.
LEMMA HostsAreOfTheDecode ==
  ASSUME NEW h \in HookIds, SitesAreHosts
  PROVE  HostsOf(h) \subseteq Hosts(decode)
BY SearchFindsHosts DEF HostsOf

\* A body that a hook has a site in carries none of its markers, and one of the hook's forms
\* matches it.
LEMMA SiteIsMatched ==
  ASSUME NEW hook, NEW body, hook.expected \in Nat \ {0},
         InSource(hook, body) \in {"site", "awaiting"}
  PROVE  /\ Marked(hook, body) = 0
         /\ FormsHit(hook, body) # {}
<1>1. Marked(hook, body) # hook.expected /\ Marked(hook, body) \in {0, hook.expected}
  BY DEF InSource
<1>2. Marked(hook, body) = 0 /\ 0 # hook.expected
  BY <1>1
<1>3. Cardinality(FormsHit(hook, body)) = 1
  BY <1>2 DEF InSource
<1> QED
  BY <1>2, <1>3, FS_EmptySet

\* The operation of a hook is one of its forms, with the text it was matched on.
OfForm(operation, form) ==
  /\ operation.mode = form.mode
  /\ IsBody(operation.payload) /\ DOMAIN operation.payload = DOMAIN form.payload
  /\ \A i \in DOMAIN form.payload : operation.payload[i].op = form.payload[i].op
  /\ Len(operation.anchor) \in Nat \ {0} /\ DOMAIN operation.anchor = DOMAIN form.anchor
  /\ \A i \in DOMAIN form.anchor : operation.anchor[i].op = form.anchor[i].op

Matched(operation, h, body) ==
  \E form \in FormsOf(h) :
    /\ OfForm(operation, form)
    /\ \A p \in DOMAIN form.anchor : \E k \in DOMAIN body : body[k].op = form.anchor[p].op

\* An operation takes the form that matched, and its anchor is text of the class.
LEMMA OperationIsOfForm ==
  ASSUME NEW h \in HookIds, NEW c, NEW value, IsBody(decode[c]),
         InSource(SiteHooks[h], decode[c]) \in {"site", "awaiting"}
  PROVE  /\ Operation(h, c, value).class = c
         /\ Matched(Operation(h, c, value), h, decode[c])
<1> DEFINE hook == SiteHooks[h]  body == decode[c]
           f == CHOOSE g \in FormsHit(hook, body) : TRUE
           form == hook.forms[f]
           s == CHOOSE p \in Hits(form, body) : TRUE
           width == Len(form.anchor)
           window == Window(body, s, width)
           payload == Operation(h, c, value).payload
<1>1. hook.expected \in Nat \ {0}
  BY ManifestIsLoaded
<1>2. FormsHit(hook, body) # {}
  BY <1>1, SiteIsMatched
<1>3. f \in FormsHit(hook, body)
  BY <1>2
<1>4. f \in DOMAIN hook.forms /\ Hits(form, body) # {} /\ form \in FormsOf(h)
  BY <1>3 DEF FormsHit, FormsOf
<1>5. s \in Hits(form, body)
  BY <1>4
<1>6. s \in Starts(body, width) /\ WindowMatches(form.anchor, window)
  BY <1>5 DEF Hits
<1>7. FormLoads(form, hook)
  BY <1>4, ManifestIsLoaded
<1>8. /\ Len(form.anchor) \in Nat \ {0} /\ DOMAIN form.anchor = 1..Len(form.anchor)
      /\ Len(form.payload) \in Nat /\ DOMAIN form.payload = 1..Len(form.payload)
  <2>1. IsBody(form.anchor) /\ form.anchor # <<>> /\ IsBody(form.payload)
    BY <1>7 DEF FormLoads
  <2>2. /\ Len(form.anchor) \in Nat /\ DOMAIN form.anchor = 1..Len(form.anchor)
        /\ Len(form.payload) \in Nat /\ DOMAIN form.payload = 1..Len(form.payload)
    BY <2>1, BodyLines
  <2>3. PICK S : form.anchor \in Seq(S)
    BY <2>1 DEF IsBody
  <2>4. Len(form.anchor) # 0
    BY <2>1, <2>3
  <2> QED
    BY <2>2, <2>4
<1>9. /\ Operation(h, c, value).class = c /\ Operation(h, c, value).mode = form.mode
      /\ Operation(h, c, value).anchor = window
      /\ payload = [i \in DOMAIN form.payload |->
                     [op  |-> form.payload[i].op,
                      reg |-> IF form.payload[i].var = NoCapture THEN NoCapture
                              ELSE Value(form, window, value, form.payload[i].var)]]
  BY DEF Operation
<1> HIDE DEF payload, s, f, form, hook
<1>10. DOMAIN window = DOMAIN form.anchor /\ Len(window) \in Nat \ {0}
  BY <1>8 DEF Window
<1>11. \A i \in DOMAIN form.anchor : window[i].op = form.anchor[i].op
  BY <1>6 DEF WindowMatches
<1>12. /\ DOMAIN payload = DOMAIN form.payload /\ IsBody(payload)
       /\ \A i \in DOMAIN form.payload : payload[i].op = form.payload[i].op
  <2>1. /\ DOMAIN payload = DOMAIN form.payload
        /\ \A i \in DOMAIN form.payload : payload[i].op = form.payload[i].op
    BY <1>9
  <2> DEFINE T == {payload[i] : i \in DOMAIN payload}
  <2>2. payload = [i \in 1..Len(form.payload) |-> payload[i]]
    BY <1>8, <1>9
  <2>3. \A i \in 1..Len(form.payload) : payload[i] \in T
    BY <2>1, <1>8
  <2> HIDE DEF T
  <2>4. payload \in Seq(T)
    BY <2>2, <2>3, <1>8
  <2> QED
    BY <2>1, <2>4 DEF IsBody, T
<1>13. OfForm(Operation(h, c, value), form)
  BY <1>9, <1>10, <1>11, <1>12 DEF OfForm, payload
<1>14. ASSUME NEW p \in DOMAIN form.anchor
       PROVE  \E k \in DOMAIN body : body[k].op = form.anchor[p].op
  <2>1. p \in 1..width /\ window[p] = body[Significant(body)[s + p - 1]]
    BY <1>8 DEF Window
  <2>2. Significant(body)[s + p - 1] \in DOMAIN body
    BY <1>6, <1>8, <2>1, SignificantLines
  <2> QED
    BY <2>1, <2>2, <1>11
<1> QED
  BY <1>4, <1>9, <1>13, <1>14 DEF Matched

\* A text an anchor may ask for on a pristine tree.
AskedFor(window) == \A p \in DOMAIN window : Asked(window[p].op) /\ window[p].op \notin Markers

\* Whatever literals hosts are found by, the patched text has.
KeepsLiterals(body, new) ==
  \A l \in Literals : LinesOf(l, body) # {} => LinesOf(l, new) # {}

\* A hook that is going to be patched: the class it was found in and the operation on it.
PlannedAs(h, r) ==
  /\ r.outcome = "resolved" /\ r.class \in HostsOf(h) /\ r.operation.class = r.class
  /\ \E form \in FormsOf(h) : OfForm(r.operation, form)
  /\ AskedFor(r.operation.anchor)

\* Nothing of a pristine decode reads as patched.
LEMMA PristineIsUnmarked ==
  ASSUME HooksKeepApart, decode \in Apps, SitesAreHosts, NEW h \in HookIds
  PROVE  /\ HostsIn(h, "applied") = {} /\ HostsIn(h, "partial") = {}
         /\ \A c \in HostsOf(h) : c \in DOMAIN decode /\ IsBody(decode[c])
<1>1. \A c \in HostsOf(h) : c \in DOMAIN decode /\ IsBody(decode[c])
  BY HostsAreOfTheDecode, SitesAssumption DEF SitesAssumption, Hosts
<1>2. SiteHooks[h].marker \in Markers /\ SiteHooks[h].expected \in Nat \ {0}
  BY ManifestIsLoaded DEF Markers
<1>3. ASSUME NEW c \in HostsOf(h)
      PROVE  InSource(SiteHooks[h], decode[c]) \notin {"applied", "partial"}
  <2>1. LinesOf(SiteHooks[h].marker, decode[c]) = {}
    BY <1>1, <1>2 DEF HooksKeepApart
  <2>2. Marked(SiteHooks[h], decode[c]) = 0
    BY <2>1, FS_EmptySet DEF Marked
  <2>3. Marked(SiteHooks[h], decode[c]) # SiteHooks[h].expected
    BY <2>2, <1>2
  <2> QED
    BY <2>2, <2>3 DEF InSource
<1> QED
  BY <1>1, <1>3 DEF HostsIn

\* Where nothing reads as patched, a hook is resolved for a site it has.
LEMMA VerdictHasItsSite ==
  ASSUME NEW h \in HookIds, HostsIn(h, "applied") = {}, HostsIn(h, "partial") = {}
  PROVE  /\ Verdict(h) # "already_applied"
         /\ Verdict(h) = "resolved" => HostsIn(h, "site") # {}
         /\ Verdict(h) = "awaiting" => HostsIn(h, "awaiting") # {}
<1>1. Cardinality(HostsIn(h, "applied")) = 0
  BY FS_EmptySet
<1> DEFINE sited == HostsIn(h, "site") \cup HostsIn(h, "awaiting")
           inner == CASE sited # {} /\ SiteHooks[h].proposal -> "needs_agent"
                      [] sited # {} /\ ~SiteHooks[h].proposal ->
                           IF Cardinality(sited) > 1 THEN "ambiguous"
                           ELSE IF HostsIn(h, "awaiting") # {} THEN "awaiting" ELSE "resolved"
                      [] HostsOf(h) = {} -> IF \E i \in DOMAIN SiteHooks[h].hosts :
                                                     SiteHooks[h].hosts[i].kind = "by_agent"
                                               THEN "needs_agent" ELSE "not_found"
                      [] OTHER -> "unresolved"
<1>2. Verdict(h) = inner
  BY <1>1 DEF Verdict
<1>3. CASE sited = {}
  <2>1. inner \in {"needs_agent", "not_found", "unresolved"}
    BY <1>3
  <2> QED
    BY <1>2, <2>1
<1>4. CASE sited # {} /\ SiteHooks[h].proposal
  <2>1. HostsOf(h) # {}
    BY <1>4 DEF HostsIn
  <2>2. inner = "needs_agent"
    BY <1>4, <2>1
  <2> QED
    BY <1>2, <2>2
<1>5. CASE sited # {} /\ ~SiteHooks[h].proposal
  <2>1. HostsOf(h) # {}
    BY <1>5 DEF HostsIn
  <2>2. inner = IF Cardinality(sited) > 1 THEN "ambiguous"
                ELSE IF HostsIn(h, "awaiting") # {} THEN "awaiting" ELSE "resolved"
    BY <1>5, <2>1
  <2> QED
    BY <1>2, <2>2, <1>5
<1> QED
  BY <1>3, <1>4, <1>5

\* On a pristine decode a hook that does not escalate is going to be patched.
LEMMA ReportPlans ==
  ASSUME HooksKeepApart, decode \in Apps, SitesAreHosts, NEW h \in HookIds, NEW value,
         ~Escalates(Report(h, value))
  PROVE  PlannedAs(h, Report(h, value))
<1>1. /\ HostsIn(h, "applied") = {} /\ HostsIn(h, "partial") = {}
      /\ \A c \in HostsOf(h) : c \in DOMAIN decode /\ IsBody(decode[c])
  BY PristineIsUnmarked
<1>2. /\ Verdict(h) # "already_applied"
      /\ Verdict(h) = "resolved" => HostsIn(h, "site") # {}
      /\ Verdict(h) = "awaiting" => HostsIn(h, "awaiting") # {}
  BY <1>1, VerdictHasItsSite
<1>3. Verdict(h) \in {"resolved", "awaiting"}
  BY <1>2 DEF Report, Escalates
<1>4. PICK c, v : /\ c \in HostsIn(h, "site") \cup HostsIn(h, "awaiting")
                  /\ Report(h, value) = [outcome |-> "resolved", class |-> c,
                                         operation |-> Operation(h, c, v)]
  <2>1. CASE Verdict(h) = "resolved"
    <3>1. Host(h, "site") \in HostsIn(h, "site")
      BY <2>1, <1>2 DEF Host
    <3>2. Report(h, value) = [outcome |-> "resolved", class |-> Host(h, "site"),
                              operation |-> Operation(h, Host(h, "site"), NoCapture)]
      BY <2>1 DEF Report
    <3> QED
      BY <3>1, <3>2
  <2>2. CASE Verdict(h) = "awaiting"
    <3>1. Host(h, "awaiting") \in HostsIn(h, "awaiting")
      BY <2>2, <1>2 DEF Host
    <3>2. value # NoCapture
      BY <2>2 DEF Report, Escalates
    <3>3. Report(h, value) = [outcome |-> "resolved", class |-> Host(h, "awaiting"),
                              operation |-> Operation(h, Host(h, "awaiting"), value)]
      BY <2>2, <3>2 DEF Report
    <3> QED
      BY <3>1, <3>3
  <2> QED
    BY <1>3, <2>1, <2>2
<1>5. /\ c \in HostsOf(h) /\ IsBody(decode[c]) /\ c \in DOMAIN decode
      /\ InSource(SiteHooks[h], decode[c]) \in {"site", "awaiting"}
  BY <1>1, <1>4 DEF HostsIn
<1>51. /\ IsBody(decode[c])
       /\ InSource(SiteHooks[h], decode[c]) \in {"site", "awaiting"}
  BY <1>5
<1>52. Operation(h, c, v).class = c
  BY <1>51, OperationIsOfForm
<1>6. Matched(Operation(h, c, v), h, decode[c])
  BY <1>51, OperationIsOfForm
<1> DEFINE operation == Operation(h, c, v)
<1> HIDE DEF operation
<1>7. PICK form \in FormsOf(h) :
           /\ OfForm(operation, form)
           /\ \A p \in DOMAIN form.anchor : \E k \in DOMAIN decode[c] :
                decode[c][k].op = form.anchor[p].op
  BY <1>6 DEF operation, Matched
<1>8. ASSUME NEW p \in DOMAIN operation.anchor
      PROVE  Asked(operation.anchor[p].op) /\ operation.anchor[p].op \notin Markers
  <2>1. p \in DOMAIN form.anchor /\ operation.anchor[p].op = form.anchor[p].op
    BY <1>7 DEF OfForm
  <2>2. Asked(operation.anchor[p].op)
    BY <2>1, <1>7 DEF Asked, LinesOf
  <2>3. \A op \in Markers : LinesOf(op, decode[c]) = {}
    BY <1>5 DEF HooksKeepApart
  <2>4. operation.anchor[p].op \notin Markers
    BY <2>1, <2>3, <1>7 DEF LinesOf
  <2> QED
    BY <2>2, <2>4
<1> QED
  BY <1>4, <1>5, <1>52, <1>7, <1>8 DEF PlannedAs, AskedFor, operation


\* An operation has the lines of its form, up to the registers they name.
LEMMA OfFormLines ==
  ASSUME NEW operation, NEW form, OfForm(operation, form)
  PROVE  /\ \A op : /\ LinesOf(op, operation.payload) = LinesOf(op, form.payload)
                    /\ LinesOf(op, operation.anchor) = LinesOf(op, form.anchor)
         /\ Fenced(form.payload) => Fenced(operation.payload)
<1>1. ASSUME NEW op
      PROVE  /\ LinesOf(op, operation.payload) = LinesOf(op, form.payload)
             /\ LinesOf(op, operation.anchor) = LinesOf(op, form.anchor)
  BY DEF OfForm, LinesOf
<1>2. Counting(operation.payload) = Counting(form.payload)
  BY DEF OfForm, Counting
<1>3. ASSUME Fenced(form.payload) PROVE Fenced(operation.payload)
  <2> SUFFICES ASSUME NEW m \in DOMAIN operation.payload, operation.payload[m].op \in Markers
               PROVE  \E g \in Counting(operation.payload) :
                        /\ ~Asked(operation.payload[g].op)
                        /\ \A k \in Counting(operation.payload) :
                             ~(m < k /\ k < g) /\ ~(g < k /\ k < m)
    BY DEF Fenced
  <2>1. m \in DOMAIN form.payload /\ form.payload[m].op \in Markers
    BY DEF OfForm
  <2>2. PICK g \in Counting(form.payload) :
          /\ ~Asked(form.payload[g].op)
          /\ \A k \in Counting(form.payload) : ~(m < k /\ k < g) /\ ~(g < k /\ k < m)
    BY <1>3, <2>1 DEF Fenced
  <2>3. operation.payload[g].op = form.payload[g].op
    BY DEF OfForm, Counting
  <2> QED
    BY <1>2, <2>2, <2>3
<1> QED
  BY <1>1, <1>3

\* A count of no marker means that there is none.
LEMMA UnmarkedLines ==
  ASSUME NEW hook, NEW body, IsBody(body)
  PROVE  Marked(hook, body) = 0 <=> LinesOf(hook.marker, body) = {}
BY LinesAreFinite, FS_EmptySet DEF Marked

\* A patch puts the markers of its own hook where none was, and takes and adds no other's.
LEMMA PatchStands ==
  ASSUME HooksKeepApart, NEW h \in HookIds, NEW form \in FormsOf(h), NEW operation,
         OfForm(operation, form),
         AskedFor(operation.anchor),
         NEW body, IsBody(body), Fenced(body), Marked(SiteHooks[h], body) = 0,
         Places(body, operation.anchor) # {},
         NEW new, new = Patched(body, operation)
  PROVE  /\ IsBody(new) /\ Fenced(new)
         /\ KeepsLiterals(body, new)
         /\ Marked(SiteHooks[h], new) = SiteHooks[h].expected
         /\ \A g \in HookIds \ {h} : Marked(SiteHooks[g], new) = Marked(SiteHooks[g], body)
<1> DEFINE payload == operation.payload  window == operation.anchor
<1>1. /\ IsBody(payload) /\ Len(window) \in Nat \ {0} /\ operation.mode = form.mode
  BY DEF OfForm
<1>2. /\ \A op : /\ LinesOf(op, payload) = LinesOf(op, form.payload)
                 /\ LinesOf(op, window) = LinesOf(op, form.anchor)
      /\ Fenced(form.payload) => Fenced(payload)
  BY OfFormLines
<1>3. /\ Fenced(form.payload)
      /\ \A g \in HookIds \ {h} : LinesOf(SiteHooks[g].marker, form.payload) = {}
      /\ form.mode = "replace" => \A l \in Literals :
           LinesOf(l, form.anchor) # {} => LinesOf(l, form.payload) # {}
      /\ Literals \cap Ignored = {}
  BY DEF HooksKeepApart
<1>4. PICK a, b, first, last :
        /\ Spliced(body, a, payload, b, new)
        /\ Framed(body, first, last, window)
        /\ Cut(body, a, b, first, last, operation.mode)
  BY <1>1, PatchSplices
<1>5. \A p \in DOMAIN window : Asked(window[p].op) /\ window[p].op \notin Markers
  BY DEF AskedFor
<1>6. Fenced(payload)
  BY <1>2, <1>3
<1> HIDE DEF payload, window
<1>7. IsBody(new)
  BY <1>4 DEF Spliced
<1>8. Fenced(new)
  BY <1>4, <1>5, <1>6, FencedStays
<1>9. ASSUME NEW l \in Literals, LinesOf(l, body) # {} PROVE LinesOf(l, new) # {}
  <2>1. l \notin Ignored
    BY <1>3
  <2>2. operation.mode = "replace" => (LinesOf(l, window) # {} => LinesOf(l, payload) # {})
    BY <1>1, <1>2, <1>3
  <2> QED
    BY <1>4, <1>9, <2>1, <2>2, LiteralStays
<1>10. Marked(SiteHooks[h], new) = SiteHooks[h].expected
  <2>1. LinesOf(SiteHooks[h].marker, body) = {}
    BY UnmarkedLines
  <2>2. Cardinality(LinesOf(SiteHooks[h].marker, new))
          = Cardinality(LinesOf(SiteHooks[h].marker, payload))
    BY <1>4, <2>1, SplicedBringsCount
  <2>3. FormLoads(form, SiteHooks[h])
    BY ManifestIsLoaded
  <2>4. Cardinality(LinesOf(SiteHooks[h].marker, form.payload)) = SiteHooks[h].expected
    BY <2>3 DEF FormLoads
  <2>5. LinesOf(SiteHooks[h].marker, payload) = LinesOf(SiteHooks[h].marker, form.payload)
    BY <1>2
  <2> QED
    BY <2>2, <2>4, <2>5 DEF Marked
<1>11. ASSUME NEW g \in HookIds \ {h}
       PROVE  Marked(SiteHooks[g], new) = Marked(SiteHooks[g], body)
  <2> DEFINE op == SiteHooks[g].marker
  <2>1. op \in Markers
    BY DEF Markers
  <2>2. LinesOf(op, payload) = {}
    BY <1>2, <1>3
  <2> HIDE DEF op
  <2>3. ASSUME NEW i \in LinesOf(op, body) PROVE i <= a \/ b <= i
    <3>1. i \in DOMAIN body /\ body[i].op \in Markers
      BY <2>1 DEF LinesOf
    <3> QED
      BY <1>4, <1>5, <3>1, MarkersAreNotCut
  <2>4. Cardinality(LinesOf(op, new)) = Cardinality(LinesOf(op, body))
    BY <1>4, <2>2, <2>3, SplicedKeepsCount
  <2> QED
    BY <2>4 DEF Marked, op
<1> QED
  BY <1>7, <1>8, <1>9, <1>10, <1>11 DEF KeepsLiterals


(*****************************************************************************)
(* The invariant.                                                            *)
(*****************************************************************************)

\* A hook's markers are in the class it is applied in, once it is, and nowhere else.
Stands(h, c) ==
  Marked(SiteHooks[h], tree[c]) =
    IF c = sites[h].class /\ (\A n \in DOMAIN toApply : toApply[n] # h)
    THEN SiteHooks[h].expected ELSE 0

BodiesStand ==
  /\ DOMAIN tree = DOMAIN decode
  /\ \A c \in DOMAIN decode :
       /\ IsBody(tree[c]) /\ Fenced(tree[c])
       /\ KeepsLiterals(decode[c], tree[c])
       /\ \A h \in HookIds : Stands(h, c)

Queued ==
  /\ toApply \in Seq(HookIds)
  /\ \A m, n \in DOMAIN toApply : toApply[m] = toApply[n] => m = n
  /\ porting = "patched" => toApply = <<>>

\* The first port is of a pristine decode.
FirstPort ==
  /\ decode \in Apps
  /\ porting = "analyse" =>
       sites = NoReport \/ \A h \in HookIds : Escalates(sites[h]) \/ PlannedAs(h, sites[h])
  /\ porting \in {"patch", "patched"} =>
       (\A h \in HookIds : PlannedAs(h, sites[h])) /\ BodiesStand /\ Queued

Recognised(h) == HostsIn(h, "partial") = {} /\ Cardinality(HostsIn(h, "applied")) = 1

AllApplied == \A h \in HookIds : sites[h].outcome = "already_applied"

\* Every later one is of a tree in which each hook is found once.
LaterPort ==
  /\ \A h \in HookIds : Recognised(h)
  /\ sites = NoReport \/ AllApplied
  /\ porting # "analyse" => AllApplied /\ toApply = <<>> /\ tree = decode

SitesInv ==
  /\ ports \in Nat /\ SitesAreHosts
  /\ ports = 0 => FirstPort
  /\ ports > 0 => LaterPort

\* The hosts of a hook depend on the decode and on what agents proposed.
LEMMA HostsStand ==
  ASSUME UNCHANGED <<decode, proposed>>
  PROVE  /\ \A h : HostsOf(h)' = HostsOf(h)
         /\ \A h, state : HostsIn(h, state)' = HostsIn(h, state)
         /\ SitesAreHosts' = SitesAreHosts
<1>1. ASSUME NEW h PROVE HostsOf(h)' = HostsOf(h)
  <2>1. ASSUME NEW k PROVE Search(h, k)' = Search(h, k)
    <3>1. \A form : AnchorScan(h, form)' = AnchorScan(h, form)
      BY DEF AnchorScan
    <3>2. \A c, l : HoldsLiteral(c, l)' = HoldsLiteral(c, l)
      BY DEF HoldsLiteral
    <3> QED
      BY <3>1, <3>2 DEF Search
  <2> QED
    BY <2>1 DEF HostsOf
<1>2. \A h, state : HostsIn(h, state)' = HostsIn(h, state)
  BY <1>1 DEF HostsIn
<1> QED
  BY <1>1, <1>2 DEF SitesAreHosts

\* And so does whether a report plans a patch of one.
LEMMA PlansStand ==
  ASSUME UNCHANGED <<decode, proposed, sites>>
  PROVE  \A h : PlannedAs(h, sites[h])' <=> PlannedAs(h, sites[h])
BY HostsStand DEF PlannedAs

\* A port starts on a pristine decode, with nothing reported.
LEMMA SitesInit_Inv == SitesInit => SitesInv
<1> SUFFICES ASSUME SitesInit PROVE SitesInv
  OBVIOUS
<1>1. SitesAreHosts
  BY DEF SitesInit, SitesAreHosts
<1>2. FirstPort
  BY DEF SitesInit, FirstPort
<1> QED
  BY <1>1, <1>2 DEF SitesInit, SitesInv

\* A hook that is found once is reported as applied.
LEMMA ReportRecognises ==
  ASSUME NEW h \in HookIds, NEW value, Recognised(h)
  PROVE  Report(h, value).outcome = "already_applied"
<1>1. Verdict(h) = "already_applied"
  <2>1. HostsIn(h, "partial") = {} /\ Cardinality(HostsIn(h, "applied")) = 1
    BY DEF Recognised
  <2>2. HostsIn(h, "partial") \cup HostsIn(h, "applied") # {}
    BY <2>1, FS_EmptySet
  <2>3. ~(Cardinality(HostsIn(h, "applied")) > 1)
    BY <2>1
  <2> QED
    BY <2>1, <2>2, <2>3 DEF Verdict
<1> QED
  BY <1>1 DEF Report

\* Resolving reports what is planned, or that all is applied already.
LEMMA ResolveAll_Inv ==
  ASSUME HooksKeepApart, SitesInv, NEW answers, ResolveAll(answers)
  PROVE  SitesInv'
<1>1. /\ porting = "analyse" /\ porting' = porting /\ ports' = ports
      /\ sites' = [h \in HookIds |-> Report(h, Supplied(answers))]
      /\ UNCHANGED <<decode, proposed>> /\ UNCHANGED <<tree, toApply>>
  BY DEF ResolveAll
<1>2. /\ \A h : HostsOf(h)' = HostsOf(h)
      /\ \A h, state : HostsIn(h, state)' = HostsIn(h, state)
      /\ SitesAreHosts' = SitesAreHosts
  BY <1>1, HostsStand
<1>3. ASSUME ports = 0 PROVE FirstPort'
  <2>1. decode \in Apps /\ SitesAreHosts
    BY <1>3 DEF SitesInv, FirstPort
  <2>2. ASSUME NEW h \in HookIds
        PROVE  Escalates(sites'[h]) \/ PlannedAs(h, sites[h])'
    <3>1. sites'[h] = Report(h, Supplied(answers))
      BY <1>1
    <3>2. CASE Escalates(Report(h, Supplied(answers)))
      BY <3>1, <3>2
    <3>3. CASE ~Escalates(Report(h, Supplied(answers)))
      <4>1. PlannedAs(h, Report(h, Supplied(answers)))
        BY <2>1, <3>3, ReportPlans
      <4>2. PlannedAs(h, sites'[h])
        BY <3>1, <4>1
      <4> QED
        BY <1>2, <4>2 DEF PlannedAs
    <3> QED
      BY <3>2, <3>3
  <2> QED
    BY <1>1, <2>1, <2>2 DEF FirstPort, Escalates
<1>4. ASSUME ports > 0 PROVE LaterPort'
  <2>1. \A h \in HookIds : Recognised(h)
    BY <1>4 DEF SitesInv, LaterPort
  <2>2. \A h \in HookIds : Recognised(h)'
    BY <1>2, <2>1 DEF Recognised
  <2>3. AllApplied'
    BY <1>1, <2>1, ReportRecognises DEF AllApplied
  <2> QED
    BY <1>1, <2>2, <2>3 DEF LaterPort
<1> QED
  BY <1>1, <1>2, <1>3, <1>4 DEF SitesInv


\* The hooks that are resolved are applied in the order of the manifest.
LEMMA InOrderQueues ==
  ASSUME NEW S \in SUBSET HookIds
  PROVE  /\ InOrder(S) \in Seq(HookIds)
         /\ \A m, n \in DOMAIN InOrder(S) : InOrder(S)[m] = InOrder(S)[n] => m = n
         /\ \A h \in S : \E n \in DOMAIN InOrder(S) : InOrder(S)[n] = h
         /\ S = {} => InOrder(S) = <<>>
<1>1. S \in SUBSET (1..Len(SiteHooks)) /\ Len(SiteHooks) \in Nat
  BY ManifestIsLoaded
<1>2. /\ Cardinality(S) \in Nat
      /\ \A p \in 1..Cardinality(S) : InOrder(S)[p] \in S /\ Rank(S, InOrder(S)[p]) = p
      /\ \A k \in S : Rank(S, k) \in 1..Cardinality(S) /\ InOrder(S)[Rank(S, k)] = k
  BY <1>1, SiteOrder
<1>3. /\ DOMAIN InOrder(S) = 1..Cardinality(S)
      /\ InOrder(S) = [n \in 1..Cardinality(S) |-> InOrder(S)[n]]
  <2> DEFINE nth(n) == CHOOSE i \in S : Cardinality({j \in S : j <= i}) = n
  <2>1. InOrder(S) = [n \in 1..Cardinality(S) |-> nth(n)]
    BY DEF InOrder
  <2> HIDE DEF nth
  <2> QED
    BY <2>1
<1> DEFINE order == InOrder(S)
<1> HIDE DEF order
<1>4. order \in Seq(HookIds)
  <2>1. \A p \in 1..Cardinality(S) : order[p] \in HookIds
    BY <1>2 DEF order
  <2>2. order = [n \in 1..Cardinality(S) |-> order[n]]
    BY <1>3 DEF order
  <2> QED
    BY <2>1, <2>2, <1>2
<1>5. S = {} => order = <<>>
  <2>1. S = {} => Cardinality(S) = 0
    BY FS_EmptySet
  <2>2. order \in Seq(HookIds) /\ DOMAIN order = 1..Cardinality(S)
    BY <1>3, <1>4 DEF order
  <2> QED
    BY <2>1, <2>2
<1>6. \A m, n \in DOMAIN InOrder(S) : InOrder(S)[m] = InOrder(S)[n] => m = n
  <2> SUFFICES ASSUME NEW m \in 1..Cardinality(S), NEW n \in 1..Cardinality(S),
                      InOrder(S)[m] = InOrder(S)[n]
               PROVE  m = n
    BY <1>3
  <2>1. Rank(S, InOrder(S)[m]) = m /\ Rank(S, InOrder(S)[n]) = n
    BY <1>2
  <2> QED
    BY <2>1
<1>7. \A h \in S : \E n \in DOMAIN InOrder(S) : InOrder(S)[n] = h
  BY <1>2, <1>3
<1> QED
  BY <1>4, <1>5, <1>6, <1>7 DEF order

\* Composing queues every hook of a pristine decode, and none of a patched one.
LEMMA ComposeOperations_Inv ==
  ASSUME HooksKeepApart, SitesInv, ComposeOperations
  PROVE  SitesInv'
<1> DEFINE S == {h \in HookIds : sites[h].outcome = "resolved"}
           stops == \E h \in HookIds : Escalates(sites[h])
<1>1. /\ porting = "analyse" /\ sites # NoReport
      /\ UNCHANGED <<decode, proposed, sites, ports>>
      /\ stops => porting' = "stopped" /\ UNCHANGED <<tree, toApply>>
      /\ ~stops => porting' = "patch" /\ tree' = decode /\ toApply' = InOrder(S)
  BY DEF ComposeOperations
<1>2. /\ \A h \in HookIds : (\A state : HostsIn(h, state)' = HostsIn(h, state))
      /\ SitesAreHosts' = SitesAreHosts
      /\ \A h : PlannedAs(h, sites[h])' <=> PlannedAs(h, sites[h])
  BY <1>1, HostsStand, PlansStand
<1>3. S \in SUBSET HookIds
  OBVIOUS
<1>4. /\ InOrder(S) \in Seq(HookIds)
      /\ \A m, n \in DOMAIN InOrder(S) : InOrder(S)[m] = InOrder(S)[n] => m = n
      /\ \A h \in S : \E n \in DOMAIN InOrder(S) : InOrder(S)[n] = h
      /\ S = {} => InOrder(S) = <<>>
  BY <1>3, InOrderQueues
<1>5. ASSUME ports = 0 PROVE FirstPort'
  <2>1. /\ decode \in Apps
        /\ \A h \in HookIds : Escalates(sites[h]) \/ PlannedAs(h, sites[h])
    BY <1>1, <1>5 DEF SitesInv, FirstPort
  <2>2. CASE stops
    BY <1>1, <2>1, <2>2 DEF FirstPort
  <2>3. CASE ~stops
    <3>1. \A h \in HookIds : PlannedAs(h, sites[h])
      BY <2>1, <2>3
    <3>2. \A h \in HookIds : h \in S
      BY <3>1 DEF PlannedAs
    <3>3. \A h \in HookIds : \E n \in DOMAIN toApply' : toApply'[n] = h
      BY <1>1, <1>4, <2>3, <3>2
    <3>4. ASSUME NEW c \in DOMAIN decode
          PROVE  /\ IsBody(tree'[c]) /\ Fenced(tree'[c])
                 /\ KeepsLiterals(decode[c], tree'[c])
                 /\ \A h \in HookIds : Stands(h, c)'
      <4>1. tree'[c] = decode[c] /\ IsBody(decode[c])
        BY <1>1, <2>1, <2>3, SitesAssumption DEF SitesAssumption
      <4>2. \A op \in Markers : LinesOf(op, decode[c]) = {}
        BY <2>1 DEF HooksKeepApart
      <4>3. Fenced(decode[c])
        BY <4>2 DEF Fenced, LinesOf
      <4>4. ASSUME NEW h \in HookIds PROVE Stands(h, c)'
        <5>1. SiteHooks[h].marker \in Markers
          BY DEF Markers
        <5>2. Marked(SiteHooks[h], decode[c]) = 0
          BY <4>1, <4>2, <5>1, UnmarkedLines
        <5>3. ~(\A n \in DOMAIN toApply' : toApply'[n] # h)
          BY <3>3
        <5> QED
          BY <4>1, <5>2, <5>3 DEF Stands
      <4> QED
        BY <4>1, <4>3, <4>4 DEF KeepsLiterals
    <3>5. BodiesStand'
      BY <1>1, <2>3, <3>4 DEF BodiesStand
    <3>6. Queued'
      BY <1>1, <1>4, <2>3 DEF Queued
    <3>7. \A h \in HookIds : PlannedAs(h, sites[h])'
      BY <1>2, <3>1
    <3> QED
      BY <1>1, <2>1, <2>3, <3>5, <3>6, <3>7 DEF FirstPort
  <2> QED
    BY <2>2, <2>3
<1>6. ASSUME ports > 0 PROVE LaterPort'
  <2>1. (\A h \in HookIds : Recognised(h)) /\ AllApplied
    BY <1>1, <1>6 DEF SitesInv, LaterPort
  <2>2. \A h \in HookIds : Recognised(h)'
    BY <1>2, <2>1 DEF Recognised
  <2>3. ~stops /\ S = {}
    BY <2>1 DEF AllApplied, Escalates
  <2>4. AllApplied'
    BY <1>1, <2>1 DEF AllApplied
  <2>5. toApply' = <<>> /\ tree' = decode'
    BY <1>1, <1>4, <2>3
  <2> QED
    BY <2>2, <2>4, <2>5 DEF LaterPort
<1> QED
  BY <1>1, <1>2, <1>5, <1>6 DEF SitesInv


\* Taking the head of a queue without repetitions takes it out of the queue.
LEMMA QueueHead ==
  ASSUME NEW S, NEW q \in Seq(S), q # <<>>, \A m, n \in DOMAIN q : q[m] = q[n] => m = n
  PROVE  /\ Head(q) \in S /\ Tail(q) \in Seq(S)
         /\ \A m, n \in DOMAIN Tail(q) : Tail(q)[m] = Tail(q)[n] => m = n
         /\ \A h : (\A n \in DOMAIN Tail(q) : Tail(q)[n] # h)
                     <=> h = Head(q) \/ (\A n \in DOMAIN q : q[n] # h)
         /\ \E n \in DOMAIN q : q[n] = Head(q)
<1>1. /\ Len(q) \in Nat \ {0} /\ DOMAIN q = 1..Len(q) /\ Head(q) = q[1] /\ Head(q) \in S
      /\ Tail(q) \in Seq(S) /\ DOMAIN Tail(q) = 1..(Len(q) - 1)
      /\ \A n \in 1..(Len(q) - 1) : Tail(q)[n] = q[n + 1]
  OBVIOUS
<1>2. \A m, n \in DOMAIN Tail(q) : Tail(q)[m] = Tail(q)[n] => m = n
  <2> SUFFICES ASSUME NEW m \in DOMAIN Tail(q), NEW n \in DOMAIN Tail(q), Tail(q)[m] = Tail(q)[n]
               PROVE  m = n
    OBVIOUS
  <2>1. m \in Nat /\ n \in Nat /\ m + 1 \in DOMAIN q /\ n + 1 \in DOMAIN q
    BY <1>1
  <2>2. q[m + 1] = q[n + 1]
    BY <1>1
  <2>3. m + 1 = n + 1
    BY <2>1, <2>2
  <2> QED
    BY <2>1, <2>3
<1>3. ASSUME NEW h
      PROVE  (\A n \in DOMAIN Tail(q) : Tail(q)[n] # h)
               <=> h = Head(q) \/ (\A n \in DOMAIN q : q[n] # h)
  <2>1. ASSUME \A n \in DOMAIN Tail(q) : Tail(q)[n] # h, h # Head(q), NEW n \in DOMAIN q
        PROVE  q[n] # h
    <3>1. CASE n = 1
      BY <1>1, <2>1, <3>1
    <3>2. CASE n # 1
      <4>1. n - 1 \in DOMAIN Tail(q) /\ Tail(q)[n - 1] = q[(n - 1) + 1] /\ (n - 1) + 1 = n
        BY <1>1, <3>2
      <4> QED
        BY <2>1, <4>1
    <3> QED
      BY <3>1, <3>2
  <2>2. ASSUME \A n \in DOMAIN q : q[n] # h, NEW n \in DOMAIN Tail(q) PROVE Tail(q)[n] # h
    <3>1. n + 1 \in DOMAIN q /\ Tail(q)[n] = q[n + 1]
      BY <1>1
    <3> QED
      BY <2>2, <3>1
  <2>3. ASSUME h = Head(q), NEW n \in DOMAIN Tail(q) PROVE Tail(q)[n] # h
    <3>1. n + 1 \in DOMAIN q /\ Tail(q)[n] = q[n + 1] /\ n + 1 # 1 /\ 1 \in DOMAIN q
      BY <1>1
    <3>2. q[n + 1] # q[1]
      BY <3>1
    <3> QED
      BY <1>1, <2>3, <3>1, <3>2
  <2> QED
    BY <2>1, <2>2, <2>3
<1> QED
  BY <1>1, <1>2, <1>3

\* A set of one place has a place.
LEMMA OneIsSome ==
  ASSUME NEW S, Cardinality(S) = 1
  PROVE  S # {}
BY FS_EmptySet

\* Applying one hook marks its class and leaves the other hooks' marks standing.
LEMMA ApplyForm_Inv ==
  ASSUME HooksKeepApart, SitesInv, ApplyForm
  PROVE  SitesInv'
<1> DEFINE h == Head(toApply)  operation == sites[h].operation  hook == SiteHooks[h]
           body == tree[operation.class]
<1>1. /\ porting = "patch" /\ toApply # <<>> /\ UNCHANGED <<decode, proposed, sites, ports>>
      /\ \/ /\ Marked(hook, body) = hook.expected
            /\ toApply' = Tail(toApply) /\ UNCHANGED <<tree, porting>>
         \/ /\ Marked(hook, body) = 0 /\ Cardinality(Places(body, operation.anchor)) = 1
            /\ tree' = [tree EXCEPT ![operation.class] = Patched(body, operation)]
            /\ toApply' = Tail(toApply) /\ UNCHANGED porting
         \/ porting' = "refused"
  BY DEF ApplyForm
<1>2. /\ SitesAreHosts' = SitesAreHosts
      /\ \A k : PlannedAs(k, sites[k])' <=> PlannedAs(k, sites[k])
  BY <1>1, HostsStand, PlansStand
<1>3. ~(ports > 0)
  BY <1>1 DEF SitesInv, LaterPort
<1>4. ports = 0
  BY <1>3 DEF SitesInv
<1>5. /\ decode \in Apps /\ (\A k \in HookIds : PlannedAs(k, sites[k])) /\ BodiesStand /\ Queued
  BY <1>1, <1>4 DEF SitesInv, FirstPort
<1>6. CASE porting' = "refused"
  BY <1>1, <1>2, <1>4, <1>5, <1>6 DEF SitesInv, FirstPort
<1>7. /\ h \in HookIds /\ Tail(toApply) \in Seq(HookIds)
      /\ \A m, n \in DOMAIN Tail(toApply) : Tail(toApply)[m] = Tail(toApply)[n] => m = n
      /\ \A k : (\A n \in DOMAIN Tail(toApply) : Tail(toApply)[n] # k)
                  <=> k = h \/ (\A n \in DOMAIN toApply : toApply[n] # k)
      /\ \E n \in DOMAIN toApply : toApply[n] = h
  BY <1>1, <1>5, QueueHead DEF Queued
<1>8. /\ operation.class = sites[h].class /\ operation.class \in HostsOf(h)
      /\ \E form \in FormsOf(h) : OfForm(operation, form)
      /\ AskedFor(operation.anchor)
  BY <1>5, <1>7 DEF PlannedAs
<1>9. operation.class \in DOMAIN decode /\ DOMAIN tree = DOMAIN decode
  BY <1>5, <1>7, <1>8, HostsAreOfTheDecode DEF SitesInv, Hosts, BodiesStand
<1>10. /\ IsBody(body) /\ Fenced(body)
       /\ KeepsLiterals(decode[operation.class], body)
       /\ \A k \in HookIds : Stands(k, operation.class)
  BY <1>5, <1>9 DEF BodiesStand
<1>11. Marked(hook, body) = 0 /\ hook.expected \in Nat \ {0}
  <2>1. Stands(h, operation.class) /\ hook.expected \in Nat \ {0}
    BY <1>7, <1>10, ManifestIsLoaded
  <2>2. ~(\A n \in DOMAIN toApply : toApply[n] # h)
    BY <1>7
  <2> QED
    BY <2>1, <2>2 DEF Stands
<1> HIDE DEF h, operation, hook, body
<1>12. CASE porting' # "refused"
  <2> DEFINE new == Patched(body, operation)
  <2>1. /\ Cardinality(Places(body, operation.anchor)) = 1
        /\ tree' = [tree EXCEPT ![operation.class] = new]
        /\ toApply' = Tail(toApply) /\ porting' = porting
    BY <1>1, <1>11, <1>12
  <2>2. Places(body, operation.anchor) # {}
    BY <2>1, OneIsSome
  <2>3. PICK form \in FormsOf(h) : OfForm(operation, form)
    BY <1>8
  <2>4. /\ IsBody(new) /\ Fenced(new)
        /\ KeepsLiterals(body, new)
        /\ Marked(SiteHooks[h], new) = SiteHooks[h].expected
        /\ \A g \in HookIds \ {h} : Marked(SiteHooks[g], new) = Marked(SiteHooks[g], body)
    <3>1. /\ Marked(SiteHooks[h], body) = 0 /\ h \in HookIds
          /\ IsBody(body) /\ Fenced(body)
          /\ AskedFor(operation.anchor)
      BY <1>7, <1>8, <1>10, <1>11 DEF hook
    <3> QED
      BY <2>2, <2>3, <3>1, PatchStands
  <2> HIDE DEF new
  <2>5. DOMAIN tree' = DOMAIN decode' /\ tree'[operation.class] = new
    BY <1>1, <1>9, <2>1
  <2>6. ASSUME NEW c \in DOMAIN decode, c # operation.class PROVE tree'[c] = tree[c]
    BY <1>9, <2>1, <2>6
  <2>7. ASSUME NEW k \in HookIds, NEW c \in DOMAIN decode PROVE Stands(k, c)'
    <3>1. Stands(k, c)
      BY <1>5 DEF BodiesStand
    <3>2. /\ Stands(k, c)' <=>
               Marked(SiteHooks[k], tree'[c]) =
                 IF c = sites[k].class /\ (\A n \in DOMAIN toApply' : toApply'[n] # k)
                 THEN SiteHooks[k].expected ELSE 0
          /\ (\A n \in DOMAIN toApply' : toApply'[n] # k)
               <=> k = h \/ (\A n \in DOMAIN toApply : toApply[n] # k)
      BY <1>1, <1>7, <2>1 DEF Stands
    <3>3. CASE k = h
      <4>1. (\A n \in DOMAIN toApply' : toApply'[n] # k) /\ sites[k].class = operation.class
        BY <1>8, <3>2, <3>3
      <4>2. CASE c = operation.class
        BY <2>4, <2>5, <3>2, <3>3, <4>1, <4>2
      <4>3. CASE c # operation.class
        <5>1. Marked(SiteHooks[k], tree[c]) = 0
          BY <3>1, <4>1, <4>3 DEF Stands
        <5> QED
          BY <2>6, <3>2, <4>1, <4>3, <5>1
      <4> QED
        BY <4>2, <4>3
    <3>4. CASE k # h
      <4>1. Marked(SiteHooks[k], tree'[c]) = Marked(SiteHooks[k], tree[c])
        <5>1. CASE c = operation.class
          BY <2>4, <2>5, <3>4, <5>1 DEF body
        <5>2. CASE c # operation.class
          BY <2>6, <5>2
        <5> QED
          BY <5>1, <5>2
      <4>2. (\A n \in DOMAIN toApply' : toApply'[n] # k) <=> (\A n \in DOMAIN toApply : toApply[n] # k)
        BY <3>2, <3>4
      <4> QED
        BY <3>1, <3>2, <4>1, <4>2 DEF Stands
    <3> QED
      BY <3>3, <3>4
  <2>8. ASSUME NEW c \in DOMAIN decode
        PROVE  /\ IsBody(tree'[c]) /\ Fenced(tree'[c])
               /\ KeepsLiterals(decode[c], tree'[c])
    <3>1. CASE c = operation.class
      BY <1>10, <2>4, <2>5, <3>1 DEF KeepsLiterals
    <3>2. CASE c # operation.class
      BY <1>5, <2>6, <3>2 DEF BodiesStand
    <3> QED
      BY <3>1, <3>2
  <2>9. BodiesStand'
    BY <1>1, <2>5, <2>7, <2>8 DEF BodiesStand
  <2>10. Queued'
    BY <1>1, <1>7, <2>1 DEF Queued
  <2>11. FirstPort'
    BY <1>1, <1>2, <1>5, <2>1, <2>9, <2>10 DEF FirstPort
  <2> QED
    BY <1>1, <1>2, <1>4, <2>11 DEF SitesInv
<1> QED
  BY <1>6, <1>12


\* A step that ends the patcher, or changes nothing.
LEMMA PatcherEnds_Inv ==
  ASSUME SitesInv, PatcherEnds \/ UNCHANGED siteVars
  PROVE  SitesInv'
<1>1. /\ UNCHANGED <<decode, tree, proposed, sites, toApply, ports>>
      /\ \/ porting = "patch" /\ toApply = <<>> /\ porting' = "patched"
         \/ porting' = porting
  BY DEF PatcherEnds, siteVars
<1>2. /\ \A h \in HookIds : (\A state : HostsIn(h, state)' = HostsIn(h, state))
      /\ SitesAreHosts' = SitesAreHosts
      /\ \A h : PlannedAs(h, sites[h])' <=> PlannedAs(h, sites[h])
  BY <1>1, HostsStand, PlansStand
<1>3. BodiesStand => BodiesStand'
  BY <1>1 DEF BodiesStand, Stands
<1>4. Queued => Queued'
  BY <1>1 DEF Queued
<1>5. ASSUME ports = 0 PROVE FirstPort'
  BY <1>1, <1>2, <1>3, <1>4, <1>5 DEF SitesInv, FirstPort
<1>6. ASSUME ports > 0 PROVE LaterPort'
  <2>1. (\A h \in HookIds : Recognised(h)) /\ (sites = NoReport \/ AllApplied)
    BY <1>6 DEF SitesInv, LaterPort
  <2>2. \A h \in HookIds : Recognised(h)'
    BY <1>2, <2>1 DEF Recognised
  <2>3. AllApplied' <=> AllApplied
    BY <1>1 DEF AllApplied
  <2>4. porting' # "analyse" => porting # "analyse"
    BY <1>1
  <2> QED
    BY <1>1, <1>6, <2>1, <2>2, <2>3, <2>4 DEF SitesInv, LaterPort
<1> QED
  BY <1>1, <1>2, <1>5, <1>6 DEF SitesInv

\* The class a hook was put in is found again, whichever fingerprint it was found by: the
\* name and the agent's answer are the same, the literals are still there, and a scan for
\* the anchor takes a class that carries the marker.
LEMMA HostIsFoundAgain ==
  ASSUME decode' = tree, UNCHANGED proposed, DOMAIN tree = DOMAIN decode, NEW h \in HookIds,
         NEW c \in HostsOf(h), c \in DOMAIN decode, KeepsLiterals(decode[c], tree[c]),
         Marked(SiteHooks[h], tree[c]) = SiteHooks[h].expected
  PROVE  c \in HostsOf(h)'
<1>1. PICK i \in DOMAIN SiteHooks[h].hosts : c \in Search(h, SiteHooks[h].hosts[i])
  BY DEF HostsOf
<1> DEFINE k == SiteHooks[h].hosts[i]
<1>2. /\ k.kind \in {"named", "by_literal", "by_agent", "by_anchor"}
      /\ SiteHooks[h].expected \in Nat \ {0}
  BY ManifestIsLoaded
<1>3. c \in Hosts(decode)'
  BY DEF Hosts
<1>8. c \in Search(h, k)'
  <2>4. CASE k.kind = "named"
    BY <1>1, <1>3, <2>4 DEF Search
  <2>5. CASE k.kind = "by_literal"
    <3>1. \A l \in k.literals : l \in Literals /\ HoldsLiteral(c, l)
      BY <1>1, <2>5 DEF Search, Literals
    <3>2. \A l \in k.literals : HoldsLiteral(c, l)'
      BY <3>1 DEF HoldsLiteral, KeepsLiterals
    <3> QED
      BY <1>3, <2>5, <3>2 DEF Search
  <2>6. CASE k.kind = "by_anchor"
    <3>1. Marked(SiteHooks[h], decode'[c]) > 0
      BY <1>2
    <3>2. c \in AnchorScan(h, k.forms)'
      BY <1>3, <3>1 DEF AnchorScan
    <3> QED
      BY <2>6, <3>2 DEF Search
  <2>7. CASE k.kind = "by_agent"
    BY <1>1, <2>7 DEF Search
  <2> QED
    BY <1>2, <2>4, <2>5, <2>6, <2>7
<1> QED
  BY <1>8 DEF HostsOf

HostsAreDecoded == \A h \in HookIds : HostsOf(h) \subseteq Hosts(decode)

\* The same, as one formula of the state.
LEMMA HostsStayInside == SitesAreHosts => HostsAreDecoded
BY HostsAreOfTheDecode DEF HostsAreDecoded

\* In a patched tree each hook is found once, in the class it was put in.
LEMMA PortAgain_Inv ==
  ASSUME HooksKeepApart, SitesInv, PortAgain
  PROVE  SitesInv'
<1>1. /\ porting = "patched" /\ decode' = tree /\ ports' = ports + 1 /\ porting' = "analyse"
      /\ sites' = NoReport /\ UNCHANGED <<tree, proposed, toApply>>
      /\ ports \in Nat
  BY DEF PortAgain, SitesInv
<1>2. ports' \in Nat /\ ports' > 0
  BY <1>1
<1>3. CASE ports = 0
  <2>1. /\ decode \in Apps /\ BodiesStand /\ toApply = <<>>
        /\ \A h \in HookIds : PlannedAs(h, sites[h])
    BY <1>1, <1>3 DEF SitesInv, FirstPort, Queued
  <2>2. /\ DOMAIN tree = DOMAIN decode
        /\ \A c \in DOMAIN decode : /\ KeepsLiterals(decode[c], tree[c])
                                    /\ \A h \in HookIds : Stands(h, c)
    BY <2>1 DEF BodiesStand
  <2>3. SitesAreHosts'
    BY <1>1, <2>2 DEF SitesInv, SitesAreHosts, Hosts
  <2>4. ASSUME NEW h \in HookIds PROVE Recognised(h)'
    <3> DEFINE home == sites[h].class
    <3>1. home \in HostsOf(h) /\ home \in DOMAIN decode
      BY <2>1, HostsAreOfTheDecode DEF SitesInv, PlannedAs, Hosts
    <3>2. SiteHooks[h].expected \in Nat \ {0}
      BY ManifestIsLoaded
    <3>3. \A c \in DOMAIN decode :
            Marked(SiteHooks[h], tree[c]) = IF c = home THEN SiteHooks[h].expected ELSE 0
      BY <2>1, <2>2 DEF Stands
    <3> HIDE DEF home
    <3>4. home \in HostsOf(h)'
      BY <1>1, <2>2, <3>1, <3>3, HostIsFoundAgain
    <3>5. HostsOf(h)' \subseteq DOMAIN decode
      <4>1. HostsAreDecoded'
        BY <2>3, HostsStayInside, PTL
      <4>2. HostsOf(h)' \subseteq Hosts(decode)'
        BY <4>1 DEF HostsAreDecoded
      <4> QED
        BY <1>1, <2>2, <4>2 DEF Hosts
    <3>6. ASSUME NEW c \in DOMAIN decode
          PROVE  /\ InSource(SiteHooks[h], decode'[c]) # "partial"
                 /\ InSource(SiteHooks[h], decode'[c]) = "applied" <=> c = home
      <4>1. decode'[c] = tree[c]
        BY <1>1
      <4>2. CASE c = home
        <5>1. Marked(SiteHooks[h], tree[c]) = SiteHooks[h].expected
          BY <3>3, <4>2
        <5> QED
          BY <3>2, <4>1, <4>2, <5>1 DEF InSource
      <4>3. CASE c # home
        <5>1. Marked(SiteHooks[h], tree[c]) = 0 /\ SiteHooks[h].expected # 0
          BY <3>2, <3>3, <4>3
        <5> QED
          BY <4>1, <4>3, <5>1 DEF InSource
      <4> QED
        BY <4>2, <4>3
    <3>7. HostsIn(h, "partial")' = {} /\ HostsIn(h, "applied")' = {home}
      <4>1. \A state : HostsIn(h, state)' =
                         {c \in HostsOf(h)' : InSource(SiteHooks[h], decode'[c]) = state}
        BY DEF HostsIn
      <4> QED
        BY <3>4, <3>5, <3>6, <4>1
    <3>8. Cardinality({home}) = 1
      BY FS_Singleton
    <3> QED
      BY <3>7, <3>8 DEF Recognised
  <2> QED
    BY <1>1, <1>2, <2>3, <2>4 DEF SitesInv, LaterPort
<1>4. CASE ports > 0
  <2>1. (\A h \in HookIds : Recognised(h)) /\ tree = decode
    BY <1>1, <1>4 DEF SitesInv, LaterPort
  <2>2. UNCHANGED <<decode, proposed>>
    BY <1>1, <2>1
  <2>3. /\ \A h \in HookIds : (\A state : HostsIn(h, state)' = HostsIn(h, state))
        /\ SitesAreHosts'
    BY <2>2, HostsStand DEF SitesInv
  <2>4. \A h \in HookIds : Recognised(h)'
    BY <2>1, <2>3 DEF Recognised
  <2> QED
    BY <1>1, <1>2, <2>3, <2>4 DEF SitesInv, LaterPort
<1> QED
  BY <1>1, <1>3, <1>4

\* Porting a tree that this pipeline patched changes nothing: every hook is reported as
\* applied, whatever the payloads of the other hooks did to its anchor.
THEOREM PatchedRecognised == ASSUME HooksKeepApart PROVE SitesSpec => []PatchedTreeIsRecognised
<1>1. SitesInit => SitesInv
  BY SitesInit_Inv
<1>2. SitesInv /\ [SitesNext]_siteVars => SitesInv'
  <2> SUFFICES ASSUME SitesInv, [SitesNext]_siteVars PROVE SitesInv'
    OBVIOUS
  <2>1. ASSUME NEW answers, ResolveAll(answers) PROVE SitesInv'
    BY <2>1, ResolveAll_Inv
  <2>2. CASE ComposeOperations
    BY <2>2, ComposeOperations_Inv
  <2>3. CASE ApplyForm
    BY <2>3, ApplyForm_Inv
  <2>4. CASE PatcherEnds \/ UNCHANGED siteVars
    BY <2>4, PatcherEnds_Inv
  <2>5. CASE PortAgain
    BY <2>5, PortAgain_Inv
  <2> QED
    BY <2>1, <2>2, <2>3, <2>4, <2>5 DEF SitesNext
<1>3. SitesInv => PatchedTreeIsRecognised
  BY DEF SitesInv, LaterPort, AllApplied, PatchedTreeIsRecognised
<1> QED
  BY <1>1, <1>2, <1>3, PTL DEF SitesSpec

-----------------------------------------------------------------------------
(*****************************************************************************)
(* TreePort: a port that passes carries in its APK what its resolution asks.  *)
(*****************************************************************************)

\* a tree: every smali file in it is a class with its code
TreeHolds(aTree) == \A p \in DOMAIN aTree : IsSmali(p) => SmaliHolds(aTree[p])

TreePortInv ==
  /\ resolution \in Resolutions /\ position \in Nat \ {0}
  /\ TreeHolds(worktree) /\ ApkHolds(intermediate) /\ ApkHolds(published)
  /\ portStage \notin {"resolved", "refused"} => Compiles(resolution)
  /\ portStage = "passed" => AssertionsHold(resolution, StockApk, published, DecodedOutput)

\* A sequence has a length and is indexed up to it.
LEMMA SequencesAreCounted ==
  ASSUME NEW lines, IsSequence(lines)
  PROVE  Len(lines) \in Nat /\ DOMAIN lines = 1..Len(lines)
<1>1. PICK S : lines \in Seq(S)
  BY DEF IsSequence
<1> QED
  BY <1>1

\* A function on an interval that starts at one is a sequence.
LEMMA ListingIsSequence ==
  ASSUME NEW n \in Int, NEW f, f = [i \in 1..n |-> f[i]]
  PROVE  IsSequence(f)
<1>1. PICK m \in Nat : 1..m = 1..n
  <2>1. CASE n \in Nat
    BY <2>1
  <2>2. CASE n \notin Nat
    <3>1. 1..0 = 1..n
      BY <2>2
    <3> QED
      BY <3>1
  <2> QED
    BY <2>1, <2>2
<1> DEFINE S == {f[i] : i \in DOMAIN f}
<1>2. f = [i \in 1..m |-> f[i]] /\ \A i \in 1..m : f[i] \in S
  BY <1>1
<1> HIDE DEF S
<1>3. f \in Seq(S)
  <2>1. f \in [1..m -> S] /\ m \in Nat
    BY <1>1, <1>2
  <2> QED
    BY <2>1
<1> QED
  BY <1>3 DEF IsSequence, S

\* A method matches a sequence finitely often.
LEMMA MatchesAreCounted ==
  ASSUME NEW lines, IsSequence(lines), NEW wanted, IsSequence(wanted)
  PROVE  IsFiniteSet(MatchesOf(lines, wanted)) /\ SequenceCount(lines, wanted) \in Nat
<1>1. Len(lines) + 1 - Len(wanted) \in Int
  BY SequencesAreCounted
<1>2. IsFiniteSet(1..(Len(lines) + 1 - Len(wanted)))
  BY <1>1, FS_Interval
<1>3. MatchesOf(lines, wanted) \in SUBSET (1..(Len(lines) + 1 - Len(wanted)))
  BY DEF MatchesOf
<1>4. IsFiniteSet(MatchesOf(lines, wanted))
  BY <1>2, <1>3, FS_Subset
<1> QED
  BY <1>4, FS_CardinalityType DEF SequenceCount

\* A place for m of l lines, moved by at most m - n, is a place for n of them.
LEMMA PlacesShift ==
  ASSUME NEW l \in Nat, NEW m \in Nat, NEW n \in Nat,
         NEW k \in 0..(m - n), NEW i \in 1..(l + 1 - m)
  PROVE  i \in Int /\ i + k \in 1..(l + 1 - n)
OBVIOUS

\* The j-th of n lines is the (k + j)-th of the m lines they are found among.
LEMMA PartShifts ==
  ASSUME NEW m \in Nat, NEW n \in Nat, NEW k \in 0..(m - n), NEW j \in 1..n, NEW i \in Int
  PROVE  k + j \in 1..m /\ (i + k) + j - 1 = i + (k + j) - 1
OBVIOUS

\* Wherever the final sequence of an edit is found, its payload is.
LEMMA PayloadIsCounted ==
  ASSUME NEW lines, IsSequence(lines), NEW op, IsSequence(op.final), IsSequence(op.payload),
         ShowsPayload(op)
  PROVE  SequenceCount(lines, op.final) <= SequenceCount(lines, op.payload)
<1> DEFINE Finals == MatchesOf(lines, op.final)  Payloads == MatchesOf(lines, op.payload)
<1>1. /\ Len(lines) \in Nat
      /\ Len(op.final) \in Nat /\ DOMAIN op.final = 1..Len(op.final)
      /\ Len(op.payload) \in Nat /\ DOMAIN op.payload = 1..Len(op.payload)
  BY SequencesAreCounted
<1>2. PICK k \in 0..(Len(op.final) - Len(op.payload)) :
        \A j \in DOMAIN op.payload : op.final[k + j] = op.payload[j]
  BY DEF ShowsPayload
<1> DEFINE moved == [i \in Finals |-> i + k]
<1>3. ASSUME NEW i \in Finals PROVE i \in Int /\ i + k \in Payloads
  <2>1. /\ i \in 1..(Len(lines) + 1 - Len(op.final))
        /\ \A j \in DOMAIN op.final : lines[i + j - 1] = op.final[j]
    BY <1>3 DEF MatchesOf
  <2>2. i \in Int /\ i + k \in 1..(Len(lines) + 1 - Len(op.payload))
    BY <1>1, <1>2, <2>1, PlacesShift
  <2>3. ASSUME NEW j \in DOMAIN op.payload PROVE lines[(i + k) + j - 1] = op.payload[j]
    <3>1. k + j \in DOMAIN op.final /\ (i + k) + j - 1 = i + (k + j) - 1
      <4>1. /\ j \in 1..Len(op.payload) /\ i \in Int
            /\ Len(op.final) \in Nat /\ Len(op.payload) \in Nat
            /\ k \in 0..(Len(op.final) - Len(op.payload))
        BY <1>1, <1>2, <2>2, <2>3
      <4>2. k + j \in 1..Len(op.final) /\ (i + k) + j - 1 = i + (k + j) - 1
        BY <4>1, PartShifts
      <4> QED
        BY <1>1, <4>2
    <3>2. lines[i + (k + j) - 1] = op.final[k + j]
      BY <2>1, <3>1
    <3> QED
      BY <1>2, <2>3, <3>1, <3>2
  <2> QED
    BY <2>2, <2>3 DEF MatchesOf
<1>4. moved \in Injection(Finals, Payloads)
  <2>1. moved \in [Finals -> Payloads]
    BY <1>3
  <2>2. ASSUME NEW a \in Finals, NEW b \in Finals, moved[a] = moved[b] PROVE a = b
    <3>1. a \in Int /\ b \in Int /\ k \in Int /\ a + k = b + k
      BY <2>2, <1>2, <1>3
    <3> QED
      BY <3>1
  <2> HIDE DEF moved
  <2> QED
    BY <2>1, <2>2, Fun_IsInj DEF Injection, IsInjective
<1>5. IsFiniteSet(Payloads)
  BY MatchesAreCounted
<1> HIDE DEF moved, Finals, Payloads
<1>6. Cardinality(Finals) <= Cardinality(Payloads)
  BY <1>4, <1>5, FS_Injection
<1> QED
  BY <1>6 DEF SequenceCount, Finals, Payloads

\* An edit leaves a sequence of lines.
LEMMA RewrittenIsSequence ==
  ASSUME NEW op, SmaliEditHolds(op), NEW lines, IsSequence(lines)
  PROVE  IsSequence(Rewritten(op, lines))
<1>1. Growth(op) \in Int
  BY SequencesAreCounted DEF SmaliEditHolds, Growth
<1>2. Cardinality(Selected(op, lines)) \in Int
  <2>1. Selected(op, lines) \in SUBSET MatchesOf(lines, op.pre)
    BY DEF Selected
  <2>2. IsFiniteSet(MatchesOf(lines, op.pre))
    BY MatchesAreCounted DEF SmaliEditHolds
  <2> QED
    BY <2>1, <2>2, FS_Subset, FS_CardinalityType
<1>3. Len(lines) + Cardinality(Selected(op, lines)) * Growth(op) \in Int
  BY <1>1, <1>2, SequencesAreCounted
<1> QED
  BY <1>3, ListingIsSequence DEF Rewritten

\* A smali edit leaves a tree.
LEMMA EditKeepsTree ==
  ASSUME NEW op, SmaliEditHolds(op), NEW aTree, TreeHolds(aTree),
         NEW after \in AfterSmaliEdit(op, aTree)
  PROVE  TreeHolds(after)
<1>1. PICK p \in {q \in Located(aTree, op.class) : op.method \in DOMAIN aTree[q].code} :
        \/ after = aTree
        \/ after = [aTree EXCEPT ![p].code[op.method] =
                      Rewritten(op, aTree[p].code[op.method])]
  BY DEF AfterSmaliEdit
<1>2. CASE after = aTree
  BY <1>2
<1>3. CASE after # aTree
  <2> DEFINE lines == Rewritten(op, aTree[p].code[op.method])
  <2>1. p \in DOMAIN aTree /\ IsSmali(p) /\ op.method \in DOMAIN aTree[p].code
    BY <1>1 DEF Located
  <2>2. SmaliHolds(aTree[p]) /\ IsSequence(aTree[p].code[op.method])
    BY <2>1 DEF TreeHolds, SmaliHolds, CodeHolds
  <2>3. IsSequence(lines)
    BY <2>2, RewrittenIsSequence
  <2> HIDE DEF lines
  <2> DEFINE code == [aTree[p].code EXCEPT ![op.method] = lines]
             file == [aTree[p] EXCEPT !.code = code]
  <2>4. after = [aTree EXCEPT ![p] = file]
    BY <1>1, <1>3 DEF lines
  <2>5. CodeHolds(code)
    BY <2>2, <2>3 DEF SmaliHolds, CodeHolds
  <2> HIDE DEF code
  <2>6. SmaliHolds(file)
    BY <2>2, <2>5 DEF SmaliHolds
  <2> HIDE DEF file
  <2> QED
    BY <2>4, <2>6 DEF TreeHolds
<1> QED
  BY <1>2, <1>3

\* An overlay leaves a tree.
LEMMA OverlayKeepsTree ==
  ASSUME NEW op, OverlayTreeHolds(op), NEW aTree, TreeHolds(aTree),
         NEW after \in AfterOverlay(op, aTree)
  PROVE  TreeHolds(after)
<1>1. after = aTree \/ after = Over(op.files, aTree)
  BY DEF AfterOverlay
<1>2. TreeHolds(Over(op.files, aTree))
  BY DEF TreeHolds, OverlayTreeHolds, Over
<1> QED
  BY <1>1, <1>2

\* What is written at a document leaves a tree.
LEMMA DocumentKeepsTree ==
  ASSUME NEW aTree, TreeHolds(aTree), NEW document \in Documents(aTree), NEW xml
  PROVE  TreeHolds([aTree EXCEPT ![document] = xml])
BY DEF TreeHolds, Documents

\* Every operation leaves a tree.
LEMMA OperationKeepsTree ==
  ASSUME NEW op, OperationHolds(op), NEW aTree, TreeHolds(aTree),
         NEW after \in AfterOperation(op, aTree)
  PROVE  TreeHolds(after)
<1>1. CASE op.kind = "smali_edit"
  BY <1>1, EditKeepsTree DEF OperationHolds, AfterOperation
<1>2. CASE op.kind = "overlay_tree"
  BY <1>2, OverlayKeepsTree DEF OperationHolds, AfterOperation
<1>3. CASE op.kind = "append_resource_entries"
  <2>1. after \in AfterAppendResources(op, aTree)
    BY <1>3 DEF AfterOperation
  <2> QED
    BY <2>1, DocumentKeepsTree DEF AfterAppendResources
<1>4. CASE op.kind = "append_manifest_components"
  <2>1. after \in AfterAppendComponents(op, aTree)
    BY <1>4 DEF AfterOperation
  <2> QED
    BY <2>1, DocumentKeepsTree DEF AfterAppendComponents
<1>5. CASE op.kind = "replace_resource_entry"
  <2>1. after \in AfterReplace(op, aTree)
    BY <1>5 DEF AfterOperation
  <2> QED
    BY <2>1, DocumentKeepsTree DEF AfterReplace
<1>6. CASE op.kind = "delete_path"
  <2>1. after = aTree \/ after = [p \in DOMAIN aTree \ {op.path} |-> aTree[p]]
    BY <1>6 DEF AfterOperation, AfterDelete
  <2> QED
    BY <2>1 DEF TreeHolds
<1> QED
  BY <1>1, <1>2, <1>3, <1>4, <1>5, <1>6 DEF OperationHolds, OperationKinds

\* A decoded tree has the classes of the APK in its smali files, each where its
\* DEX entry is, and the rest of the APK in the others.
LEMMA DecodedTree ==
  ASSUME NEW apk, ApkHolds(apk), NEW p \in DOMAIN DecodeOf(apk)
  PROVE  /\ IsSmali(p) =>
              /\ p[1] \in DOMAIN apk.dex
              /\ p[2] \in DOMAIN apk.dex[p[1]]
              /\ DecodeOf(apk)[p] = [class |-> p[2], code |-> apk.dex[p[1]][p[2]]]
         /\ ~IsSmali(p) => p \in DOMAIN apk.rest /\ DecodeOf(apk)[p] = apk.rest[p]
<1> DEFINE smali == UNION {{<<d, c>> : c \in DOMAIN apk.dex[d]} : d \in DOMAIN apk.dex}
<1>1. p \in smali \cup DOMAIN apk.rest
  BY DEF DecodeOf, Over
<1>2. DecodeOf(apk)[p] =
        IF p \in smali THEN [class |-> p[2], code |-> apk.dex[p[1]][p[2]]] ELSE apk.rest[p]
  BY <1>1 DEF DecodeOf, Over
<1>3. p \in smali => /\ p[1] \in DOMAIN apk.dex
                     /\ p[2] \in DOMAIN apk.dex[p[1]]
                     /\ IsSmali(p)
  BY DEF ApkHolds, IsSmali
<1>4. p \in DOMAIN apk.rest => ~IsSmali(p)
  BY DEF ApkHolds
<1> HIDE DEF smali
<1> QED
  BY <1>1, <1>2, <1>3, <1>4

\* The rest of an APK is in the tree decoded from it.
LEMMA DecodedRest ==
  ASSUME NEW apk
  PROVE  DOMAIN apk.rest \subseteq DOMAIN DecodeOf(apk)
BY DEF DecodeOf, Over

\* Decoding an APK gives a tree.
LEMMA DecodeGivesTree ==
  ASSUME NEW apk, ApkHolds(apk)
  PROVE  TreeHolds(DecodeOf(apk))
<1> SUFFICES ASSUME NEW p \in DOMAIN DecodeOf(apk), IsSmali(p)
             PROVE  SmaliHolds(DecodeOf(apk)[p])
  BY DEF TreeHolds
<1>1. /\ DecodeOf(apk)[p] = [class |-> p[2], code |-> apk.dex[p[1]][p[2]]]
      /\ CodeHolds(apk.dex[p[1]][p[2]])
  BY DecodedTree DEF ApkHolds
<1> QED
  BY <1>1 DEF SmaliHolds

\* Building a tree gives an APK.
LEMMA BuildGivesApk ==
  ASSUME NEW aTree, TreeHolds(aTree)
  PROVE  ApkHolds(BuildOf(aTree))
<1> DEFINE apk == BuildOf(aTree)
<1>1. DOMAIN apk.dex \subseteq DexEntries
  BY DEF BuildOf, IsSmali
<1>2. ASSUME NEW d \in DOMAIN apk.dex, NEW c \in DOMAIN apk.dex[d]
      PROVE  CodeHolds(apk.dex[d][c])
  <2> DEFINE q == CHOOSE p \in DOMAIN aTree : p[1] = d /\ aTree[p].class = c
  <2>1. c \in ClassesOf(aTree, d) /\ apk.dex[d][c] = aTree[q].code
    BY <1>2 DEF BuildOf
  <2>2. \E p \in DOMAIN aTree : p[1] = d /\ aTree[p].class = c
    BY <2>1 DEF ClassesOf
  <2>3. q \in DOMAIN aTree /\ q[1] = d
    BY <2>2
  <2> HIDE DEF q
  <2> QED
    BY <1>1, <2>1, <2>3 DEF TreeHolds, SmaliHolds, IsSmali
<1>3. \A p \in DOMAIN apk.rest : ~IsSmali(p)
  BY DEF BuildOf
<1> QED
  BY <1>1, <1>2, <1>3 DEF ApkHolds

\* An APK may have a DEX entry of another, whichever it is.
LEMMA SwapKeepsApk ==
  ASSUME NEW apk, ApkHolds(apk), NEW other, ApkHolds(other), NEW d \in DOMAIN other.dex
  PROVE  ApkHolds([apk EXCEPT !.dex[d] = other.dex[d]])
BY DEF ApkHolds

\* A composed APK is one.
LEMMA ComposedIsApk ==
  ASSUME NEW b, NEW stock, ApkHolds(stock), NEW built, ApkHolds(built),
         BackendHolds(b), CompositionInputsHold(b, stock, built)
  PROVE  ApkHolds(Composed(b, stock, built))
<1>1. CASE Grafts(b)
  <2> DEFINE out == Graft(b, stock, built)
  <2>1. /\ out.rest = stock.rest
        /\ DOMAIN out.dex = DOMAIN stock.dex \cup b.add
        /\ \A d \in DOMAIN out.dex :
             out.dex[d] = IF d \in b.replace \cup b.add THEN built.dex[d] ELSE stock.dex[d]
    BY DEF Graft
  <2>2. b.replace \cup b.add \subseteq DOMAIN built.dex
    BY <1>1 DEF CompositionInputsHold
  <2> HIDE DEF out
  <2>3. ApkHolds(out)
    BY <2>1, <2>2 DEF ApkHolds
  <2> QED
    BY <1>1, <2>3 DEF Composed, out
<1>2. CASE ~Grafts(b)
  BY <1>2 DEF Composed
<1> QED
  BY <1>1, <1>2

\* What is verified of an operation on the tree decoded from an APK shows what
\* the operation was for in the APK.
LEMMA VerifiedIsInOutput ==
  ASSUME NEW apk, ApkHolds(apk), NEW op, OperationHolds(op),
         op.kind = "smali_edit" => ShowsPayload(op),
         OperationIsVerified(op, DecodeOf(apk))
  PROVE  InOutput(op, apk)
<1> DEFINE aTree == DecodeOf(apk)
<1>1. CASE op.kind = "smali_edit"
  <2>1. SmaliEditHolds(op) /\ EditIsVerified(op, aTree) /\ ShowsPayload(op)
    BY <1>1 DEF OperationHolds, OperationIsVerified
  <2>2. PICK p \in Located(aTree, op.class) :
          /\ op.method \in DOMAIN aTree[p].code
          /\ SequenceCount(aTree[p].code[op.method], op.final) = op.finals
    BY <2>1 DEF EditIsVerified
  <2>3. p \in DOMAIN aTree /\ IsSmali(p) /\ aTree[p].class = op.class
    BY <2>2 DEF Located
  <2>4. /\ p[1] \in DOMAIN apk.dex
        /\ p[2] \in DOMAIN apk.dex[p[1]]
        /\ aTree[p] = [class |-> p[2], code |-> apk.dex[p[1]][p[2]]]
    BY <2>3, DecodedTree
  <2> HIDE DEF aTree
  <2> DEFINE d == p[1]  lines == apk.dex[d][op.class][op.method]
  <2>5. /\ d \in DOMAIN apk.dex
        /\ op.class \in DOMAIN apk.dex[d]
        /\ op.method \in DOMAIN apk.dex[d][op.class]
        /\ SequenceCount(lines, op.final) = op.finals
    BY <2>2, <2>3, <2>4
  <2>6. IsSequence(lines)
    BY <2>5 DEF ApkHolds, CodeHolds
  <2> HIDE DEF d, lines
  <2>7. SequenceCount(lines, op.final) <= SequenceCount(lines, op.payload)
    BY <2>1, <2>6, PayloadIsCounted DEF SmaliEditHolds
  <2>8. SequenceCount(lines, op.payload) \in Nat
    BY <2>1, <2>6, MatchesAreCounted DEF SmaliEditHolds
  <2>9. SequenceCount(lines, op.payload) >= op.finals
    BY <2>1, <2>5, <2>7, <2>8 DEF SmaliEditHolds
  <2>10. IF op.payload = <<>> THEN SequenceCount(lines, op.final) = op.finals
                              ELSE SequenceCount(lines, op.payload) >= op.finals
    BY <2>5, <2>9
  <2> QED
    BY <1>1, <2>5, <2>10 DEF InOutput, lines
<1>2. CASE op.kind = "overlay_tree"
  <2>1. \A p \in DOMAIN op.files : p \in DOMAIN aTree /\ aTree[p] = op.files[p]
    BY <1>2 DEF OperationIsVerified
  <2>2. ASSUME NEW p \in DOMAIN op.files
        PROVE  IF IsSmali(p)
               THEN /\ p[1] \in DOMAIN apk.dex
                    /\ op.files[p].class \in DOMAIN apk.dex[p[1]]
                    /\ apk.dex[p[1]][op.files[p].class] = op.files[p].code
               ELSE p \in DOMAIN apk.rest /\ apk.rest[p] = op.files[p]
    BY <2>1, DecodedTree
  <2> QED
    BY <1>2, <2>2 DEF InOutput
<1>3. CASE op.kind = "append_resource_entries"
  <2>1. ResourcesAreVerified(aTree, op.document, op.entries)
    BY <1>3 DEF OperationIsVerified
  <2>2. \A e \in DOMAIN op.entries : apk.rest[op.document][e] = op.entries[e]
    BY <2>1, DecodedTree DEF ResourcesAreVerified, Documents, EntriesAreThere
  <2> QED
    BY <1>3, <2>2 DEF InOutput
<1>4. CASE op.kind = "append_manifest_components"
  <2>1. ManifestIsVerified(aTree, op.document, op.entries)
    BY <1>4 DEF OperationIsVerified
  <2>2. \A c \in DOMAIN op.entries : apk.rest[op.document].application[c] = op.entries[c]
    BY <2>1, DecodedTree DEF ManifestIsVerified, Documents, EntriesAreThere
  <2> QED
    BY <1>4, <2>2 DEF InOutput
<1>5. CASE op.kind = "replace_resource_entry"
  <2>1. ResourcesAreVerified(aTree, op.document, [e \in {op.entry} |-> op.after])
    BY <1>5 DEF OperationIsVerified
  <2>2. apk.rest[op.document][op.entry] = op.after
    BY <2>1, DecodedTree DEF ResourcesAreVerified, Documents, EntriesAreThere
  <2> QED
    BY <1>5, <2>2 DEF InOutput
<1>6. CASE op.kind = "delete_path"
  <2>1. op.path \notin DOMAIN aTree
    BY <1>6 DEF OperationIsVerified
  <2>2. op.path \notin DOMAIN apk.rest
    BY <2>1, DecodedRest
  <2> QED
    BY <1>6, <2>2 DEF InOutput
<1> QED
  BY <1>1, <1>2, <1>3, <1>4, <1>5, <1>6 DEF OperationHolds, OperationKinds

\* The stock APK is one, and so is the empty one.
LEMMA ApksHold == ApkHolds(StockApk) /\ ApkHolds(NoApk)
<1>1. ApkHolds(StockApk)
  BY TreePortAssumption
<1>2. DOMAIN NoApk.dex = {} /\ DOMAIN NoApk.rest = {}
  BY DEF NoApk
<1> QED
  BY <1>1, <1>2 DEF ApkHolds

\* What the build tool and the write may leave of an APK is an APK.
LEMMA StockEntriesKeepApk ==
  ASSUME NEW apk, ApkHolds(apk),
         NEW out \in {apk} \cup {[apk EXCEPT !.dex[d] = StockApk.dex[d]]
                                   : d \in DOMAIN apk.dex \cap DOMAIN StockApk.dex}
  PROVE  ApkHolds(out)
BY ApksHold, SwapKeepsApk

\* A port begins with the stock tree and no verdict.
LEMMA PortInit_Inv == PortInit => TreePortInv
<1> SUFFICES ASSUME PortInit PROVE TreePortInv
  OBVIOUS
<1> USE DEF PortInit
<1>1. TreeHolds(worktree)
  BY ApksHold, DecodeGivesTree
<1>2. ApkHolds(intermediate) /\ ApkHolds(published)
  BY ApksHold
<1> QED
  BY <1>1, <1>2 DEF TreePortInv

\* Every step of a port keeps its tree and its APKs in form, applies only what
\* was compiled, and passes only what the verifier found.
LEMMA PortNext_Inv == TreePortInv /\ [PortNext]_portVars => TreePortInv'
<1> SUFFICES ASSUME TreePortInv, [PortNext]_portVars PROVE TreePortInv'
  OBVIOUS
<1> USE DEF TreePortInv
<1>1. CASE CompilePort
  BY <1>1 DEF CompilePort
<1>2. CASE IndexTree
  BY <1>2 DEF IndexTree
<1>3. CASE ApplyOperation
  <2>1. ResolutionHolds(resolution)
    BY TreePortAssumption
  <2>2. position \in DOMAIN resolution.operations
    BY <1>3, <2>1, SequencesAreCounted DEF ApplyOperation, ResolutionHolds
  <2>3. TreeHolds(worktree')
    BY <1>3, <2>1, <2>2, OperationKeepsTree DEF ApplyOperation, ResolutionHolds, OperationAt
  <2> QED
    BY <1>3, <2>3 DEF ApplyOperation
<1>4. CASE RefuseOperation
  BY <1>4 DEF RefuseOperation
<1>5. CASE BuildTree
  <2>1. ApkHolds(intermediate')
    BY <1>5, BuildGivesApk, StockEntriesKeepApk DEF BuildTree, ToolBuilds
  <2> QED
    BY <1>5, <2>1 DEF BuildTree
<1>6. CASE StageOutput
  <2>1. BackendHolds(resolution.backend)
    BY TreePortAssumption DEF ResolutionHolds
  <2>2. ApkHolds(published')
    BY <1>6, <2>1, ApksHold, ComposedIsApk, StockEntriesKeepApk DEF StageOutput
  <2> QED
    BY <1>6, <2>2 DEF StageOutput
<1>7. CASE PublishOutput
  <2>1. ApkHolds(published')
    BY <1>7, ApksHold DEF PublishOutput
  <2> QED
    BY <1>7, <2>1 DEF PublishOutput
<1>8. CASE VerifyApk
  BY <1>8 DEF VerifyApk, DecodedOutput
<1>9. CASE UNCHANGED portVars
  BY <1>9 DEF portVars, DecodedOutput
<1> QED
  BY <1>1, <1>2, <1>3, <1>4, <1>5, <1>6, <1>7, <1>8, <1>9 DEF PortNext

\* A port whose verification passes carries every intent it says it implements
\* (apply.py:52-77, backend.py:534-587, verifier.py:120-197), for every set of
\* resolutions whose smali edits show their payload in their final sequence.
THEOREM PassedCarriesIntents ==
  ASSUME FinalsShowPayloads
  PROVE  PortSpec => []PassedCarriesEveryIntent
<1>1. TreePortInv => PassedCarriesEveryIntent
  <2> SUFFICES ASSUME TreePortInv, portStage = "passed", NEW h \in Implemented(resolution)
               PROVE  /\ \E i \in DOMAIN resolution.operations : h \in OperationAt(i).intents
                      /\ \A i \in DOMAIN resolution.operations :
                           h \in OperationAt(i).intents => InOutput(OperationAt(i), published)
    BY DEF PassedCarriesEveryIntent
  <2>1. \E i \in DOMAIN resolution.operations : h \in OperationAt(i).intents
    BY DEF TreePortInv, Compiles, IntentsAreCovered, OperationAt
  <2>2. ASSUME NEW i \in DOMAIN resolution.operations
        PROVE  InOutput(OperationAt(i), published)
    <3>1. OperationHolds(OperationAt(i))
      BY TreePortAssumption DEF TreePortInv, ResolutionHolds, OperationAt
    <3>2. OperationAt(i).kind = "smali_edit" => ShowsPayload(OperationAt(i))
      BY FinalsShowPayloads DEF TreePortInv, FinalsShowPayloads, OperationAt
    <3>3. OperationIsVerified(OperationAt(i), DecodeOf(published))
      BY DEF TreePortInv, AssertionsHold, DecodedOutput, OperationAt
    <3> QED
      BY <3>1, <3>2, <3>3, VerifiedIsInOutput DEF TreePortInv
  <2> QED
    BY <2>1, <2>2
<1> QED
  BY PortInit_Inv, PortNext_Inv, <1>1, PTL DEF PortSpec

=============================================================================
