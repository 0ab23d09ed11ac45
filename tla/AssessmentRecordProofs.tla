------------------------- MODULE AssessmentRecordProofs ------------------------
(***************************************************************************)
(* For any number of callers of record(), keys, actors and surfaces: nobody  *)
(* is told of an assessment that is not the run's, and the run's row never    *)
(* names a derivation without an artifact.                                  *)
(*                                                                         *)
(* Both rest on the ledger: a published output stays what it was, so what a   *)
(* caller found when it was granted is still there when it files its row.    *)
(***************************************************************************)
EXTENDS AssessmentRecord, OperationLedgerProofs

\* An operation with a published artifact.
Published(k) == claim[k].status \in {"effect", "completed"}

CallTypes ==
    /\ pc \in [Calls -> {"called", "checked", "granted", "recorded", "filing", "done",
                         "refused", "crashed"}]
    /\ mine \in [Calls -> Request]
    /\ found \in [Calls -> Output \cup {NoOutput}]
    /\ authority \in [key : Keys, actor : Actors] \cup {NoAuthority}
    /\ crashes \in 0..MaxCrashes

\* A caller that is about to file, or has filed, found what is published.
FoundInv ==
    \A c \in Calls : pc[c] \in {"recorded", "filing", "done"} =>
        Published(mine[c].key) /\ found[c] = claim[mine[c].key].output

ToldInv == \A c \in Calls : pc[c] = "done" => authority = Identity(mine[c])

AssessmentInv ==
    LedgerInv /\ CallTypes /\ FoundInv /\ ToldInv /\ AuthorityHasArtifact

\* What is published stays published, with the same output.
StaysPublished ==
    \A k \in Keys : Published(k) =>
        Published(k)' /\ claim'[k].output = claim[k].output

-----------------------------------------------------------------------------
(* The calls of the ledger.                                                 *)

LEMMA BeginKeeps ==
  ASSUME claim \in [Keys -> Claim], NEW k \in Keys, NEW o \in Owners,
         BeginOperation(k, Input, o, TRUE)
  PROVE  StaysPublished
  <1>1. CASE UNCHANGED ledgerVars
    BY <1>1 DEF ledgerVars, StaysPublished, Published
  <1>2. CASE ~UNCHANGED ledgerVars
    <2>1. ~Published(k)
      BY <1>2 DEF BeginOperation, MayTakeOver, Published
    <2>2. \A j \in Keys \ {k} : claim'[j] = claim[j]
      BY <1>2 DEF BeginOperation
    <2> QED
      BY <2>1, <2>2 DEF StaysPublished, Published
  <1> QED
    BY <1>1, <1>2

LEMMA EffectKeeps ==
  ASSUME claim \in [Keys -> Claim], NEW k \in Keys, NEW o, NEW out \in Output,
         RecordEffect(k, o, out)
  PROVE  StaysPublished /\ claim'[k].status = "effect" /\ claim'[k].output = out
  <1>1. CASE EffectRepeated(k, o, out) /\ UNCHANGED ledgerVars
    BY <1>1 DEF EffectRepeated, ledgerVars, StaysPublished, Published
  <1>2. CASE /\ EffectWritable(k, o, out)
             /\ claim' = [claim EXCEPT ![k].status = "effect", ![k].output = out]
    <2>1. claim[k] \in Claim
      OBVIOUS
    <2>2. claim'[k].status = "effect" /\ claim'[k].output = out
      BY <1>2, <2>1 DEF Claim
    <2>3. ~Published(k)
      BY <1>2 DEF EffectWritable, Published
    <2>4. \A j \in Keys \ {k} : claim'[j] = claim[j]
      BY <1>2
    <2> QED
      BY <2>2, <2>3, <2>4 DEF StaysPublished, Published
  <1> QED
    BY <1>1, <1>2 DEF RecordEffect

LEMMA CompletionKeeps ==
  ASSUME claim \in [Keys -> Claim], NEW k \in Keys, NEW out, CompleteOperation(k, out)
  PROVE  StaysPublished
  <1>1. CASE claim[k].status = "completed" /\ UNCHANGED ledgerVars
    BY <1>1 DEF ledgerVars, StaysPublished, Published
  <1>2. CASE claim' = [claim EXCEPT ![k].status = "completed"]
    <2>1. claim[k] \in Claim
      OBVIOUS
    <2>2. claim'[k].status = "completed" /\ claim'[k].output = claim[k].output
      BY <1>2, <2>1 DEF Claim
    <2>3. \A j \in Keys \ {k} : claim'[j] = claim[j]
      BY <1>2
    <2> QED
      BY <2>2, <2>3 DEF StaysPublished, Published
  <1> QED
    BY <1>1, <1>2 DEF CompleteOperation

-----------------------------------------------------------------------------

LEMMA AssessmentInitInv == AssessmentInit => AssessmentInv
  <1> SUFFICES ASSUME AssessmentInit
               PROVE  AssessmentInv
    OBVIOUS
  <1>1. LedgerInit
    BY DEF AssessmentInit, LedgerInit, LegacyHistories
  <1>2. LedgerInv
    BY <1>1, InitInv
  <1>3. CallTypes
    BY AssessmentAssumption DEF AssessmentInit, CallTypes
  <1> QED
    BY <1>2, <1>3 DEF AssessmentInit, AssessmentInv, FoundInv, ToldInv, AuthorityHasArtifact

\* Every step calls the ledger by its own methods, or leaves it alone.
LEMMA CallsTheLedger == AssessmentInv /\ [AssessmentNext]_vars => [LedgerNext]_ledgerVars
  <1> SUFFICES ASSUME AssessmentInv, [AssessmentNext]_vars
               PROVE  [LedgerNext]_ledgerVars
    OBVIOUS
  <1>1. ASSUME NEW c \in Calls, Step(c) \/ Crash(c)
        PROVE  [LedgerNext]_ledgerVars
    <2> DEFINE k == mine[c].key
               o == mine[c].owner
               out == [producer |-> k, content |-> mine[c].surface]
    <2>1. k \in Keys /\ o \in Owners /\ out \in Output
      BY DEF AssessmentInv, CallTypes, Request, Output
    <2>2. CASE Check(c) \/ File(c) \/ Crash(c)
      BY <2>2 DEF Check, File, Crash
    <2>3. CASE Begin(c)
      <3>1. BeginOperation(k, Input, o, TRUE) \/ UNCHANGED ledgerVars
        BY <2>3 DEF Begin
      <3> QED
        BY <2>1, <3>1, AssessmentAssumption DEF LedgerNext
    <2>4. CASE RecordOutput(c)
      <3>1. RecordEffect(k, o, out) \/ UNCHANGED ledgerVars
        BY <2>4 DEF RecordOutput
      <3> QED
        BY <2>1, <3>1 DEF LedgerNext
    <2>5. CASE CompleteOutput(c)
      <3>1. CompleteOperation(k, found[c]) /\ found[c] \in Output
        <4>1. CompleteOperation(k, found[c]) /\ pc[c] = "recorded"
          BY <2>5 DEF CompleteOutput
        <4>2. Published(k) /\ found[c] = claim[k].output
          BY <4>1 DEF AssessmentInv, FoundInv
        <4> QED
          BY <2>1, <4>1, <4>2 DEF AssessmentInv, LedgerInv, OutputFitsStatus, Published
      <3> QED
        BY <2>1, <3>1 DEF LedgerNext
    <2> QED
      BY <1>1, <2>2, <2>3, <2>4, <2>5 DEF Step
  <1>2. CASE UNCHANGED vars
    BY <1>2 DEF vars
  <1> QED
    BY <1>1, <1>2 DEF AssessmentNext

\* A caller's step, whatever it does to the ledger, keeps the invariants as long
\* as what was published stays so and what it says of itself is true.
LEMMA CallerStep ==
  ASSUME AssessmentInv, StaysPublished, NEW c \in Calls,
         NEW label \in {"checked", "granted", "recorded", "filing", "refused", "crashed"},
         Goto(c, label), UNCHANGED <<mine, authority>>,
         crashes' \in 0..MaxCrashes,
         found' \in [Calls -> Output \cup {NoOutput}],
         \A d \in Calls \ {c} : found'[d] = found[d],
         label \in {"recorded", "filing"} =>
            Published(mine[c].key)' /\ found'[c] = claim'[mine[c].key].output
  PROVE  CallTypes' /\ FoundInv' /\ ToldInv' /\ AuthorityHasArtifact'
  <1>1. pc' = [pc EXCEPT ![c] = label] /\ pc \in [Calls -> {"called", "checked", "granted",
           "recorded", "filing", "done", "refused", "crashed"}]
    BY DEF Goto, AssessmentInv, CallTypes
  <1>2. CallTypes'
    BY <1>1 DEF AssessmentInv, CallTypes
  <1>3. mine[c].key \in Keys /\ \A d \in Calls : mine[d].key \in Keys
    BY DEF AssessmentInv, CallTypes, Request
  <1>4. FoundInv'
    <2> SUFFICES ASSUME NEW d \in Calls, pc'[d] \in {"recorded", "filing", "done"}
                 PROVE  Published(mine[d].key)' /\ found'[d] = claim'[mine[d].key].output
      BY DEF FoundInv, Published
    <2>1. CASE d = c
      BY <1>1, <2>1
    <2>2. CASE d # c
      <3>1. Published(mine[d].key) /\ found[d] = claim[mine[d].key].output
        BY <1>1, <2>2 DEF AssessmentInv, FoundInv
      <3> QED
        BY <1>3, <2>2, <3>1 DEF StaysPublished
    <2> QED
      BY <2>1, <2>2
  <1>5. ToldInv'
    BY <1>1 DEF AssessmentInv, ToldInv, Identity
  <1>6. AuthorityHasArtifact'
    <2> SUFFICES ASSUME authority # NoAuthority
                 PROVE  Published(authority.key)'
      BY DEF AuthorityHasArtifact, Published
    <2>1. authority.key \in Keys
      BY DEF AssessmentInv, CallTypes
    <2>2. Published(authority.key)
      BY DEF AssessmentInv, AuthorityHasArtifact, Published
    <2> QED
      BY <2>1, <2>2 DEF StaysPublished
  <1> QED
    BY <1>2, <1>4, <1>5, <1>6

LEMMA AssessmentStep ==
  ASSUME AssessmentInv, [AssessmentNext]_vars
  PROVE  CallTypes' /\ FoundInv' /\ ToldInv' /\ AuthorityHasArtifact'
  <1> DEFINE Goal == CallTypes' /\ FoundInv' /\ ToldInv' /\ AuthorityHasArtifact'
  <1>0. /\ claim \in [Keys -> Claim]
        /\ UNCHANGED ledgerVars => StaysPublished
        /\ crashes \in 0..MaxCrashes /\ found \in [Calls -> Output \cup {NoOutput}]
    BY DEF AssessmentInv, LedgerInv, LedgerTypeOK, CallTypes, ledgerVars, StaysPublished,
           Published
  <1>1. ASSUME NEW c \in Calls, Step(c) \/ Crash(c)
        PROVE  Goal
    <2> DEFINE k == mine[c].key
               o == mine[c].owner
               out == [producer |-> k, content |-> mine[c].surface]
    <2>1. k \in Keys /\ o \in Owners /\ out \in Output
      BY DEF AssessmentInv, CallTypes, Request, Output
    <2>2. CASE Check(c)
      <3>1. PICK label \in {"checked", "refused"} : Goto(c, label)
        BY <2>2 DEF Check
      <3>2. StaysPublished /\ UNCHANGED <<mine, authority, found, crashes>>
        BY <1>0, <2>2 DEF Check, Kept
      <3> QED
        BY <1>0, <3>1, <3>2, CallerStep
    <2>3. CASE Begin(c)
      <3>1. CASE Adoptable(k, Input) /\ UNCHANGED ledgerVars /\ Goto(c, "filing")
                 /\ found' = [found EXCEPT ![c] = claim[k].output]
        <4>1. Published(k) /\ claim[k].output \in Output
          BY <2>1, <3>1 DEF Adoptable, Published, AssessmentInv, LedgerInv, OutputFitsStatus
        <4>2. StaysPublished /\ UNCHANGED <<mine, authority, crashes>>
          BY <1>0, <2>3, <3>1 DEF Begin, Kept
        <4>3. /\ found' \in [Calls -> Output \cup {NoOutput}]
              /\ \A d \in Calls \ {c} : found'[d] = found[d]
              /\ Published(k)' /\ found'[c] = claim'[k].output
          BY <1>0, <2>1, <3>1, <4>1, <4>2 DEF StaysPublished
        <4> QED
          BY <1>0, <3>1, <4>2, <4>3, CallerStep
      <3>2. CASE BeginOperation(k, Input, o, TRUE) /\ Goto(c, "granted") /\ UNCHANGED found
        <4>1. StaysPublished
          BY <1>0, <2>1, <3>2, BeginKeeps
        <4>2. UNCHANGED <<mine, authority, crashes>>
          BY <2>3 DEF Begin, Kept
        <4> QED
          BY <1>0, <3>2, <4>1, <4>2, CallerStep
      <3> QED
        BY <2>3, <3>1, <3>2 DEF Begin
    <2>4. CASE RecordOutput(c)
      <3>1. CASE RecordEffect(k, o, out) /\ Goto(c, "recorded")
                 /\ found' = [found EXCEPT ![c] = out]
        <4>1. StaysPublished /\ claim'[k].status = "effect" /\ claim'[k].output = out
          BY <1>0, <2>1, <3>1, EffectKeeps
        <4>2. UNCHANGED <<mine, authority, crashes>>
          BY <2>4 DEF RecordOutput, Kept
        <4>3. /\ found' \in [Calls -> Output \cup {NoOutput}]
              /\ \A d \in Calls \ {c} : found'[d] = found[d]
              /\ Published(k)' /\ found'[c] = claim'[k].output
          BY <1>0, <2>1, <3>1, <4>1, <4>2 DEF Published
        <4> QED
          BY <1>0, <3>1, <4>1, <4>2, <4>3, CallerStep
      <3>2. CASE UNCHANGED <<ledgerVars, found>> /\ Goto(c, "refused")
        <4>1. StaysPublished /\ UNCHANGED <<mine, authority, crashes, found>>
          BY <1>0, <2>4, <3>2 DEF RecordOutput, Kept
        <4> QED
          BY <1>0, <3>2, <4>1, CallerStep
      <3> QED
        BY <2>4, <3>1, <3>2 DEF RecordOutput
    <2>5. CASE CompleteOutput(c)
      <3>1. /\ pc[c] = "recorded" /\ CompleteOperation(k, found[c]) /\ Goto(c, "filing")
            /\ UNCHANGED <<mine, authority, crashes, found>>
        BY <2>5 DEF CompleteOutput, Kept
      <3>2. StaysPublished
        BY <1>0, <2>1, <3>1, CompletionKeeps
      <3>3. Published(k) /\ found[c] = claim[k].output
        BY <3>1 DEF AssessmentInv, FoundInv
      <3>4. Published(k)' /\ found'[c] = claim'[k].output
        BY <2>1, <3>1, <3>2, <3>3 DEF StaysPublished
      <3> QED
        BY <1>0, <3>1, <3>2, <3>4, CallerStep
    <2>6. CASE File(c)
      <3>1. CASE Goto(c, "refused") /\ UNCHANGED authority
        <4>1. StaysPublished /\ UNCHANGED <<mine, crashes, found>>
          BY <1>0, <2>6 DEF File, Kept
        <4> QED
          BY <1>0, <3>1, <4>1, CallerStep
      <3>2. CASE /\ authority \in {NoAuthority, Identity(mine[c])}
                 /\ Goto(c, "done") /\ authority' = Identity(mine[c])
        <4>1. /\ pc[c] = "filing" /\ pc' = [pc EXCEPT ![c] = "done"]
              /\ UNCHANGED <<claim, mine, crashes, found>>
          BY <2>6, <3>2 DEF File, Kept, Goto, ledgerVars
        <4>2. Published(k) /\ found[c] = claim[k].output
          BY <4>1 DEF AssessmentInv, FoundInv
        <4>3. Identity(mine[c]) \in [key : Keys, actor : Actors] /\ Identity(mine[c]).key = k
          BY DEF Identity, AssessmentInv, CallTypes, Request
        <4>4. CallTypes'
          BY <3>2, <4>1, <4>3 DEF AssessmentInv, CallTypes
        <4>5. FoundInv'
          BY <4>1, <4>2 DEF AssessmentInv, CallTypes, FoundInv, Published
        <4>6. ToldInv'
          <5>1. \A d \in Calls : pc[d] = "done" => Identity(mine[d]) = Identity(mine[c])
            BY <3>2, <4>3, AssessmentAssumption DEF AssessmentInv, ToldInv, CallTypes, Request,
               Identity
          <5> QED
            BY <3>2, <4>1, <5>1 DEF AssessmentInv, CallTypes, ToldInv, Identity
        <4>7. AuthorityHasArtifact'
          BY <3>2, <4>1, <4>2, <4>3 DEF AuthorityHasArtifact, Published
        <4> QED
          BY <4>4, <4>5, <4>6, <4>7
      <3> QED
        BY <2>6, <3>1, <3>2 DEF File
    <2>7. CASE Crash(c)
      <3>1. /\ Goto(c, "crashed") /\ crashes < MaxCrashes /\ crashes' = crashes + 1
            /\ UNCHANGED <<ledgerVars, mine, found, authority>>
        BY <2>7 DEF Crash
      <3>2. crashes' \in 0..MaxCrashes
        BY <1>0, <3>1, AssessmentAssumption
      <3> QED
        BY <1>0, <3>1, <3>2, CallerStep
    <2> QED
      BY <1>1, <2>2, <2>3, <2>4, <2>5, <2>6, <2>7 DEF Step
  <1>2. CASE UNCHANGED vars
    BY <1>2 DEF vars, ledgerVars, callVars, AssessmentInv, CallTypes, FoundInv, ToldInv,
                AuthorityHasArtifact, Published, Identity
  <1> QED
    BY <1>1, <1>2 DEF AssessmentNext

-----------------------------------------------------------------------------

\* The inductive invariant: the ledger's, the types, and what each caller found.
THEOREM AssessmentInvariant == AssessmentSpec => []AssessmentInv
  <1>1. AssessmentInv /\ [AssessmentNext]_vars => AssessmentInv'
    BY AssessmentStep, CallsTheLedger, NextInv DEF AssessmentInv
  <1> QED
    BY AssessmentInitInv, <1>1, PTL DEF AssessmentSpec

\* The tables and the calls stay well typed.
THEOREM AssessmentTyped == AssessmentSpec => []AssessmentTypeOK
  <1>1. AssessmentInv => AssessmentTypeOK
    BY DEF AssessmentInv, LedgerInv, CallTypes, AssessmentTypeOK
  <1> QED
    BY AssessmentInvariant, <1>1, PTL

\* Every caller of record() that is told its assessment was recorded names the
\* run's row and holds the published artifact: "a run must not silently gain a
\* second one".
THEOREM ToldTheSame == AssessmentSpec => []EveryoneToldTheSame
  <1>1. AssessmentInv => EveryoneToldTheSame
    <2> SUFFICES ASSUME AssessmentInv, NEW c \in Calls, pc[c] = "done"
                 PROVE  authority = Identity(mine[c]) /\ found[c] = claim[authority.key].output
      BY DEF EveryoneToldTheSame
    <2>1. authority = Identity(mine[c])
      BY DEF AssessmentInv, ToldInv
    <2>2. found[c] = claim[mine[c].key].output
      BY DEF AssessmentInv, FoundInv
    <2> QED
      BY <2>1, <2>2 DEF Identity
  <1> QED
    BY AssessmentInvariant, <1>1, PTL

\* The row record_assessment_authority files never names a derivation without an
\* artifact, whichever caller died at whichever point.
THEOREM AuthorityBacked == AssessmentSpec => []AuthorityHasArtifact
  <1>1. AssessmentInv => AuthorityHasArtifact
    BY DEF AssessmentInv
  <1> QED
    BY AssessmentInvariant, <1>1, PTL

\* The callers of record() go through the ledger's methods alone, so their
\* operations, declared retry-safe, keep its promises whoever takes whose claim
\* over: one outcome for each, outputs written once, final settlements.
THEOREM AssessmentKeepsLedgerPromises ==
  AssessmentSpec => /\ ImplementsOneOutcome
                    /\ OutputIsWrittenOnce
                    /\ SettledIsFinal
                    /\ []CompletionIsProvable
  <1>1. AssessmentSpec => LedgerSpec
    <2>1. AssessmentInit => LedgerInit
      BY DEF AssessmentInit, LedgerInit, LegacyHistories
    <2> QED
      BY <2>1, CallsTheLedger, AssessmentInvariant, PTL DEF AssessmentSpec, LedgerSpec
  <1> QED
    BY <1>1, LedgerImplementsOneOutcome, OutputWrittenOnce, SettledFinal, CompletionProvable,
       PTL

=============================================================================
