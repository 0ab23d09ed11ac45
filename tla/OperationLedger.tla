--------------------------- MODULE OperationLedger ---------------------------
(***************************************************************************)
(* The operation tables of the pipeline's SQLite authority (ledger.py).    *)
(*                                                                         *)
(* Every stage of the pipeline is an operation named by the hash of its    *)
(* input.  The ledger keeps one mutable claim row for each operation and   *)
(* an append-only history of events beside it.  Every method opens BEGIN   *)
(* IMMEDIATE, so a method is one atomic step; what interleaves is whole    *)
(* calls, made by any number of attempts in any order.                     *)
(*                                                                         *)
(* A refused call raises ValueError and changes nothing, so a refusal is   *)
(* the absence of a step here; the modules that model callers name the     *)
(* refusals they react to.                                                 *)
(***************************************************************************)
EXTENDS Naturals, Sequences

CONSTANTS
    Keys,        \* operation keys
    Inputs,      \* what a claim pins: the operation kind with its input hash
    Owners,      \* owner tokens, one for each attempt
    Contents,    \* the bytes an effect may publish
    Nobody,      \* the empty owner token of a released claim
    NoOutput,    \* SQL NULL in the output column
    LegacyOwner, \* the owner token written by the claim backfill
    MaxClaims    \* bound on owner_attempt: how often one claim changes hands

ASSUME LedgerAssumption ==
    /\ Inputs # {}
    /\ Nobody \notin Owners
    /\ LegacyOwner \in Owners
    /\ NoOutput \notin [producer : Keys, content : Contents]
    /\ MaxClaims \in Nat \ {0}

VARIABLES
    claim,   \* operation_claims, one row for each key ("absent": no row)
    history  \* operation_events, in event_id order, for each key

ledgerVars == <<claim, history>>

-----------------------------------------------------------------------------
Output == [producer : Keys, content : Contents]

Status == {"pending", "effect", "completed", "quarantined"}

Event == [status : Status, input : Inputs, output : Output \cup {NoOutput}]

Claim == [status  : Status \cup {"absent"},
          input   : Inputs,
          owner   : Owners \cup {Nobody},
          attempt : Nat,
          output  : Output \cup {NoOutput}]

Pending(in)         == [status |-> "pending",     input |-> in, output |-> NoOutput]
Effect(in, out)     == [status |-> "effect",      input |-> in, output |-> out]
Completion(in, out) == [status |-> "completed",   input |-> in, output |-> out]
Quarantine(in, out) == [status |-> "quarantined", input |-> in, output |-> out]

\* The histories a ledger written before operation_claims existed may hold.
LegacyHistories(k) ==
    LET Own == {out \in Output : out.producer = k} IN
    {<<>>}
    \cup {<<Pending(in)>> : in \in Inputs}
    \cup {<<Pending(in), Quarantine(in, NoOutput)>> : in \in Inputs}
    \cup {<<Pending(in), Effect(in, out)>> : in \in Inputs, out \in Own}
    \cup {<<Pending(in), Effect(in, out), Completion(in, out)>> :
             in \in Inputs, out \in Own}

\* _backfill_claims: a key with events and no claim gets the row its latest
\* event implies, owned by nobody who could still be running.
Backfill(h) ==
    IF h = <<>>
    THEN [status |-> "absent", input |-> CHOOSE in \in Inputs : TRUE,
          owner |-> Nobody, attempt |-> 0, output |-> NoOutput]
    ELSE [status |-> h[Len(h)].status, input |-> h[Len(h)].input,
          owner |-> LegacyOwner, attempt |-> 0, output |-> h[Len(h)].output]

LedgerInit ==
    /\ history \in [Keys -> UNION {LegacyHistories(k) : k \in Keys}]
    /\ \A k \in Keys : history[k] \in LegacyHistories(k)
    /\ claim = [k \in Keys |-> Backfill(history[k])]

-----------------------------------------------------------------------------
(* What a caller of begin_operation meets, in the order the code asks.      *)

Matches(k, in) == claim[k].status # "absent" /\ claim[k].input = in

\* The recorded output is returned instead of the work being claimed.
Adoptable(k, in) == Matches(k, in) /\ claim[k].status \in {"effect", "completed"}

\* Mutant: an effect can be taken over as a pending claim can.
MayTakeOverEffect(k, in, o, safe) ==
    /\ Matches(k, in)
    /\ claim[k].status \in {"pending", "effect"}
    /\ claim[k].owner # o
    /\ claim[k].owner = Nobody \/ safe

\* A pending claim passes to another owner once released, or at any time when
\* the caller declared the operation retry-safe.
MayTakeOver(k, in, o, safe) ==
    /\ Matches(k, in)
    /\ claim[k].status = "pending"
    /\ claim[k].owner # o
    /\ claim[k].owner = Nobody \/ safe

\* The caller already holds the pending claim: the call repeats its grant.
Holds(k, in, o) ==
    Matches(k, in) /\ claim[k].status = "pending" /\ claim[k].owner = o

\* begin_operation returns None: the work is the caller's to do.
Granted(k, in, o, safe) ==
    \/ claim[k].status = "absent"
    \/ MayTakeOver(k, in, o, safe)
    \/ Holds(k, in, o)

BeginRefused(k, in, o, safe) == ~Adoptable(k, in) /\ ~Granted(k, in, o, safe)

BeginOperation(k, in, o, safe) ==
    \/ /\ claim[k].status = "absent"
       /\ claim' = [claim EXCEPT ![k] =
              [status |-> "pending", input |-> in, owner |-> o, attempt |-> 1,
               output |-> NoOutput]]
       /\ history' = [history EXCEPT ![k] = Append(@, Pending(in))]
    \/ /\ MayTakeOver(k, in, o, safe)
       /\ claim[k].attempt < MaxClaims
       /\ claim' = [claim EXCEPT ![k].owner = o, ![k].attempt = @ + 1]
       /\ history' = [history EXCEPT ![k] = Append(@, Pending(in))]
    \/ /\ Holds(k, in, o)
       /\ UNCHANGED ledgerVars

\* release_pending_operation blanks the owner and writes no event.
Releasable(k, o) == claim[k].status = "pending" /\ claim[k].owner = o

ReleasePending(k, o) ==
    /\ Releasable(k, o)
    /\ claim' = [claim EXCEPT ![k].owner = Nobody]
    /\ UNCHANGED history

\* Mutant: an effect already published is overwritten.
EffectWritableTwice(k, o, out) ==
    /\ out.producer = k
    /\ claim[k].owner = o
    /\ claim[k].status \in {"pending", "effect"}

\* record_effect checks the producer, then the owner, then the status.
EffectWritable(k, o, out) ==
    /\ out.producer = k
    /\ claim[k].owner = o
    /\ claim[k].status = "pending"

EffectRepeated(k, o, out) ==
    /\ out.producer = k
    /\ claim[k].owner = o
    /\ claim[k].status = "effect"
    /\ claim[k].output = out

RecordEffect(k, o, out) ==
    \/ /\ EffectWritable(k, o, out)
       /\ claim' = [claim EXCEPT ![k].status = "effect", ![k].output = out]
       /\ history' = [history EXCEPT ![k] =
              Append(@, Effect(claim[k].input, out))]
    \/ /\ EffectRepeated(k, o, out)
       /\ UNCHANGED ledgerVars

\* complete_operation asks for the published bytes and not for the owner.
Completable(k, out) ==
    claim[k].status \in {"effect", "completed"} /\ claim[k].output = out

CompleteOperation(k, out) ==
    \/ /\ Completable(k, out)
       /\ claim[k].status = "effect"
       /\ claim' = [claim EXCEPT ![k].status = "completed"]
       /\ history' = [history EXCEPT ![k] =
              Append(@, Completion(claim[k].input, out))]
    \/ /\ Completable(k, out)
       /\ claim[k].status = "completed"
       /\ UNCHANGED ledgerVars

\* Mutants: a completed claim can be quarantined; anybody can quarantine.
QuarantinableSettled(k, o) == claim[k].owner = o /\ claim[k].status # "absent"

QuarantinableByAnyone(k, o) == claim[k].status \in {"pending", "effect"}

\* quarantine_operation returns silently unless the caller owns a claim that is
\* still open.
Quarantinable(k, o) ==
    claim[k].owner = o /\ claim[k].status \in {"pending", "effect"}

\* Mutant: the event does not repeat the row's output.
QuarantineOperationBare(k, o) ==
    \/ /\ Quarantinable(k, o)
       /\ claim' = [claim EXCEPT ![k].status = "quarantined"]
       /\ history' = [history EXCEPT ![k] = Append(@, Quarantine(claim[k].input, NoOutput))]
    \/ /\ ~Quarantinable(k, o)
       /\ UNCHANGED ledgerVars

QuarantineOperation(k, o) ==
    \/ /\ Quarantinable(k, o)
       /\ claim' = [claim EXCEPT ![k].status = "quarantined"]
       /\ history' = [history EXCEPT ![k] =
              Append(@, Quarantine(claim[k].input, claim[k].output))]
    \/ /\ ~Quarantinable(k, o)
       /\ UNCHANGED ledgerVars

\* require_completed_operation returns the row's output.
Completed(k, in) == Matches(k, in) /\ claim[k].status = "completed"

\* _require_completed_build_claim: the claim is completed with this receipt and
\* its history is pending events, one effect, one completion, all agreeing.
ProvesCompletion(k, receipt) ==
    LET h == history[k] IN
    /\ claim[k].status = "completed"
    /\ claim[k].output = receipt
    /\ receipt.producer = k
    /\ Len(h) >= 3
    /\ \A i \in 1..Len(h) :
          /\ h[i].input = claim[k].input
          /\ i <= Len(h) - 2 => h[i].status = "pending" /\ h[i].output = NoOutput
          /\ i > Len(h) - 2  => h[i].output = receipt
    /\ h[Len(h) - 1].status = "effect"
    /\ h[Len(h)].status = "completed"

LedgerNext ==
    \E k \in Keys, o \in Owners :
       \/ \E in \in Inputs, safe \in BOOLEAN : BeginOperation(k, in, o, safe)
       \/ ReleasePending(k, o)
       \/ \E out \in Output : RecordEffect(k, o, out)
       \/ \E out \in Output : CompleteOperation(k, out)
       \/ QuarantineOperation(k, o)

LedgerSpec == LedgerInit /\ [][LedgerNext]_ledgerVars

-----------------------------------------------------------------------------
(* Properties.                                                             *)

\* The history h is what claim row c says: n pending events, then at most one
\* effect, then at most one settlement.
Tells(c, h) ==
    IF c.status = "absent"
    THEN h = <<>>
    ELSE \E n \in 1..Len(h) :
           /\ \A i \in 1..Len(h) :
                /\ h[i].input = c.input
                /\ i <= n <=> h[i].status = "pending"
                /\ i <= n => h[i].output = NoOutput
                /\ i > n  => h[i].output = c.output
           /\ h[Len(h)].status = c.status
           /\ c.status = "pending" => Len(h) = n
           /\ c.status = "effect" => Len(h) = n + 1
           /\ c.status = "completed" => Len(h) = n + 2 /\ h[n + 1].status = "effect"
           /\ c.status = "quarantined" =>
                \/ Len(h) = n + 1
                \/ Len(h) = n + 2 /\ h[n + 1].status = "effect"

\* The tables hold well-formed rows.
LedgerTypeOK ==
    /\ claim \in [Keys -> Claim]
    /\ history \in [Keys -> Seq(Event)]

\* The mutable row and the append-only history never tell different stories:
\* for every key the history is some pending events, then at most one effect,
\* then at most one settlement, and the row is what the last event says.  The
\* two are written by separate statements of every method, and operation_status
\* reads one where begin_operation reads the other.
HistoryTellsClaim == \A k \in Keys : Tells(claim[k], history[k])

\* A row holds an output exactly from the effect on, and it is the operation's
\* own; a released claim is still pending, so no effect ever lacks an owner.
OutputFitsStatus ==
    \A k \in Keys :
      /\ claim[k].status \in {"absent", "pending"} => claim[k].output = NoOutput
      /\ claim[k].status \in {"effect", "completed"} =>
           claim[k].output \in Output /\ claim[k].output.producer = k
      /\ claim[k].owner = Nobody => claim[k].status \in {"absent", "pending"}

\* The build a verification grant stands on is re-proved from the history by
\* _require_completed_build_claim.  No sequence of legal calls completes an
\* operation that this check would then refuse for ever.
CompletionIsProvable ==
    \A k \in Keys :
      claim[k].status = "completed" => ProvesCompletion(k, claim[k].output)

\* Nobody can be handed, or complete, bytes other than the ones first published:
\* an output, once written, is never rewritten or withdrawn, by whatever mix of
\* retries, takeovers and quarantines.
OutputIsWrittenOnce ==
    [][\A k \in Keys :
         claim[k].output # NoOutput => claim'[k].output = claim[k].output]_ledgerVars

\* Completion and quarantine are final, and an owner loses a claim only while it
\* is still pending.  (retry_safe, release and takeover all reassign owners.)
SettledIsFinal ==
    [][\A k \in Keys :
         /\ claim[k].status \in {"completed", "quarantined"} =>
              claim'[k] = claim[k] /\ history'[k] = history[k]
         /\ claim[k].status = "effect" => claim'[k].owner = claim[k].owner
       ]_ledgerVars

-----------------------------------------------------------------------------
(* The abstraction of the tables: the one outcome a claim row stands for.   *)

PhaseOf(status) ==
    CASE status \in {"absent", "pending"} -> "open"
      [] status = "effect"      -> "offered"
      [] status = "completed"   -> "settled"
      [] status = "quarantined" -> "given_up"

claimOutcome ==
    [k \in Keys |-> [phase |-> PhaseOf(claim[k].status), output |-> claim[k].output]]

Abstract == INSTANCE OneOutcome WITH outcome <- claimOutcome, Outputs <- Output

\* The tables implement one outcome for each operation: no interleaving of
\* begin, release, record, complete and quarantine calls by any owners shows a
\* caller two outcomes, or an outcome after the operation was given up.
ImplementsOneOutcome == Abstract!Spec

=============================================================================
