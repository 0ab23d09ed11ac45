------------------------ MODULE OperationLedgerProofs ------------------------
(***************************************************************************)
(* For any number of keys, owners, inputs and contents: the ledger's rows   *)
(* stay well typed, its history always tells its rows, its outputs are       *)
(* written once, and it implements one outcome for each operation.          *)
(***************************************************************************)
EXTENDS OperationLedger, TLAPS

\* The inductive invariant.  The history's shape alone is not inductive: that a
\* pending row holds no output, and that only such a row lacks an owner, is what
\* the next effect event and the next quarantine event need.
LedgerInv == LedgerTypeOK /\ HistoryTellsClaim /\ OutputFitsStatus

\* One call, with its caller and arguments.
Call(k, o) ==
    \/ \E in \in Inputs, safe \in BOOLEAN : BeginOperation(k, in, o, safe)
    \/ ReleasePending(k, o)
    \/ \E out \in Output : RecordEffect(k, o, out)
    \/ \E out \in Output : CompleteOperation(k, out)
    \/ QuarantineOperation(k, o)

-----------------------------------------------------------------------------
(* Lemmas on rows and histories.                                            *)

LEMMA PendingType ==
    ASSUME NEW in \in Inputs
    PROVE  Pending(in) \in Event
BY DEF Pending, Event, Status

\* Appending keeps the events before it and adds the new one last.
LEMMA AppendFacts ==
    ASSUME NEW S, NEW h \in Seq(S), NEW e \in S
    PROVE  /\ Append(h, e) \in Seq(S)
           /\ Len(Append(h, e)) = Len(h) + 1
           /\ Append(h, e)[Len(h) + 1] = e
           /\ \A i \in 1..Len(h) : Append(h, e)[i] = h[i]
           /\ Len(h) \in Nat
OBVIOUS

\* A first claim's row is told by its single pending event.
LEMMA FirstClaimTold ==
    ASSUME NEW in \in Inputs, NEW c,
           c.status = "pending", c.input = in, c.output = NoOutput
    PROVE  Tells(c, Append(<<>>, Pending(in)))
<1>1. Append(<<>>, Pending(in)) = <<Pending(in)>>
  BY PendingType
<1>2. /\ Len(<<Pending(in)>>) = 1
      /\ <<Pending(in)>>[1].status = "pending"
      /\ <<Pending(in)>>[1].input = in
      /\ <<Pending(in)>>[1].output = NoOutput
  BY DEF Pending
<1> QED
  BY <1>1, <1>2 DEF Tells

\* A pending row's history has only pending events.
LEMMA PendingHistory ==
    ASSUME NEW c \in Claim, NEW h \in Seq(Event), Tells(c, h), c.status = "pending"
    PROVE  /\ Len(h) \in Nat \ {0}
           /\ \A i \in 1..Len(h) : /\ h[i].input = c.input
                                   /\ h[i].status = "pending"
                                   /\ h[i].output = NoOutput
BY DEF Tells

\* A takeover adds a pending event to a pending row's history.
LEMMA TakeoverTold ==
    ASSUME NEW c \in Claim, NEW h \in Seq(Event), Tells(c, h), c.status = "pending",
           NEW d \in Claim, d.status = "pending", d.input = c.input,
           d.output = NoOutput
    PROVE  Tells(d, Append(h, Pending(c.input)))
<1> DEFINE e == Pending(c.input)
           g == Append(h, e)
<1>1. c.input \in Inputs /\ e \in Event
  BY PendingType DEF Claim
<1>2. /\ Len(g) = Len(h) + 1 /\ g[Len(h) + 1] = e /\ Len(h) \in Nat \ {0}
      /\ \A i \in 1..Len(h) : g[i] = h[i]
  BY <1>1, AppendFacts, PendingHistory
<1>3. e.status = "pending" /\ e.input = c.input /\ e.output = NoOutput
  BY DEF Pending
<1>4. \A i \in 1..Len(g) : /\ g[i].input = d.input
                           /\ g[i].status = "pending"
                           /\ g[i].output = NoOutput
  <2> SUFFICES ASSUME NEW i \in 1..Len(g)
               PROVE  /\ g[i].input = d.input
                      /\ g[i].status = "pending"
                      /\ g[i].output = NoOutput
    OBVIOUS
  <2>1. CASE i = Len(h) + 1
    BY <2>1, <1>2, <1>3
  <2>2. CASE i \in 1..Len(h)
    BY <2>2, <1>2, PendingHistory
  <2> QED
    BY <2>1, <2>2, <1>2
<1>5. Len(g) \in 1..Len(g)
  BY <1>2
<1>6. Tells(d, g)
  <2> HIDE DEF g, e
  <2> QED
    BY <1>2, <1>4, <1>5 DEF Tells
<1> QED
  BY <1>6

\* An event after the pending ones moves the row on to the event's status.
LEMMA EventTold ==
    ASSUME NEW c \in Claim, NEW h \in Seq(Event), Tells(c, h),
           c.status \in {"pending", "effect"},
           c.status = "pending" => c.output = NoOutput,
           NEW d \in Claim, d.input = c.input,
           \/ c.status = "pending" /\ d.status \in {"effect", "quarantined"}
           \/ c.status = "effect" /\ d.status \in {"completed", "quarantined"}
                                  /\ d.output = c.output,
           NEW e \in Event, e.status = d.status, e.input = c.input,
           e.output = d.output
    PROVE  Tells(d, Append(h, e))
<1> DEFINE g == Append(h, e)
<1>1. /\ Len(g) = Len(h) + 1 /\ g[Len(h) + 1] = e /\ Len(h) \in Nat
      /\ \A i \in 1..Len(h) : g[i] = h[i]
  BY AppendFacts
<1>2. PICK n \in 1..Len(h) :
         /\ \A i \in 1..Len(h) :
              /\ h[i].input = c.input
              /\ i <= n <=> h[i].status = "pending"
              /\ i <= n => h[i].output = NoOutput
              /\ i > n  => h[i].output = c.output
         /\ h[Len(h)].status = c.status
         /\ c.status = "pending" => Len(h) = n
         /\ c.status = "effect" => Len(h) = n + 1
  BY DEF Tells
<1>3. \A i \in 1..Len(g) :
         /\ g[i].input = d.input
         /\ i <= n <=> g[i].status = "pending"
         /\ i <= n => g[i].output = NoOutput
         /\ i > n  => g[i].output = d.output
  <2> SUFFICES ASSUME NEW i \in 1..Len(g)
               PROVE  /\ g[i].input = d.input
                      /\ i <= n <=> g[i].status = "pending"
                      /\ i <= n => g[i].output = NoOutput
                      /\ i > n  => g[i].output = d.output
    OBVIOUS
  <2>1. CASE i = Len(h) + 1
    BY <2>1, <1>1, <1>2
  <2>2. CASE i \in 1..Len(h)
    BY <2>2, <1>1, <1>2
  <2> QED
    BY <2>1, <2>2, <1>1
<1>4. n \in 1..Len(g) /\ g[Len(g)].status = d.status
  BY <1>1, <1>2
<1>5. /\ d.status = "effect" => Len(g) = n + 1
      /\ d.status = "completed" => Len(g) = n + 2 /\ g[n + 1].status = "effect"
      /\ d.status = "quarantined" =>
           \/ Len(g) = n + 1
           \/ Len(g) = n + 2 /\ g[n + 1].status = "effect"
  BY <1>1, <1>2
<1>6. d.status \notin {"absent", "pending"}
  OBVIOUS
<1>7. Tells(d, g)
  <2> HIDE DEF g
  <2> QED
    BY <1>3, <1>4, <1>5, <1>6 DEF Tells
<1> QED
  BY <1>7

\* The row a backfill writes is told by the events it was read from.
LEMMA BackfillTold ==
    ASSUME NEW k \in Keys, NEW h \in LegacyHistories(k)
    PROVE  Tells(Backfill(h), h)
<1> DEFINE Own == {out \in Output : out.producer = k}
           S2 == {<<Pending(in)>> : in \in Inputs}
           S3 == {<<Pending(in), Quarantine(in, NoOutput)>> : in \in Inputs}
           S4 == {<<Pending(in), Effect(in, out)>> : in \in Inputs, out \in Own}
           S5 == {<<Pending(in), Effect(in, out), Completion(in, out)>> :
                    in \in Inputs, out \in Own}
<1>0. h \in {<<>>} \cup S2 \cup S3 \cup S4 \cup S5
  BY DEF LegacyHistories
<1>1. CASE h = <<>>
  BY <1>1 DEF Tells, Backfill
<1>2. CASE h \in S2
  BY <1>2 DEF Tells, Backfill, Pending
<1>3. CASE h \in S3
  BY <1>3 DEF Tells, Backfill, Pending, Quarantine
<1>4. CASE h \in S4
  BY <1>4 DEF Tells, Backfill, Pending, Effect
<1>5. CASE h \in S5
  <2> PICK in \in Inputs, out \in Own :
         h = <<Pending(in), Effect(in, out), Completion(in, out)>>
    BY <1>5
  <2>1. /\ Len(h) = 3
        /\ h[1] = Pending(in) /\ h[2] = Effect(in, out) /\ h[3] = Completion(in, out)
    OBVIOUS
  <2> QED
    BY <2>1 DEF Tells, Backfill, Pending, Effect, Completion
<1> HIDE DEF S2, S3, S4, S5
<1> QED
  BY <1>0, <1>1, <1>2, <1>3, <1>4, <1>5

-----------------------------------------------------------------------------
(* Calls touch one key.                                                     *)

\* What a call may do to the row (which becomes c) and the history (which
\* becomes h) of its key.
Stays(k, c, h) == c = claim[k] /\ h = history[k]

FirstClaim(k, c, h) ==
    /\ claim[k].status = "absent"
    /\ \E in \in Inputs, o \in Owners :
         /\ c = [status |-> "pending", input |-> in, owner |-> o, attempt |-> 1,
                 output |-> NoOutput]
         /\ h = Append(history[k], Pending(in))

TakesOver(k, c, h) ==
    /\ claim[k].status = "pending"
    /\ \E o \in Owners : c = [claim[k] EXCEPT !.owner = o, !.attempt = @ + 1]
    /\ h = Append(history[k], Pending(claim[k].input))

Released(k, c, h) ==
    /\ claim[k].status = "pending"
    /\ c = [claim[k] EXCEPT !.owner = Nobody]
    /\ h = history[k]

Publishes(k, c, h) ==
    /\ claim[k].status = "pending"
    /\ claim[k].owner \in Owners
    /\ \E out \in Output :
         /\ out.producer = k
         /\ c = [claim[k] EXCEPT !.status = "effect", !.output = out]
         /\ h = Append(history[k], Effect(claim[k].input, out))

Settles(k, c, h) ==
    /\ claim[k].status = "effect"
    /\ c = [claim[k] EXCEPT !.status = "completed"]
    /\ h = Append(history[k], Completion(claim[k].input, claim[k].output))

GivesUp(k, c, h) ==
    /\ claim[k].status \in {"pending", "effect"}
    /\ claim[k].owner \in Owners
    /\ c = [claim[k] EXCEPT !.status = "quarantined"]
    /\ h = Append(history[k], Quarantine(claim[k].input, claim[k].output))

Moves(k, c, h) ==
    \/ Stays(k, c, h)
    \/ FirstClaim(k, c, h)
    \/ TakesOver(k, c, h)
    \/ Released(k, c, h)
    \/ Publishes(k, c, h)
    \/ Settles(k, c, h)
    \/ GivesUp(k, c, h)

\* Every call leaves every other key alone and makes one of these moves on its own.
LEMMA CallMoves ==
    ASSUME LedgerTypeOK, NEW k \in Keys, NEW o \in Owners, Call(k, o)
    PROVE  /\ \A j \in Keys : Moves(j, claim'[j], history'[j])
           /\ \A j \in Keys \ {k} : claim'[j] = claim[j] /\ history'[j] = history[j]
<1> USE DEF LedgerTypeOK
<1>1. ASSUME NEW in \in Inputs, NEW safe \in BOOLEAN, BeginOperation(k, in, o, safe)
      PROVE  /\ \A j \in Keys : Moves(j, claim'[j], history'[j])
             /\ \A j \in Keys \ {k} : claim'[j] = claim[j] /\ history'[j] = history[j]
  <2>1. CASE claim[k].status = "absent" /\ ~UNCHANGED ledgerVars
    BY <1>1, <2>1 DEF BeginOperation, MayTakeOver, Matches, Holds, Moves, Stays, FirstClaim
  <2>2. CASE claim[k].status # "absent" /\ ~UNCHANGED ledgerVars
    <3>1. /\ claim[k].status = "pending" /\ claim[k].input = in
          /\ claim' = [claim EXCEPT ![k] = [claim[k] EXCEPT !.owner = o, !.attempt = @ + 1]]
          /\ history' = [history EXCEPT ![k] = Append(history[k], Pending(in))]
      BY <1>1, <2>2 DEF BeginOperation, MayTakeOver, Matches, Claim
    <3> QED
      BY <3>1 DEF Moves, Stays, TakesOver
  <2>3. CASE UNCHANGED ledgerVars
    BY <2>3 DEF Moves, Stays, ledgerVars
  <2> QED
    BY <2>1, <2>2, <2>3
<1>2. ASSUME ReleasePending(k, o)
      PROVE  /\ \A j \in Keys : Moves(j, claim'[j], history'[j])
             /\ \A j \in Keys \ {k} : claim'[j] = claim[j] /\ history'[j] = history[j]
  BY <1>2 DEF ReleasePending, Releasable, Moves, Stays, Released
<1>3. ASSUME NEW out \in Output, RecordEffect(k, o, out)
      PROVE  /\ \A j \in Keys : Moves(j, claim'[j], history'[j])
             /\ \A j \in Keys \ {k} : claim'[j] = claim[j] /\ history'[j] = history[j]
  <2>1. CASE UNCHANGED ledgerVars
    BY <2>1 DEF Moves, Stays, ledgerVars
  <2>2. CASE ~UNCHANGED ledgerVars
    BY <1>3, <2>2 DEF RecordEffect, EffectWritable, Moves, Stays, Publishes
  <2> QED
    BY <2>1, <2>2
<1>4. ASSUME NEW out \in Output, CompleteOperation(k, out)
      PROVE  /\ \A j \in Keys : Moves(j, claim'[j], history'[j])
             /\ \A j \in Keys \ {k} : claim'[j] = claim[j] /\ history'[j] = history[j]
  BY <1>4 DEF CompleteOperation, Completable, Moves, Stays, Settles, ledgerVars
<1>5. ASSUME QuarantineOperation(k, o)
      PROVE  /\ \A j \in Keys : Moves(j, claim'[j], history'[j])
             /\ \A j \in Keys \ {k} : claim'[j] = claim[j] /\ history'[j] = history[j]
  BY <1>5 DEF QuarantineOperation, Quarantinable, Moves, Stays, GivesUp, ledgerVars
<1> QED
  BY <1>1, <1>2, <1>3, <1>4, <1>5 DEF Call

LEMMA MoveKeepsType ==
    ASSUME LedgerTypeOK, NEW k \in Keys, NEW c, NEW h, Moves(k, c, h)
    PROVE  c \in Claim /\ h \in Seq(Event)
<1>1. claim[k] \in Claim /\ history[k] \in Seq(Event)
  BY DEF LedgerTypeOK
<1>2. claim[k].input \in Inputs /\ claim[k].output \in Output \cup {NoOutput}
  BY <1>1 DEF Claim
<1>3. /\ \A in \in Inputs : Pending(in) \in Event
      /\ \A out \in Output : Effect(claim[k].input, out) \in Event
      /\ Completion(claim[k].input, claim[k].output) \in Event
      /\ Quarantine(claim[k].input, claim[k].output) \in Event
  BY <1>2 DEF Pending, Effect, Completion, Quarantine, Event, Status
<1>4. claim[k].attempt \in Nat /\ claim[k].owner \in Owners \cup {Nobody}
  BY <1>1 DEF Claim
<1>5. CASE Stays(k, c, h)
  BY <1>1, <1>5 DEF Stays
<1>6. CASE FirstClaim(k, c, h)
  BY <1>1, <1>3, <1>6 DEF FirstClaim, Claim, Status
<1>7. CASE TakesOver(k, c, h)
  <2>1. PICK o \in Owners : c = [claim[k] EXCEPT !.owner = o, !.attempt = @ + 1]
    BY <1>7 DEF TakesOver
  <2>2. c \in Claim
    <3>1. c = [status |-> claim[k].status, input |-> claim[k].input, owner |-> o,
              attempt |-> claim[k].attempt + 1, output |-> claim[k].output]
      BY <1>1, <2>1 DEF Claim
    <3>2. claim[k].status \in Status \cup {"absent"} /\ claim[k].attempt + 1 \in Nat
      BY <1>1, <1>4 DEF Claim
    <3> QED
      BY <1>2, <3>1, <3>2 DEF Claim
  <2> QED
    BY <1>1, <1>2, <1>3, <1>7, <2>2 DEF TakesOver
<1>8. CASE Released(k, c, h)
  BY <1>1, <1>8 DEF Released, Claim
<1>9. CASE Publishes(k, c, h)
  <2>1. PICK out \in Output :
          /\ c = [claim[k] EXCEPT !.status = "effect", !.output = out]
          /\ h = Append(history[k], Effect(claim[k].input, out))
    BY <1>9 DEF Publishes
  <2>2. c \in Claim
    <3>1. c = [status |-> "effect", input |-> claim[k].input, owner |-> claim[k].owner,
              attempt |-> claim[k].attempt, output |-> out]
      BY <1>1, <2>1 DEF Claim
    <3> QED
      BY <1>2, <1>4, <3>1 DEF Claim, Status
  <2>3. h \in Seq(Event)
    <3>1. history[k] \in Seq(Event) /\ Effect(claim[k].input, out) \in Event
      BY <1>1, <1>3
    <3> QED
      BY <2>1, <3>1, AppendFacts
  <2> QED
    BY <2>2, <2>3
<1>10. CASE Settles(k, c, h)
  <2>1. c \in Claim
    <3>1. c = [status |-> "completed", input |-> claim[k].input, owner |-> claim[k].owner,
              attempt |-> claim[k].attempt, output |-> claim[k].output]
      BY <1>1, <1>10 DEF Settles, Claim
    <3> QED
      BY <1>2, <1>4, <3>1 DEF Claim, Status
  <2>2. h \in Seq(Event)
    <3>1. h = Append(history[k], Completion(claim[k].input, claim[k].output))
      BY <1>10 DEF Settles
    <3> QED
      BY <1>1, <1>3, <3>1, AppendFacts
  <2> QED
    BY <2>1, <2>2
<1>11. CASE GivesUp(k, c, h)
  <2>1. c \in Claim
    <3>1. c = [status |-> "quarantined", input |-> claim[k].input, owner |-> claim[k].owner,
              attempt |-> claim[k].attempt, output |-> claim[k].output]
      BY <1>1, <1>11 DEF GivesUp, Claim
    <3> QED
      BY <1>2, <1>4, <3>1 DEF Claim, Status
  <2>2. h \in Seq(Event)
    <3>1. h = Append(history[k], Quarantine(claim[k].input, claim[k].output))
      BY <1>11 DEF GivesUp
    <3> QED
      BY <1>1, <1>3, <3>1, AppendFacts
  <2> QED
    BY <2>1, <2>2
<1> QED
  BY <1>5, <1>6, <1>7, <1>8, <1>9, <1>10, <1>11 DEF Moves

LEMMA MoveKeepsTells ==
    ASSUME LedgerInv, NEW k \in Keys, NEW c, NEW h, Moves(k, c, h)
    PROVE  Tells(c, h)
<1>1. /\ claim[k] \in Claim /\ history[k] \in Seq(Event)
      /\ Tells(claim[k], history[k])
      /\ claim[k].status = "pending" => claim[k].output = NoOutput
      /\ claim[k].input \in Inputs /\ claim[k].output \in Output \cup {NoOutput}
  BY DEF LedgerInv, LedgerTypeOK, HistoryTellsClaim, OutputFitsStatus, Claim
<1>2. c \in Claim /\ h \in Seq(Event)
  BY MoveKeepsType DEF LedgerInv
<1>3. CASE Stays(k, c, h)
  BY <1>1, <1>3 DEF Stays
<1>4. CASE FirstClaim(k, c, h)
  <2>1. history[k] = <<>>
    BY <1>1, <1>4 DEF FirstClaim, Tells
  <2> QED
    BY <1>4, <2>1, FirstClaimTold DEF FirstClaim
<1>5. CASE TakesOver(k, c, h)
  <2>1. c.status = "pending" /\ c.input = claim[k].input /\ c.output = NoOutput
    BY <1>1, <1>5 DEF TakesOver, Claim
  <2> QED
    BY <1>1, <1>2, <1>5, <2>1, TakeoverTold DEF TakesOver
<1>6. CASE Released(k, c, h)
  <2>1. c.status = claim[k].status /\ c.input = claim[k].input /\ c.output = claim[k].output
    BY <1>1, <1>6 DEF Released, Claim
  <2> QED
    BY <1>1, <1>6, <2>1 DEF Released, Tells
<1>7. CASE Publishes(k, c, h)
  <2> PICK out \in Output :
         /\ c = [claim[k] EXCEPT !.status = "effect", !.output = out]
         /\ h = Append(history[k], Effect(claim[k].input, out))
    BY <1>7 DEF Publishes
  <2> DEFINE e == Effect(claim[k].input, out)
  <2>1. /\ e \in Event /\ e.status = "effect" /\ e.input = claim[k].input
        /\ e.output = out
    BY <1>1 DEF Effect, Event, Status
  <2>2. c.status = "effect" /\ c.input = claim[k].input /\ c.output = out
    BY <1>1 DEF Claim
  <2> HIDE DEF e
  <2>3. Tells(c, Append(history[k], e))
    BY <1>1, <1>2, <1>7, <2>1, <2>2, EventTold DEF Publishes
  <2> QED
    BY <2>3 DEF e
<1>8. CASE Settles(k, c, h)
  <2> DEFINE e == Completion(claim[k].input, claim[k].output)
  <2>1. /\ e \in Event /\ e.status = "completed" /\ e.input = claim[k].input
        /\ e.output = claim[k].output
    BY <1>1 DEF Completion, Event, Status
  <2>2. /\ c.status = "completed" /\ c.input = claim[k].input
        /\ c.output = claim[k].output
    BY <1>1, <1>8 DEF Settles, Claim
  <2> HIDE DEF e
  <2>3. Tells(c, Append(history[k], e))
    BY <1>1, <1>2, <1>8, <2>1, <2>2, EventTold DEF Settles
  <2> QED
    BY <1>8, <2>3 DEF e, Settles
<1>9. CASE GivesUp(k, c, h)
  <2> DEFINE e == Quarantine(claim[k].input, claim[k].output)
  <2>1. /\ e \in Event /\ e.status = "quarantined" /\ e.input = claim[k].input
        /\ e.output = claim[k].output
    BY <1>1 DEF Quarantine, Event, Status
  <2>2. /\ c.status = "quarantined" /\ c.input = claim[k].input
        /\ c.output = claim[k].output
    BY <1>1, <1>9 DEF GivesUp, Claim
  <2> HIDE DEF e
  <2>3. Tells(c, Append(history[k], e))
    BY <1>1, <1>2, <1>9, <2>1, <2>2, EventTold DEF GivesUp
  <2> QED
    BY <1>9, <2>3 DEF e, GivesUp
<1> QED
  BY <1>3, <1>4, <1>5, <1>6, <1>7, <1>8, <1>9 DEF Moves

LEMMA MoveKeepsFit ==
    ASSUME LedgerInv, NEW k \in Keys, NEW c, NEW h, Moves(k, c, h)
    PROVE  /\ c.status \in {"absent", "pending"} => c.output = NoOutput
           /\ c.status \in {"effect", "completed"} =>
                c.output \in Output /\ c.output.producer = k
           /\ c.owner = Nobody => c.status \in {"absent", "pending"}
<1>1. /\ claim[k] \in Claim
      /\ claim[k].status \in {"absent", "pending"} => claim[k].output = NoOutput
      /\ claim[k].status \in {"effect", "completed"} =>
           claim[k].output \in Output /\ claim[k].output.producer = k
      /\ claim[k].owner = Nobody => claim[k].status \in {"absent", "pending"}
  BY DEF LedgerInv, LedgerTypeOK, OutputFitsStatus
<1> QED
  <2>1. CASE Stays(k, c, h) \/ FirstClaim(k, c, h)
    BY <1>1, <2>1, LedgerAssumption DEF Stays, FirstClaim
  <2>2. CASE TakesOver(k, c, h) \/ Released(k, c, h)
    <3>1. c.status = "pending" /\ c.output = claim[k].output
      BY <1>1, <2>2 DEF TakesOver, Released, Claim
    <3> QED
      BY <1>1, <2>2, <3>1 DEF TakesOver, Released
  <2>3. CASE Publishes(k, c, h)
    <3>1. PICK out \in Output :
            out.producer = k /\ c = [claim[k] EXCEPT !.status = "effect", !.output = out]
      BY <2>3 DEF Publishes
    <3>2. c.status = "effect" /\ c.output = out /\ c.owner = claim[k].owner
      BY <1>1, <3>1 DEF Claim
    <3> QED
      BY <2>3, <3>1, <3>2, LedgerAssumption DEF Publishes
  <2>4. CASE Settles(k, c, h)
    <3>1. c.status = "completed" /\ c.output = claim[k].output /\ c.owner = claim[k].owner
      BY <1>1, <2>4 DEF Settles, Claim
    <3> QED
      BY <1>1, <2>4, <3>1 DEF Settles
  <2>5. CASE GivesUp(k, c, h)
    <3>1. c.status = "quarantined" /\ c.owner = claim[k].owner
      BY <1>1, <2>5 DEF GivesUp, Claim
    <3> QED
      BY <2>5, <3>1, LedgerAssumption DEF GivesUp
  <2> QED
    BY <2>1, <2>2, <2>3, <2>4, <2>5 DEF Moves

-----------------------------------------------------------------------------
(* The invariant.                                                           *)

LEMMA ShortHistory ==
    \A e1, e2, e3 \in Event :
       /\ <<e1>> \in Seq(Event)
       /\ <<e1, e2>> \in Seq(Event)
       /\ <<e1, e2, e3>> \in Seq(Event)
OBVIOUS

LEMMA LegacyType ==
    ASSUME NEW k \in Keys, NEW h \in LegacyHistories(k)
    PROVE  /\ h \in Seq(Event)
           /\ Backfill(h) \in Claim
           /\ Backfill(h).status \in {"absent", "pending"} => Backfill(h).output = NoOutput
           /\ Backfill(h).status \in {"effect", "completed"} =>
                Backfill(h).output \in Output /\ Backfill(h).output.producer = k
           /\ Backfill(h).owner = Nobody => Backfill(h).status \in {"absent", "pending"}
<1> DEFINE Own == {out \in Output : out.producer = k}
           S2 == {<<Pending(in)>> : in \in Inputs}
           S3 == {<<Pending(in), Quarantine(in, NoOutput)>> : in \in Inputs}
           S4 == {<<Pending(in), Effect(in, out)>> : in \in Inputs, out \in Own}
           S5 == {<<Pending(in), Effect(in, out), Completion(in, out)>> :
                    in \in Inputs, out \in Own}
<1>0. h \in {<<>>} \cup S2 \cup S3 \cup S4 \cup S5
  BY DEF LegacyHistories
<1>1. h \in Seq(Event)
  <2>1. \A in \in Inputs : /\ Pending(in) \in Event
                           /\ Quarantine(in, NoOutput) \in Event
                           /\ \A out \in Own : /\ Effect(in, out) \in Event
                                               /\ Completion(in, out) \in Event
    BY DEF Pending, Quarantine, Effect, Completion, Event, Status
  <2>2. CASE h \in S2
    BY <2>1, <2>2, ShortHistory
  <2>3. CASE h \in S3
    BY <2>1, <2>3, ShortHistory
  <2>4. CASE h \in S4
    <3> PICK in \in Inputs, out \in Own : h = <<Pending(in), Effect(in, out)>>
      BY <2>4
    <3> QED
      BY <2>1, ShortHistory
  <2>5. CASE h \in S5
    <3> PICK in \in Inputs, out \in Own :
           h = <<Pending(in), Effect(in, out), Completion(in, out)>>
      BY <2>5
    <3> QED
      BY <2>1, ShortHistory
  <2>6. CASE h = <<>>
    BY <2>6
  <2> HIDE DEF S2, S3, S4, S5
  <2> QED
    BY <1>0, <2>2, <2>3, <2>4, <2>5, <2>6
<1>2. CASE h = <<>>
  BY <1>1, <1>2, LedgerAssumption DEF Backfill, Claim
<1>3. CASE h # <<>>
  <2>1. /\ Len(h) \in 1..Len(h)
        /\ h[Len(h)].status \in {"pending", "quarantined"} => h[Len(h)].output = NoOutput
        /\ h[Len(h)].status \in {"effect", "completed"} => h[Len(h)].output \in Own
    <3>1. CASE h \in S2
      <4> PICK in \in Inputs : h = <<Pending(in)>>
        BY <3>1
      <4>1. Len(h) = 1 /\ h[1] = Pending(in)
        OBVIOUS
      <4> QED
        BY <4>1 DEF Pending
    <3>2. CASE h \in S3
      <4> PICK in \in Inputs : h = <<Pending(in), Quarantine(in, NoOutput)>>
        BY <3>2
      <4>1. Len(h) = 2 /\ h[2] = Quarantine(in, NoOutput)
        OBVIOUS
      <4> QED
        BY <4>1 DEF Quarantine
    <3>3. CASE h \in S4
      <4> PICK in \in Inputs, out \in Own : h = <<Pending(in), Effect(in, out)>>
        BY <3>3
      <4>1. Len(h) = 2 /\ h[2] = Effect(in, out)
        OBVIOUS
      <4> QED
        BY <4>1 DEF Effect
    <3>4. CASE h \in S5
      <4> PICK in \in Inputs, out \in Own :
             h = <<Pending(in), Effect(in, out), Completion(in, out)>>
        BY <3>4
      <4>1. Len(h) = 3 /\ h[3] = Completion(in, out)
        OBVIOUS
      <4> QED
        BY <4>1 DEF Completion
    <3> HIDE DEF S2, S3, S4, S5
    <3> QED
      BY <1>0, <1>3, <3>1, <3>2, <3>3, <3>4
  <2>2. h[Len(h)] \in Event
    BY <1>1, <2>1
  <2>3. /\ h[Len(h)].status \in Status /\ h[Len(h)].input \in Inputs
        /\ h[Len(h)].output \in Output \cup {NoOutput}
    BY <2>2 DEF Event
  <2>4. Backfill(h) = [status |-> h[Len(h)].status, input |-> h[Len(h)].input,
                       owner |-> LegacyOwner, attempt |-> 0, output |-> h[Len(h)].output]
    BY <1>3 DEF Backfill
  <2>5. Backfill(h) \in Claim
    BY <2>3, <2>4, LedgerAssumption DEF Claim
  <2>6. Backfill(h).owner # Nobody
    BY <2>4, LedgerAssumption
  <2> QED
    BY <1>1, <2>1, <2>3, <2>4, <2>5, <2>6 DEF Status
<1> QED
  BY <1>2, <1>3

LEMMA InitInv == LedgerInit => LedgerInv
<1> SUFFICES ASSUME LedgerInit PROVE LedgerInv
  OBVIOUS
<1>1. \A k \in Keys : history[k] \in LegacyHistories(k)
  BY DEF LedgerInit
<1>2. claim = [k \in Keys |-> Backfill(history[k])]
  BY DEF LedgerInit
<1>3. LedgerTypeOK
  <2>1. history \in [Keys -> Seq(Event)]
    BY <1>1, LegacyType DEF LedgerInit
  <2> QED
    BY <1>1, <1>2, <2>1, LegacyType DEF LedgerTypeOK
<1>4. HistoryTellsClaim
  BY <1>1, <1>2, BackfillTold DEF HistoryTellsClaim
<1>5. OutputFitsStatus
  BY <1>1, <1>2, LegacyType DEF OutputFitsStatus
<1> QED
  BY <1>3, <1>4, <1>5 DEF LedgerInv

LEMMA NextInv == LedgerInv /\ [LedgerNext]_ledgerVars => LedgerInv'
<1> SUFFICES ASSUME LedgerInv, [LedgerNext]_ledgerVars PROVE LedgerInv'
  OBVIOUS
<1>1. CASE UNCHANGED ledgerVars
  BY <1>1 DEF ledgerVars, LedgerInv, LedgerTypeOK, HistoryTellsClaim, OutputFitsStatus
<1>2. CASE LedgerNext
  <2>1. PICK k \in Keys, o \in Owners : Call(k, o)
    BY <1>2 DEF LedgerNext, Call
  <2>2. \A j \in Keys : Moves(j, claim'[j], history'[j])
    BY <2>1, CallMoves DEF LedgerInv
  <2>3. DOMAIN claim' = Keys /\ DOMAIN history' = Keys
        /\ claim' = [j \in Keys |-> claim'[j]] /\ history' = [j \in Keys |-> history'[j]]
    BY <2>1 DEF LedgerInv, LedgerTypeOK, Call, BeginOperation, ReleasePending,
                RecordEffect, CompleteOperation, QuarantineOperation, ledgerVars
  <2>4. LedgerTypeOK'
    BY <2>2, <2>3, MoveKeepsType DEF LedgerInv, LedgerTypeOK
  <2>5. HistoryTellsClaim'
    BY <2>2, MoveKeepsTells DEF HistoryTellsClaim
  <2>6. OutputFitsStatus'
    BY <2>2, MoveKeepsFit DEF OutputFitsStatus
  <2> QED
    BY <2>4, <2>5, <2>6 DEF LedgerInv
<1> QED
  BY <1>1, <1>2

\* Whatever calls the attempts make, rows and events stay well formed and tell
\* the same story.
THEOREM LedgerInvariant == LedgerSpec => []LedgerInv
BY InitInv, NextInv, PTL DEF LedgerSpec

\* For every key, at all times, the append-only events tell the claim row.
THEOREM HistoryFaithful == LedgerSpec => []HistoryTellsClaim
<1>1. LedgerInv => HistoryTellsClaim
  BY DEF LedgerInv
<1> QED
  BY <1>1, LedgerInvariant, PTL

\* An operation once completed is always accepted by the check that verification
\* grants make of its history: no order of calls, and no migrated row, completes
\* an operation the grant would refuse.
THEOREM CompletionProvable == LedgerSpec => []CompletionIsProvable
<1>1. LedgerInv => CompletionIsProvable
  <2> SUFFICES ASSUME LedgerInv, NEW k \in Keys, claim[k].status = "completed"
               PROVE  ProvesCompletion(k, claim[k].output)
    BY DEF CompletionIsProvable
  <2> DEFINE h == history[k]
             c == claim[k]
  <2>1. /\ h \in Seq(Event) /\ c.output \in Output /\ c.output.producer = k
        /\ Tells(c, h)
    BY DEF LedgerInv, LedgerTypeOK, HistoryTellsClaim, OutputFitsStatus
  <2> HIDE DEF h, c
  <2>2. PICK n \in 1..Len(h) :
          /\ \A i \in 1..Len(h) :
               /\ h[i].input = c.input
               /\ i <= n <=> h[i].status = "pending"
               /\ i <= n => h[i].output = NoOutput
               /\ i > n  => h[i].output = c.output
          /\ h[Len(h)].status = "completed"
          /\ Len(h) = n + 2 /\ h[n + 1].status = "effect"
    BY <2>1 DEF Tells, c
  <2>3. Len(h) \in Nat /\ n \in Nat /\ n = Len(h) - 2 /\ n + 1 = Len(h) - 1
    BY <2>1, <2>2
  <2>4. \A i \in 1..Len(h) :
          /\ h[i].input = c.input
          /\ i <= Len(h) - 2 => h[i].status = "pending" /\ h[i].output = NoOutput
          /\ i > Len(h) - 2  => h[i].output = c.output
    BY <2>2, <2>3
  <2> QED
    BY <2>1, <2>2, <2>3, <2>4 DEF ProvesCompletion, h, c
<1> QED
  BY <1>1, LedgerInvariant, PTL

\* One published output for ever, and settled rows stay as they are.
LEMMA StepFacts ==
    ASSUME LedgerInv, [LedgerNext]_ledgerVars, NEW k \in Keys
    PROVE  Moves(k, claim'[k], history'[k])
<1>1. CASE UNCHANGED ledgerVars
  BY <1>1 DEF ledgerVars, Moves, Stays
<1>2. CASE LedgerNext
  <2>1. PICK j \in Keys, o \in Owners : Call(j, o)
    BY <1>2 DEF LedgerNext, Call
  <2> QED
    BY <2>1, CallMoves DEF LedgerInv
<1> QED
  BY <1>1, <1>2

\* No retry, takeover or quarantine rewrites or withdraws an output.
THEOREM OutputWrittenOnce == LedgerSpec => OutputIsWrittenOnce
<1>1. ASSUME LedgerInv, [LedgerNext]_ledgerVars, NEW k \in Keys,
             claim[k].output # NoOutput
      PROVE  claim'[k].output = claim[k].output
  <2>1. claim[k] \in Claim /\ claim[k].status \notin {"absent", "pending"}
    BY <1>1 DEF LedgerInv, LedgerTypeOK, OutputFitsStatus
  <2>2. \/ Stays(k, claim'[k], history'[k])
        \/ Settles(k, claim'[k], history'[k])
        \/ GivesUp(k, claim'[k], history'[k])
    BY <1>1, <2>1, StepFacts
       DEF Moves, FirstClaim, TakesOver, Released, Publishes
  <2> QED
    BY <2>1, <2>2 DEF Stays, Settles, GivesUp, Claim
<1>2. LedgerInv /\ [LedgerNext]_ledgerVars
        => [\A k \in Keys :
              claim[k].output # NoOutput => claim'[k].output = claim[k].output]_ledgerVars
  BY <1>1
<1> QED
  BY <1>2, LedgerInvariant, PTL DEF LedgerSpec, OutputIsWrittenOnce

\* Completed and quarantined operations never move again, and an effect's owner
\* keeps it.
THEOREM SettledFinal == LedgerSpec => SettledIsFinal
<1>1. ASSUME LedgerInv, [LedgerNext]_ledgerVars, NEW k \in Keys
      PROVE  /\ claim[k].status \in {"completed", "quarantined"} =>
                  claim'[k] = claim[k] /\ history'[k] = history[k]
             /\ claim[k].status = "effect" => claim'[k].owner = claim[k].owner
  <2>1. claim[k] \in Claim
    BY <1>1 DEF LedgerInv, LedgerTypeOK
  <2>2. Moves(k, claim'[k], history'[k])
    BY <1>1, StepFacts
  <2>3. CASE claim[k].status \in {"completed", "quarantined"}
    BY <2>2, <2>3
       DEF Moves, Stays, FirstClaim, TakesOver, Released, Publishes, Settles, GivesUp
  <2>4. CASE claim[k].status = "effect"
    <3>1. \/ Stays(k, claim'[k], history'[k])
          \/ Settles(k, claim'[k], history'[k])
          \/ GivesUp(k, claim'[k], history'[k])
      BY <2>2, <2>4 DEF Moves, FirstClaim, TakesOver, Released, Publishes
    <3> QED
      BY <2>1, <2>4, <3>1 DEF Stays, Settles, GivesUp, Claim
  <2> QED
    BY <2>3, <2>4
<1>2. LedgerInv /\ [LedgerNext]_ledgerVars
        => [\A k \in Keys :
              /\ claim[k].status \in {"completed", "quarantined"} =>
                   claim'[k] = claim[k] /\ history'[k] = history[k]
              /\ claim[k].status = "effect" => claim'[k].owner = claim[k].owner
            ]_ledgerVars
  BY <1>1
<1> QED
  BY <1>2, LedgerInvariant, PTL DEF LedgerSpec, SettledIsFinal

-----------------------------------------------------------------------------
(* The abstraction.                                                         *)

LEMMA InitRefines == LedgerInit => Abstract!Init
<1> SUFFICES ASSUME LedgerInit PROVE Abstract!Init
  OBVIOUS
<1>1. LedgerTypeOK /\ OutputFitsStatus
  BY InitInv DEF LedgerInv
<1>2. \A k \in Keys :
        /\ claim[k].status \in Status \cup {"absent"}
        /\ claim[k].output \in Output \cup {NoOutput}
  BY <1>1 DEF LedgerTypeOK, Claim
<1>3. \A k \in Keys :
        /\ PhaseOf(claim[k].status) \in Abstract!Phase
        /\ PhaseOf(claim[k].status) = "open" => claim[k].status \in {"absent", "pending"}
        /\ PhaseOf(claim[k].status) \in {"offered", "settled"} =>
             claim[k].status \in {"effect", "completed"}
  BY <1>2 DEF PhaseOf, Abstract!Phase, Status
<1>4. \A k \in Keys : claimOutcome[k] =
        [phase |-> PhaseOf(claim[k].status), output |-> claim[k].output]
  BY DEF claimOutcome
<1>5. claimOutcome \in [Keys -> [phase : Abstract!Phase, output : Output \cup {NoOutput}]]
  BY <1>2, <1>3 DEF claimOutcome
<1>6. \A k \in Keys :
        /\ claimOutcome[k].phase = "open" => claimOutcome[k].output = NoOutput
        /\ claimOutcome[k].phase \in {"offered", "settled"} =>
             claimOutcome[k].output \in Output
  <2> SUFFICES ASSUME NEW k \in Keys
               PROVE  /\ claimOutcome[k].phase = "open" => claimOutcome[k].output = NoOutput
                      /\ claimOutcome[k].phase \in {"offered", "settled"} =>
                           claimOutcome[k].output \in Output
    OBVIOUS
  <2>0. claimOutcome[k] = [phase |-> PhaseOf(claim[k].status), output |-> claim[k].output]
    BY <1>4
  <2>1. /\ claimOutcome[k].phase = PhaseOf(claim[k].status)
        /\ claimOutcome[k].output = claim[k].output
    BY <2>0
  <2> QED
    BY <1>1, <1>3, <2>1 DEF OutputFitsStatus
<1> QED
  BY <1>5, <1>6 DEF Abstract!Init

\* The outcome changes on one key only, as the key's row does.
LEMMA NextRefines ==
    LedgerInv /\ [LedgerNext]_ledgerVars => [Abstract!Next]_claimOutcome
<1> SUFFICES ASSUME LedgerInv, [LedgerNext]_ledgerVars
             PROVE  Abstract!Next \/ UNCHANGED claimOutcome
  OBVIOUS
<1>1. CASE UNCHANGED ledgerVars
  BY <1>1 DEF ledgerVars, claimOutcome
<1>2. CASE LedgerNext
  <2>1. PICK k \in Keys, o \in Owners : Call(k, o)
    BY <1>2 DEF LedgerNext, Call
  <2>2. \A j \in Keys \ {k} : claim'[j] = claim[j]
    BY <2>1, CallMoves DEF LedgerInv
  <2>3. Moves(k, claim'[k], history'[k])
    BY <1>2, StepFacts
  <2>4. claim[k] \in Claim /\ claim'[k] \in Claim
    BY <2>3, MoveKeepsType DEF LedgerInv, LedgerTypeOK
  <2>5. /\ claim[k].status \in {"absent", "pending"} => claim[k].output = NoOutput
    BY DEF LedgerInv, OutputFitsStatus
  <2>6. claimOutcome' = [claimOutcome EXCEPT ![k] =
                            [phase |-> PhaseOf(claim'[k].status),
                             output |-> claim'[k].output]]
    BY <2>2 DEF claimOutcome
  <2>a. /\ claimOutcome[k] = [phase |-> PhaseOf(claim[k].status),
                              output |-> claim[k].output]
        /\ DOMAIN claimOutcome = Keys
        /\ claimOutcome = [j \in Keys |-> claimOutcome[j]]
    BY DEF claimOutcome
  <2>b. /\ claimOutcome[k].phase = PhaseOf(claim[k].status)
        /\ claimOutcome[k].output = claim[k].output
    BY <2>a
  <2>7. /\ PhaseOf("absent") = "open" /\ PhaseOf("pending") = "open"
        /\ PhaseOf("effect") = "offered" /\ PhaseOf("completed") = "settled"
        /\ PhaseOf("quarantined") = "given_up"
    BY DEF PhaseOf
  <2>8. CASE Stays(k, claim'[k], history'[k])
    BY <2>6, <2>a, <2>8 DEF Stays
  <2>9. CASE FirstClaim(k, claim'[k], history'[k])
    <3>1. /\ claim[k].status = "absent" /\ claim[k].output = NoOutput
          /\ claim'[k].status = "pending" /\ claim'[k].output = NoOutput
      BY <2>5, <2>9 DEF FirstClaim
    <3> QED
      BY <2>6, <2>7, <2>a, <3>1
  <2>10. CASE TakesOver(k, claim'[k], history'[k]) \/ Released(k, claim'[k], history'[k])
    <3>1. claim'[k].status = claim[k].status /\ claim'[k].output = claim[k].output
      BY <2>4, <2>10 DEF TakesOver, Released, Claim
    <3> QED
      BY <2>6, <2>a, <3>1
  <2>11. CASE Publishes(k, claim'[k], history'[k])
    <3>1. PICK out \in Output :
            claim'[k] = [claim[k] EXCEPT !.status = "effect", !.output = out]
      BY <2>11 DEF Publishes
    <3>2. claim'[k].status = "effect" /\ claim'[k].output = out
      BY <2>4, <3>1 DEF Claim
    <3>3. claimOutcome[k].phase = "open"
      BY <2>7, <2>b, <2>11 DEF Publishes
    <3>4. claimOutcome' = [claimOutcome EXCEPT ![k] = [phase |-> "offered", output |-> out]]
      BY <2>6, <2>7, <3>2
    <3>5. Abstract!Offer(k, out)
      BY <3>3, <3>4 DEF Abstract!Offer
    <3> QED
      BY <3>5 DEF Abstract!Next
  <2>12. CASE Settles(k, claim'[k], history'[k])
    <3>1. claim'[k].status = "completed" /\ claim'[k].output = claim[k].output
      BY <2>4, <2>12 DEF Settles, Claim
    <3>2. Abstract!Settle(k)
      BY <2>6, <2>7, <2>b, <2>12, <3>1 DEF Settles, Abstract!Settle
    <3> QED
      BY <3>2 DEF Abstract!Next
  <2>13. CASE GivesUp(k, claim'[k], history'[k])
    <3>1. claim'[k].status = "quarantined" /\ claim'[k].output = claim[k].output
      BY <2>4, <2>13 DEF GivesUp, Claim
    <3>2. /\ claimOutcome[k].phase \in {"open", "offered"}
          /\ PhaseOf(claim'[k].status) = "given_up"
          /\ claim'[k].output = claimOutcome[k].output
      BY <2>7, <2>b, <2>13, <3>1 DEF GivesUp
    <3>3. Abstract!GiveUp(k)
      BY <2>6, <3>2 DEF Abstract!GiveUp
    <3> QED
      BY <3>3 DEF Abstract!Next
  <2> QED
    BY <2>3, <2>8, <2>9, <2>10, <2>11, <2>12, <2>13 DEF Moves
<1> QED
  BY <1>1, <1>2

\* The operation tables implement one outcome for each operation.
THEOREM LedgerImplementsOneOutcome == LedgerSpec => ImplementsOneOutcome
<1>1. LedgerInv /\ [LedgerNext]_ledgerVars => [Abstract!Next]_claimOutcome
  BY NextRefines
<1> QED
  BY <1>1, InitRefines, LedgerInvariant, PTL
     DEF LedgerSpec, ImplementsOneOutcome, Abstract!Spec

=============================================================================
