------------------------------ MODULE PortHistory ------------------------------
(***************************************************************************)
(* The ratchet over the ports on record: every hook release-ready on one      *)
(* version is expected to be so on the next (expectation.py), unless a human  *)
(* retired it (retirement.py); the per-hook view of the same record           *)
(* (roster.py).                                                               *)
(*                                                                         *)
(* What a version's evidence files say is a record: which files exist, the    *)
(* hooks they mention and those the report calls ready (module PortEvidence). *)
(* Recording appends to the files and may move a hook either way.             *)
(***************************************************************************)
EXTENDS Integers, Sequences

CONSTANTS
    LivingHooks,   \* hook ids
    Versions,      \* version numbers with evidence, now or later
    Clerks,        \* processes recording a ruling
    MaxRulings,    \* bound: rows of retirements.jsonl
    MaxRecordings, \* bound: how often evidence is recorded
    NoVersion      \* no such version

ASSUME HistoryAssumption ==
    Versions \subseteq Nat /\ MaxRulings \in Nat /\ MaxRecordings \in Nat /\ NoVersion \notin Nat

RulingKind == {"retire", "unretire"}

VARIABLES
    record,      \* per version: what its evidence says
    recordings,  \* how often evidence was recorded
    retirements, \* manifest/retirements.jsonl
    clerk        \* the retirement processes

historyVars == <<record, recordings, retirements, clerk>>

NoEvidence == [static |-> FALSE, runtime |-> FALSE, seen |-> {}, ready |-> {}]
Waiting    == [pc |-> "idle"]

HistoryInit ==
    /\ record = [v \in Versions |-> NoEvidence] /\ recordings = 0
    /\ retirements = <<>> /\ clerk = [c \in Clerks |-> Waiting]

-----------------------------------------------------------------------------
(* The series and the rulings.                                              *)

\* versions_with_evidence
OnRecord == {v \in Versions : record[v].static \/ record[v].runtime}

Newest(S) == CHOOSE v \in S : \A u \in S : u <= v
Oldest(S) == CHOOSE v \in S : \A u \in S : v <= u

Before(v) == {u \in OnRecord : u < v}

\* evidence_files and port_report: without one of its files a version is refused.
Readable(v) == record[v].static /\ record[v].runtime /\ record[v].seen # {}

\* retired_at: rulings are replayed by the version they take effect from, and in
\* the order of the file where that is the same.
Applies(rows, i, h, v) == rows[i].hook = h /\ rows[i].from <= v

RetiredAt(rows, v) ==
    {h \in LivingHooks : \E i \in DOMAIN rows :
        /\ Applies(rows, i, h, v) /\ rows[i].kind = "retire"
        /\ \A j \in DOMAIN rows : Applies(rows, j, h, v) =>
              rows[j].from < rows[i].from \/ (rows[j].from = rows[i].from /\ j <= i)}

-----------------------------------------------------------------------------
(* The comparison of two ports.                                             *)

Comparable(u, v) == Readable(u) /\ Readable(v)

Expected(u, v) == record[u].ready \ RetiredAt(retirements, v)
Judged(u, v)   == record[u].ready \cup record[v].ready

\* Mutant: rulings are read as of the newest version, not of the port compared.
HookVerdictAtNewest(u, v, h) ==
    CASE h \in RetiredAt(retirements, Newest(Versions)) /\ h \in record[u].ready -> "retired"
      [] h \in record[u].ready /\ h \in record[v].ready -> "held"
      [] h \in record[u].ready -> "dropped"
      [] OTHER -> "gained"

HookVerdict(u, v, h) ==
    CASE h \in RetiredAt(retirements, v) /\ h \in record[u].ready -> "retired"
      [] h \in Expected(u, v) /\ h \in record[v].ready            -> "held"
      [] h \in Expected(u, v) /\ h \notin record[v].ready         -> "dropped"
      [] OTHER                                                    -> "gained"

Dropped(u, v) == {h \in Judged(u, v) : HookVerdict(u, v, h) = "dropped"}

\* sweep: every version against the one before it in the series; pairs that
\* cannot be compared are listed apart.
SweptPairs == {p \in OnRecord \X OnRecord :
                 /\ Before(p[2]) # {} /\ p[1] = Newest(Before(p[2]))
                 /\ Comparable(p[1], p[2])}

SweepReports(h) == {p[2] : p \in {q \in SweptPairs : h \in Dropped(q[1], q[2])}}

-----------------------------------------------------------------------------
(* The per-hook view.                                                       *)

\* standings
ReadyOn(h)    == {v \in OnRecord : Readable(v) /\ h \in record[v].ready}
AssessedOn(h) == {v \in OnRecord : Readable(v) /\ h \in record[v].seen}

\* Standing.dropped_at
DroppedAt(h) ==
    LET after == {v \in AssessedOn(h) : v > Newest(ReadyOn(h))}
    IN  IF ReadyOn(h) = {} \/ after = {} THEN NoVersion ELSE Oldest(after)

-----------------------------------------------------------------------------
(* Steps.                                                                   *)

\* Evidence of a version is recorded: lines are only ever appended.
RecordEvidence(v, kind, seen, ready) ==
    /\ recordings < MaxRecordings /\ recordings' = recordings + 1
    /\ ready \subseteq seen /\ record[v].seen \subseteq seen
    /\ record' = [record EXCEPT ![v] =
                    [static  |-> record[v].static \/ kind = "static",
                     runtime |-> record[v].runtime \/ kind = "runtime",
                     seen |-> seen, ready |-> ready]]
    /\ UNCHANGED <<retirements, clerk>>

\* Mutant: the ruling takes effect from the version it was decided at.
EffectiveAtOnce(decided) == decided

\* Retirement.__post_init__ holds effective_from to decided_at + 1.
EffectiveFrom(decided) == decided + 1

\* retirement.main: latest_ported names the version the ruling is decided at.
DecideRuling(c, kind, h) ==
    /\ clerk[c].pc = "idle" /\ OnRecord # {}
    /\ clerk' = [clerk EXCEPT ![c] =
                   [pc |-> "decided", kind |-> kind, hook |-> h,
                    decided |-> Newest(OnRecord), saw |-> OnRecord]]
    /\ UNCHANGED <<record, recordings, retirements>>

RulingRow(c) == [kind |-> clerk[c].kind, hook |-> clerk[c].hook,
                 from |-> EffectiveFrom(clerk[c].decided)]

\* append reads the file, refuses a ruling that changes nothing, and adds a row.
AppendRuling(c) ==
    /\ clerk[c].pc = "decided" /\ Len(retirements) < MaxRulings
    /\ LET row     == RulingRow(c)
           already == row.hook \in RetiredAt(retirements, row.from)
       IN  /\ (row.kind = "retire") # already
           /\ retirements' = Append(retirements, row)
    /\ clerk' = [clerk EXCEPT ![c] = Waiting]
    /\ UNCHANGED <<record, recordings>>

\* Refused, or killed before it appended.
RulingEnds(c) ==
    /\ clerk[c].pc = "decided" /\ clerk' = [clerk EXCEPT ![c] = Waiting]
    /\ UNCHANGED <<record, recordings, retirements>>

HistoryNext ==
    \/ \E v \in Versions, kind \in {"static", "runtime"} :
         \E seen, ready \in SUBSET LivingHooks : RecordEvidence(v, kind, seen, ready)
    \/ \E c \in Clerks : \/ \E kind \in RulingKind, h \in LivingHooks : DecideRuling(c, kind, h)
                         \/ AppendRuling(c) \/ RulingEnds(c)

HistorySpec == HistoryInit /\ [][HistoryNext]_historyVars

-----------------------------------------------------------------------------
\* A ruling never clears a drop that was on record when it was asked for: what a
\* comparison of those ports reports dropped before the row is appended it
\* reports dropped after it, so a red port cannot be turned green by retiring.
RulingClearsNoDrop ==
    [][\A c \in Clerks : AppendRuling(c) =>
          \A u, v \in clerk[c].saw : u < v /\ Comparable(u, v) =>
              Dropped(u, v) \subseteq Dropped(u, v)']_historyVars

\* The two views of the record agree: when the roster says that a hook has been
\* down since a version, and every version since it was last ready can be read,
\* the sweep reports the drop on the port right after the last good one, unless a
\* ruling took the hook out from there.
StandingDropIsSwept ==
    \A h \in LivingHooks : DroppedAt(h) # NoVersion =>
        LET good == Newest(ReadyOn(h))
            next == Oldest({v \in OnRecord : v > good})
        IN  \/ ~Readable(next)
            \/ next \in SweepReports(h)
            \/ h \in RetiredAt(retirements, next)

=============================================================================
