----------------------------- MODULE DurableBlob -----------------------------
(***************************************************************************)
(* What the store promises about one blob, whoever puts and gets it: it is   *)
(* one cell, empty or full.  Every answer is the cell's content at the       *)
(* moment it is given, or an error.  The cell fills while a put is under     *)
(* way; a loss of power may empty it, until a put has returned.  Until the    *)
(* cell is rooted, which is for ever, a loss of power may also take it from   *)
(* those whose put has returned, and then it owes them nothing.             *)
(***************************************************************************)
CONSTANTS Putters, Getters

VARIABLES full,   \* the cell
          answer, \* what each call has been told
          rooted, \* nothing that is owed can be lost any more
          owed    \* the puts that returned and were not bereft

vars == <<full, answer, rooted, owed>>

Init ==
    /\ full = FALSE /\ rooted = FALSE /\ owed = {}
    /\ answer = [c \in Putters \cup Getters |-> "none"]

Answer(c, told) ==
    /\ answer[c] = "none"
    /\ answer' = [answer EXCEPT ![c] = told]
    /\ UNCHANGED <<full, rooted>>

Fill(w) ==
    /\ answer[w] = "none"
    /\ full' = TRUE
    /\ UNCHANGED <<answer, rooted, owed>>

Root ==
    /\ rooted' = TRUE
    /\ UNCHANGED <<full, answer, owed>>

\* What a loss of power leaves is there for good.
Empty ==
    /\ owed = {}
    /\ full' = FALSE /\ rooted' = TRUE
    /\ UNCHANGED <<answer, owed>>

Uproot ==
    /\ ~rooted
    /\ full' = FALSE /\ owed' = {}
    /\ UNCHANGED <<answer, rooted>>

Put(w) == full /\ Answer(w, "returned") /\ owed' = owed \cup {w}

Get(r) == Answer(r, IF full THEN "returned" ELSE "absent") /\ UNCHANGED owed

Fail(c) == Answer(c, "error") /\ UNCHANGED owed

Next ==
    \/ \E w \in Putters : Fill(w) \/ Put(w)
    \/ \E r \in Getters : Get(r)
    \/ \E c \in Putters \cup Getters : Fail(c)
    \/ Root \/ Empty \/ Uproot

Spec == Init /\ [][Next]_vars

=============================================================================
