-------------------------------- MODULE Rulings --------------------------------
(***************************************************************************)
(* What becomes of admitted rulings (rulings.py): operators plan and apply    *)
(* them, to an append-only store and to the manifest's semantic_deps, while   *)
(* people edit the manifest by hand.                                          *)
(*                                                                         *)
(* The manifest is abstracted to the endpoints its url-block hook declares,   *)
(* how many such hooks it has, and whether it is in the serialiser's own      *)
(* form.  Containment of literals is the relation Touching.                   *)
(***************************************************************************)
EXTENDS Naturals, Sequences

CONSTANTS
    RuledRuns,  \* the runs whose dispositions were admitted
    RulesOf,    \* the rulings of each run, in order: sequences of RulingRecord
    Endpoints,  \* the literals candidates, manifest and guards are about
    NotGaps,    \* candidates that name no endpoint
    Touching,   \* pairs of endpoints one of which contains the other
    Operators,  \* processes running `rulings --apply`
    MaxEdits,   \* bound: edits made by hand
    MaxStore    \* bound: lines in the store

RulingRecord == [candidate : Endpoints \cup NotGaps, verdict : STRING, policy : STRING,
                 run : RuledRuns]

ASSUME RulingAssumption ==
    /\ \A r \in RuledRuns : RulesOf[r] \in Seq(RulingRecord)
    /\ MaxEdits \in Nat /\ MaxStore \in Nat
    /\ \A e \in Endpoints : <<e, e>> \in Touching

VARIABLES
    declared,   \* semantic_deps of the url-block hook
    blockers,   \* how many hooks have the url_block strategy
    tidy,       \* the manifest is what serialise would write
    ruled,      \* the rulings in the store, in the order they were appended
    torn,       \* the store ends in half a line
    glued,      \* those of `ruled' that went behind half a line, on the same line
    cut,        \* history: an append was killed before its last line
    byHand,     \* endpoints people declared themselves
    edits,      \* edits made so far
    operator    \* the processes

manifestVars == <<declared, blockers, tidy, byHand, edits>>
storeVars    == <<ruled, torn, glued, cut>>
rulingVars   == <<manifestVars, storeVars, operator>>

WholeManifest   == [declared |-> declared, blockers |-> blockers, tidy |-> tidy]
NoOperator == [pc |-> "away", run |-> "none", adds |-> {},
               before |-> [declared |-> {}, blockers |-> 0, tidy |-> FALSE]]

Touch(e, f) == <<e, f>> \in Touching \/ <<f, e>> \in Touching

RulingsInit ==
    /\ declared \in SUBSET Endpoints /\ blockers \in {1, 2} /\ tidy \in BOOLEAN
    /\ ruled = <<>> /\ torn = FALSE /\ glued = {} /\ cut = FALSE
    /\ byHand = declared /\ edits = 0
    /\ operator = [p \in Operators |-> NoOperator]

-----------------------------------------------------------------------------
(* Reading the store, the manifest and the source.                           *)

Blocking(ruling) == ruling.verdict \in {"block", "offer_toggle"}

-----------------------------------------------------------------------------
(* plan                                                                     *)

Blocks(run) == {RulesOf[run][k].candidate : k \in {n \in DOMAIN RulesOf[run] :
                                                    Blocking(RulesOf[run][n])}}

\* The endpoints a plan would add: those no declared literal touches.
Additions(run) == {e \in Blocks(run) : \A d \in declared : ~Touch(d, e)}

PlanRefused(run) ==
    \/ ~tidy
    \/ Blocks(run) \cap NotGaps # {}
    \/ Blocks(run) # {} /\ blockers # 1

Plan(p, run) ==
    /\ operator[p].pc = "away" /\ ~PlanRefused(run)
    /\ operator' = [operator EXCEPT ![p] =
                      [pc |-> "planned", run |-> run, before |-> WholeManifest,
                       adds |-> Additions(run)]]
    /\ UNCHANGED <<manifestVars, storeVars>>

-----------------------------------------------------------------------------
(* apply: the stale check, the store, the manifest, one after the other.      *)

Walk(p, from, to) ==
    /\ operator[p].pc = from
    /\ operator' = [operator EXCEPT ![p] = IF to = "away" THEN NoOperator
                                           ELSE [@ EXCEPT !.pc = to]]

CheckStale(p) ==
    /\ \/ WholeManifest = operator[p].before /\ Walk(p, "planned", "checked")
       \/ WholeManifest # operator[p].before /\ Walk(p, "planned", "away")
    /\ UNCHANGED <<manifestVars, storeVars>>

\* Mutant: the manifest first, and the record of who decided only then.
AppendRulingsLate(p) ==
    /\ operator[p].pc = "checked"
    /\ declared' = operator[p].before.declared \cup operator[p].adds
    /\ Walk(p, "checked", IF operator[p].adds = {} THEN "away" ELSE "recorded")
    /\ UNCHANGED <<blockers, tidy, byHand, edits, storeVars>>

\* The store is opened to append and nobody looks at how it ends: behind half a line
\* the first of the new rulings shares that line, which read_store refuses ever after.
WriteLines(rulings) ==
    /\ Len(ruled) + Len(rulings) <= MaxStore
    /\ ruled' = ruled \o rulings
    /\ glued' = glued \cup {k \in {Len(ruled) + 1} : torn /\ rulings # <<>>}

\* append_rulings, and the end of a plan that changes no manifest
AppendRulings(p) ==
    LET rulings == RulesOf[operator[p].run] IN
    /\ operator[p].pc = "checked"
    /\ WriteLines(rulings)
    /\ torn' = (torn /\ rulings = <<>>)
    /\ Walk(p, "checked", IF operator[p].adds = {} THEN "away" ELSE "recorded")
    /\ UNCHANGED <<manifestVars, cut>>

\* Killed while appending: some lines are written, and perhaps half of another.
AppendCut(p) ==
    /\ operator[p].pc = "checked"
    /\ \E n \in 0..(Len(RulesOf[operator[p].run]) - 1) :
         /\ WriteLines(SubSeq(RulesOf[operator[p].run], 1, n))
         /\ torn' \in {torn /\ n = 0, TRUE}
    /\ cut' = TRUE
    /\ Walk(p, "checked", "away")
    /\ UNCHANGED manifestVars

\* write_manifest_atomically: the document as planned, over whatever is there now
WriteManifest(p) ==
    /\ Walk(p, "recorded", "away")
    /\ declared' = operator[p].before.declared \cup operator[p].adds
    /\ blockers' = operator[p].before.blockers
    /\ tidy' = TRUE
    /\ UNCHANGED <<byHand, edits, storeVars>>

\* Killed, or the patched manifest does not load.
ApplyStops(p) ==
    /\ \E from \in {"planned", "recorded"} : Walk(p, from, "away")
    /\ UNCHANGED <<manifestVars, storeVars>>

-----------------------------------------------------------------------------
(* People at their editors.                                                 *)

DeclareByHand(e) ==
    /\ edits < MaxEdits /\ edits' = edits + 1
    /\ declared' = declared \cup {e} /\ byHand' = byHand \cup {e}
    /\ tidy' \in BOOLEAN
    /\ UNCHANGED <<blockers, storeVars, operator>>

RulingsNext ==
    \/ \E p \in Operators :
         \/ \E run \in RuledRuns : Plan(p, run)
         \/ CheckStale(p) \/ AppendRulings(p) \/ AppendCut(p)
         \/ WriteManifest(p) \/ ApplyStops(p)
    \/ \E e \in Endpoints : DeclareByHand(e)

RulingsSpec == RulingsInit /\ [][RulingsNext]_rulingVars

-----------------------------------------------------------------------------
(* Properties.                                                             *)

\* The blocking lines about an endpoint.
BlockingLines(e) == {k \in DOMAIN ruled : ruled[k].candidate = e /\ Blocking(ruled[k])}

\* Nothing comes to be declared blocked without a record of who decided it: what
\* no person wrote into the manifest has a blocking line in the store, with two
\* operators at work, applications killed half way and manifests edited in between;
\* and as long as no append was killed half way, a line of its own that can be read.
BlockedIsOnRecord ==
    \A e \in declared \ byHand :
      /\ BlockingLines(e) # {}
      /\ ~cut => BlockingLines(e) \ glued # {}

=============================================================================
