------------------------------- MODULE PortMemory -------------------------------
(***************************************************************************)
(* The last stage of a port (agent_cost.record_run): what resolving the hooks *)
(* taught goes to decision memory (manifest_update.py, decisions.py), what it *)
(* cost to the cost ledger (agent_cost.py).  Both files are only appended to, *)
(* line by line, by whichever process runs the stage, and are read whole.     *)
(***************************************************************************)
EXTENDS Integers, Sequences, FiniteSets

CONSTANTS
    Reports,       \* resolve reports with their version and stamp: see Report
    StableHosts,   \* hosts that are stable named types
    Contexts,      \* what later runs may ask with: see Compatibility
    SeedMemory,    \* seed_records
    Writers,       \* processes running the stage
    MaxStages,     \* bound: how often the stage is run
    Unknown        \* a dimension nobody stated

\* What a line that records a resolution says of it, its stamp aside.
AnswerFields == {"hook", "version", "host", "path", "compatibility"}

ASSUME MemoryAssumption ==
    /\ MaxStages \in Nat
    /\ \A r \in Reports : r.order \in Seq({r.order[i] : i \in DOMAIN r.order})
    /\ SeedMemory \in Seq({SeedMemory[i] : i \in DOMAIN SeedMemory})
    /\ \A i \in DOMAIN SeedMemory :
         SeedMemory[i].kind = "resolution" => AnswerFields \subseteq DOMAIN SeedMemory[i]

ReuseDimensions == {"semantic_feature_identity", "delivery_mechanism",
                    "evidence_fingerprint", "policy_revision"}

VARIABLES
    memory,     \* manifest/decisions.jsonl
    costs,      \* manifest/agent_cost.jsonl
    exists,     \* whether decisions.jsonl is there
    tornFiles,  \* the files a crash left half a line in
    stage,      \* per writer: what it is doing
    stagesRun

memoryVars == <<memory, costs, exists, tornFiles, stage, stagesRun>>

Off == [pc |-> "off"]

MemoryInit ==
    /\ memory = <<>> /\ costs = <<>> /\ exists = FALSE /\ tornFiles = {}
    /\ stage = [w \in Writers |-> Off] /\ stagesRun = 0

-----------------------------------------------------------------------------
(* What a report teaches.  An answer of a hook: its outcome, and for a        *)
(* resolved one the host, where it was, and what found it.                    *)

\* _signals: an obfuscated descriptor is never one of them.
Signals(a) ==
    {"structural_shape"}
    \cup (IF a.found = "named" /\ a.host \in StableHosts THEN {"stable_named_type"} ELSE {})
    \cup (IF a.found = "by_literal" THEN {"api_path_literal"} ELSE {})
    \cup (IF a.found = "by_agent" THEN {"agent_proposal"} ELSE {})

\* _technique names the host only when the name is stable.
Technique(a) == <<a.found, a.literals, IF a.host \in StableHosts THEN a.host ELSE Unknown>>

\* Compatibility: the caller states all but the fingerprint.
CompatibilityOf(a, base) ==
    [base EXCEPT !["evidence_fingerprint"] = <<Technique(a), Signals(a)>>]

\* _record_for: only a hook that resolved has something to hand on.
Resolution(r, h) ==
    LET a == r.answers[h] IN
    [kind |-> "resolution", hook |-> h, version |-> r.version, host |-> a.host,
     path |-> a.path, compatibility |-> CompatibilityOf(a, r.base), at |-> r.at]

ResolvedAt(r) == {i \in DOMAIN r.order : r.answers[r.order[i]].outcome = "resolved"}

\* The hooks that resolved, in the order of the report.
Resolved(r) ==
    LET place(n) == CHOOSE i \in ResolvedAt(r) :
                      Cardinality({j \in ResolvedAt(r) : j <= i}) = n
    IN  [n \in 1..Cardinality(ResolvedAt(r)) |-> r.order[place(n)]]

\* resolution_records
Lessons(r) == [i \in DOMAIN Resolved(r) |-> Resolution(r, Resolved(r)[i])]

-----------------------------------------------------------------------------
(* What a report cost: one line for every hook, resolved or not, whatever the  *)
(* route it took and the price of it.                                         *)

\* hook_costs
Bill(r) == [i \in DOMAIN r.order |-> [hook |-> r.order[i], version |-> r.version, at |-> r.at]]

-----------------------------------------------------------------------------
(* The writers.                                                             *)

\* record_run: the learning half first.
FirstFile == "memory"

Other(file) == IF file = "memory" THEN "costs" ELSE "memory"

\* Opening a file reads all of it: half a line anywhere refuses the stage.
\* A memory that is not there starts with the seed.
LinesFor(file, r) ==
    IF file = "costs" THEN Bill(r)
    ELSE IF exists THEN Lessons(r) ELSE SeedMemory \o Lessons(r)

Opens(w, file, r) ==
    IF file \in tornFiles THEN stage' = [stage EXCEPT ![w] = Off]
    ELSE stage' = [stage EXCEPT ![w] = [pc |-> file, report |-> r, todo |-> LinesFor(file, r)]]

RunStage(w, r) ==
    /\ stage[w].pc = "off" /\ stagesRun < MaxStages /\ stagesRun' = stagesRun + 1
    /\ Opens(w, FirstFile, r)
    /\ UNCHANGED <<memory, costs, exists, tornFiles>>

\* One line: DecisionMemory._append_to_disk or CostLedger.record.
Writes(w, file) ==
    /\ stage[w].pc = file /\ stage[w].todo # <<>>
    /\ stage' = [stage EXCEPT ![w].todo = Tail(@)]
    /\ UNCHANGED <<tornFiles, stagesRun>>

WriteLesson(w) ==
    /\ Writes(w, "memory")
    /\ memory' = Append(memory, Head(stage[w].todo)) /\ exists' = TRUE
    /\ UNCHANGED costs

WriteCost(w) ==
    /\ Writes(w, "costs")
    /\ costs' = Append(costs, Head(stage[w].todo))
    /\ UNCHANGED <<memory, exists>>

NextFile(w) ==
    /\ stage[w].pc # "off" /\ stage[w].todo = <<>>
    /\ IF stage[w].pc = FirstFile THEN Opens(w, Other(FirstFile), stage[w].report)
       ELSE stage' = [stage EXCEPT ![w] = Off]
    /\ UNCHANGED <<memory, costs, exists, tornFiles, stagesRun>>

\* A process lost between two lines, or within one.
WriterDies(w) ==
    /\ stage[w].pc # "off" /\ stage' = [stage EXCEPT ![w] = Off]
    /\ \/ UNCHANGED tornFiles
       \/ stage[w].todo # <<>> /\ tornFiles' = tornFiles \cup {stage[w].pc}
    /\ exists' = (exists \/ "memory" \in tornFiles')
    /\ UNCHANGED <<memory, costs, stagesRun>>

MemoryNext ==
    \E w \in Writers : \/ \E r \in Reports : RunStage(w, r)
                       \/ WriteLesson(w) \/ WriteCost(w) \/ NextFile(w) \/ WriterDies(w)

MemorySpec == MemoryInit /\ [][MemoryNext]_memoryVars

-----------------------------------------------------------------------------
(* What a later run is offered.                                             *)

Lines(kind, h, v) == {m \in {memory[i] : i \in DOMAIN memory} :
                        m.kind = kind /\ m.hook = h /\ m.version = v}

\* reusable: a dimension unknown on either side is never compatible.
Reusable(m, context) ==
    \A d \in ReuseDimensions : m.compatibility[d] = context[d] /\ context[d] # Unknown

\* Mutant: an answer is told apart by when it was recorded, too.
AnswerWithStamp(m) == <<m.path, m.host, m.at>>

\* The token of conflicts_for.
Answer(m) == <<m.path, m.host>>

Conflicting(h, v) == \E m, n \in Lines("resolution", h, v) : Answer(m) # Answer(n)

\* The lines hint() may pick from.
Offered(h, context) ==
    {i \in DOMAIN memory :
       /\ memory[i].kind = "resolution" /\ memory[i].hook = h /\ Reusable(memory[i], context)
       /\ Lines("miss", h, memory[i].version) = {} /\ ~Conflicting(h, memory[i].version)}

Offer(m) == <<m.version, m.host, m.path>>

Offers(h, context) == {Offer(memory[i]) : i \in Offered(h, context)}

\* hint: the last of them, if there is one.
Hint(h, context) == {Offer(memory[i]) : i \in
                       {i \in Offered(h, context) : \A j \in Offered(h, context) : j <= i}}

MemoryHooks == UNION {DOMAIN r.answers : r \in Reports}

Taught(m) == [m EXCEPT !.at = Unknown]

\* Running the stage again, on the same report or on one that found the same,
\* after a crash or besides another process, adds a line that is already there in
\* all but its stamp.  It puts nothing on offer that was not and takes nothing off,
\* and it moves the hint only to what it says itself, only for its own hook, and
\* only from another version: an older version whose stage is run again is offered
\* before a newer one from then on.
ReplayKeepsOffers ==
    [][\A w \in Writers :
          LET told == Head(stage[w].todo) IN
          (/\ WriteLesson(w) /\ told.kind = "resolution"
           /\ Taught(told) \in {Taught(memory[i]) : i \in
                {j \in DOMAIN memory : memory[j].kind = "resolution"}})
          => \A h \in MemoryHooks, c \in Contexts :
               /\ Offers(h, c)' = Offers(h, c)
               /\ \/ Hint(h, c)' = Hint(h, c)
                  \/ /\ told.hook = h /\ Hint(h, c)' = {Offer(told)}
                     /\ \A given \in Hint(h, c) : given[1] # told.version]_memoryVars

=============================================================================
