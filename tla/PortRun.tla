--------------------------------- MODULE PortRun ---------------------------------
(***************************************************************************)
(* One port, from a stock APK to a patched one (driver.py): decode and index, *)
(* assess the patches proposed for whole hooks (proposals.py), look for the   *)
(* sites, ask agents for the hosts that nothing mechanical finds              *)
(* (discovery.py, proposer.py), file the evidence and hold the port at the    *)
(* gate, compose the operations, build and verify (tools/build,               *)
(* tools/verify).  A later run may use the directory of an earlier one.       *)
(*                                                                         *)
(* Where an anchor matches is the subject of HookSites; here a hook is the    *)
(* class it belongs in and what points there.  What agents answer is free.    *)
(***************************************************************************)
EXTENDS Integers, FiniteSets, Sequences

CONSTANTS
    RunHooks,     \* the active hooks
    Classes,      \* classes of the decode, numbered in the order of their descriptors
    DexOf,        \* the DEX file of a class
    PortRequests, \* what a run may be asked to do: see StartPort
    KAgents, Checkers, MaxCalls,  \* Discovery: k, verifiers, max_agent_calls
    MaxPortRuns,  \* bound: runs in one directory
    NoClass, NoProposal

ASSUME RunAssumption ==
    /\ Classes \subseteq Nat /\ NoClass \notin Classes
    /\ KAgents >= 2 /\ Checkers >= 1 /\ MaxCalls >= KAgents + Checkers

VARIABLES
    runStage,   \* where _run_stages is; a member of Closed when no run is going on
    request,    \* the options of the run
    outputs,    \* what the directory holds: "decode", "index", "patch_source", "build"
    hosts,      \* classes proposed for a hook, by a person or by agents
    accepted,   \* the accepted proposal of a hook
    found,      \* the resolve report: the outcome of a hook
    asking,     \* hooks the agents are still to be asked about
    spent,      \* agent calls
    subjects,   \* provenance of the hooks the ledger knows
    claims,     \* evidence of this run: [hook, kind, passed]
    composed,   \* hooks with an operation in the patch source
    carried,    \* hooks whose patch is in the APK of this run, or {NoProposal}
    receipt,    \* record_run was called for this run
    portRuns

runVars == <<runStage, request, outputs, hosts, accepted, found, asking, spent, subjects,
             claims, composed, carried, receipt, portRuns>>

Closed == {"idle", "ended", "stopped", "failed"}
NothingBuilt  == {NoProposal}

\* No run has begun: the value is overwritten before it is read.
FirstRequest == CHOOSE r \in PortRequests : r.gate

PortRunInit ==
    /\ runStage = "idle" /\ outputs = {} /\ portRuns = 0 /\ spent = 0
    /\ request = FirstRequest
    /\ hosts = [h \in RunHooks |-> {}] /\ accepted = [h \in RunHooks |-> NoProposal]
    /\ found = [h \in RunHooks |-> "none"] /\ subjects = [h \in RunHooks |-> "none"]
    /\ asking = {} /\ claims = {} /\ composed = {} /\ carried = NothingBuilt /\ receipt = FALSE

\* port: a request is [manifest, filed, findings, given, gate, discover, stopAfter, reuse]:
\* the entries of the hooks, the proposals, refutations and hosts that are on file for
\* them, and the options.  An entry is [applied, found, shape, byAgent, safe, home,
\* symbols]: what the decode has of the hook, what points at its site, whether its
\* payload is a shape, whether agents may be asked, whether its registers are safe,
\* the class it belongs in and what its payload refers to.
StartPort(r) ==
    /\ runStage \in Closed /\ portRuns < MaxPortRuns /\ r.reuse \subseteq outputs
    /\ request' = r /\ hosts' = r.given /\ portRuns' = portRuns + 1 /\ spent' = 0
    /\ runStage' = "extract"
    /\ accepted' = [h \in RunHooks |-> NoProposal]
    /\ found' = [h \in RunHooks |-> "none"] /\ subjects' = [h \in RunHooks |-> "none"]
    /\ asking' = {} /\ claims' = {} /\ composed' = {} /\ carried' = NothingBuilt /\ receipt' = FALSE
    /\ UNCHANGED outputs

Entry(h) == request.manifest[h]

-----------------------------------------------------------------------------
(* How a stage ends, and the first two.                                     *)

SomethingFound == \E h \in RunHooks : found[h] # "none"

\* A stage returns a result when the run was to stop after it.
Reach(stage, next) ==
    IF request.stopAfter = stage THEN runStage' = "ended" /\ receipt' = SomethingFound
                                 ELSE runStage' = next /\ UNCHANGED receipt

\* DriverError: only one that carries the report is billed.
FailRun(withReport) == runStage' = "failed" /\ receipt' = withReport

\* extract and build_index refuse what is there already; the tool may fail.
Produce(stage, file, next) ==
    /\ runStage = stage /\ file \notin request.reuse
    /\ \/ file \notin outputs /\ outputs' = outputs \cup {file} /\ Reach(stage, next)
       \/ FailRun(FALSE) /\ UNCHANGED outputs
    /\ UNCHANGED <<request, hosts, accepted, found, asking, spent, subjects, claims,
                   composed, carried, portRuns>>

Reuse(stage, file, next) ==
    /\ runStage = stage /\ file \in request.reuse /\ Reach(stage, next)
    /\ UNCHANGED <<request, outputs, hosts, accepted, found, asking, spent, subjects, claims,
                   composed, carried, portRuns>>

Extract    == Produce("extract", "decode", "index") \/ Reuse("extract", "decode", "index")
BuildIndex == Produce("index", "index", "assess") \/ Reuse("index", "index", "assess")

\* record_assessment keeps nothing in this directory: see AssessmentRecord.
AssessSurface ==
    /\ runStage = "assess" /\ Reach("assess", "propose")
    /\ UNCHANGED <<request, outputs, hosts, accepted, found, asking, spent, subjects, claims,
                   composed, carried, portRuns>>

-----------------------------------------------------------------------------
(* Proposals.  A proposal is [by, class, effect, marked, ok, regs]: who made it,   *)
(* where it goes, what it does (the effect key), whether its payload has the    *)
(* marker, and what the validator says of its anchor and its registers.         *)

ClaimOf(h, kind, passed) == [hook |-> h, kind |-> kind, passed |-> passed]

\* one_per_proposer
Votes(filed) ==
    SelectSeq([i \in DOMAIN filed |-> i],
              LAMBDA i : \A j \in 1..(i - 1) : filed[j].by # filed[i].by)

\* plurality, host_agreement: the largest group, of equals the last by name.
Winner(votes) ==
    LET size(v) == Cardinality({i \in DOMAIN votes : votes[i] = v})
        answers == {votes[i] : i \in DOMAIN votes}
    IN  CHOOSE v \in answers : \A w \in answers \ {v} :
            size(w) < size(v) \/ (size(w) = size(v) /\ w < v)

Size(votes) == Cardinality({i \in DOMAIN votes : votes[i] = Winner(votes)})

\* Two of a group at least, and half of those who answered.
Agreed(votes) == votes # <<>> /\ Size(votes) >= 2 /\ 2 * Size(votes) >= Len(votes)

Effects(filed) == [i \in DOMAIN Votes(filed) |-> filed[Votes(filed)[i]].effect]
WinnerGroup(filed) ==
    SelectSeq(Votes(filed), LAMBDA i : filed[i].effect = Winner(Effects(filed)))
Authors(filed) == {filed[WinnerGroup(filed)[i]].by : i \in DOMAIN WinnerGroup(filed)}

\* assess: what is accepted.
Accepted(filed, findings) ==
    LET candidates == SelectSeq(WinnerGroup(filed), LAMBDA i : filed[i].ok) IN
    IF /\ filed # <<>>
       /\ \A i \in DOMAIN filed : filed[i].marked
       /\ \A f \in findings : f.by \notin Authors(filed) /\ ~f.refuted
       /\ Agreed(Effects(filed))
       /\ candidates # <<>>
    THEN filed[Head(candidates)] ELSE NoProposal

\* What assess files: one claim for the agreement, two for every proposal, one
\* for every finding of somebody else.
AssessClaims(h, filed, findings) ==
    {ClaimOf(h, "agreement", Agreed(Effects(filed)))}
    \cup {ClaimOf(h, "anchor", filed[i].ok) : i \in DOMAIN filed}
    \cup {ClaimOf(h, "registers", filed[i].regs) : i \in DOMAIN filed}
    \cup {ClaimOf(h, "adversarial", ~f.refuted) : f \in {g \in findings : g.by \notin Authors(filed)}}

FiledHooks == {h \in RunHooks : request.filed[h] # <<>>}

\* assess_proposals; the host of an accepted proposal counts unless a person named one.
AssessProposals ==
    /\ runStage = "propose" /\ runStage' = "resolve"
    /\ accepted' = [h \in RunHooks |-> Accepted(request.filed[h], request.findings[h])]
    /\ claims' = UNION {AssessClaims(h, request.filed[h], request.findings[h]) : h \in FiledHooks}
    /\ subjects' = [h \in RunHooks |-> IF h \in FiledHooks THEN "agent" ELSE "none"]
    /\ hosts' = [h \in RunHooks |-> IF hosts[h] = {} /\ accepted'[h] # NoProposal
                                    THEN {accepted'[h].class} ELSE hosts[h]]
    /\ UNCHANGED <<request, outputs, found, asking, spent, composed, carried, receipt, portRuns>>

-----------------------------------------------------------------------------
(* Sites, and the hosts that agents find.                                   *)

\* resolve_manifest: see HookSites.
OutcomeOf(h, given) ==
    LET hook == Entry(h)
        site == hook.found \/ (hook.byAgent /\ hook.home \in given)
    IN  CASE hook.applied                                    -> "already_applied"
          [] ~hook.applied /\ site /\ hook.shape             -> "needs_agent"
          [] ~hook.applied /\ site /\ ~hook.shape            -> "resolved"
          [] ~hook.applied /\ ~site /\ hook.byAgent /\ given = {} -> "needs_agent"
          [] OTHER                                           -> "unresolved"

Resolves(outcome) == outcome \in {"resolved", "already_applied"}

\* needs_a_host, of the hooks nobody has filed a proposal for.
NeedsHost(h) ==
    /\ found'[h] = "needs_agent" /\ Entry(h).byAgent /\ hosts[h] = {} /\ h \notin FiledHooks

Resolve ==
    /\ runStage = "resolve" /\ runStage' = "discover"
    /\ found' = [h \in RunHooks |-> OutcomeOf(h, hosts[h])]
    /\ asking' = IF request.discover THEN {h \in RunHooks : NeedsHost(h)} ELSE {}
    /\ UNCHANGED <<request, outputs, hosts, accepted, spent, subjects, claims, composed,
                   carried, receipt, portRuns>>

\* Budget.affords: what asking about one hook costs, whole.
Affords == spent + KAgents + Checkers <= MaxCalls

ClassesNamed(given) == SelectSeq(given, LAMBDA c : c # NoClass)

\* _discover_one: an agent names a class or fails; a checker that fails refutes; no
\* checker is asked when nothing was answered.  The agreed class is a host of the
\* hook whatever the checkers say: what they say is a claim.
DiscoverOne(h, given, refuted) ==
    LET votes == ClassesNamed(given) IN
    /\ runStage = "discover" /\ h \in asking /\ Affords
    /\ asking' = asking \ {h}
    /\ spent' = spent + KAgents + IF votes = <<>> THEN 0 ELSE Checkers
    /\ subjects' = [subjects EXCEPT ![h] = "agent"]
    /\ claims' = claims \cup (IF votes = <<>> THEN {} ELSE
           {ClaimOf(h, "agreement", Agreed(votes))}
           \cup {ClaimOf(h, "adversarial", ~refuted[i]) : i \in DOMAIN refuted})
    /\ hosts' = IF Agreed(votes) THEN [hosts EXCEPT ![h] = @ \cup {Winner(votes)}] ELSE hosts
    /\ UNCHANGED <<runStage, request, outputs, accepted, found, composed, carried, receipt, portRuns>>

\* A hook the budget does not reach is left as it is.
SkipHook(h) ==
    /\ runStage = "discover" /\ h \in asking /\ ~Affords /\ asking' = asking \ {h}
    /\ UNCHANGED <<runStage, request, outputs, hosts, accepted, found, spent, subjects,
                   claims, composed, carried, receipt, portRuns>>

\* SandboxError, AgentUnavailable: before any agent is asked.
DiscoveryUnavailable ==
    /\ runStage = "discover" /\ asking # {} /\ spent = 0 /\ FailRun(FALSE)
    /\ UNCHANGED <<request, outputs, hosts, accepted, found, asking, spent, subjects, claims,
                   composed, carried, portRuns>>

\* The sites once more with the hosts found; a hook that still escalates stops the run
\* unless a proposal was accepted for it.
Settle ==
    /\ runStage = "discover" /\ asking = {}
    /\ found' = [h \in RunHooks |-> OutcomeOf(h, hosts[h])]
    /\ IF request.stopAfter = "resolve" THEN runStage' = "ended" /\ receipt' = TRUE
       ELSE IF \E h \in RunHooks : ~Resolves(found'[h]) /\ accepted[h] = NoProposal
            THEN runStage' = "stopped" /\ receipt' = TRUE
            ELSE runStage' = "gate" /\ UNCHANGED receipt
    /\ UNCHANGED <<request, outputs, hosts, accepted, asking, spent, subjects, claims,
                   composed, carried, portRuns>>

-----------------------------------------------------------------------------
(* The gate.                                                                *)

Provenance(h) ==
    CASE subjects[h] # "none"            -> subjects[h]
      [] found[h] = "already_applied"    -> "already_applied"
      [] hosts[h] # {}                   -> "agent"
      [] OTHER                           -> "mechanical"

\* Mutant: a hook that did not resolve leaves no claim.
SiteClaimsOfResolved(h) ==
    IF ~Resolves(found[h]) THEN {} ELSE
    {ClaimOf(h, "anchor", TRUE)}
    \cup IF found[h] = "resolved" THEN {ClaimOf(h, "registers", Entry(h).safe)} ELSE {}

\* record_resolution_evidence, for one hook.
SiteClaims(h) ==
    {ClaimOf(h, "anchor", Resolves(found[h]))}
    \cup IF found[h] = "resolved" THEN {ClaimOf(h, "registers", Entry(h).safe)} ELSE {}

\* requirements_for, before anything is applied.
Required(provenance) ==
    CASE provenance = "mechanical"      -> {"anchor", "registers"}
      [] provenance = "agent"           -> {"anchor", "registers", "agreement", "adversarial"}
      [] provenance = "already_applied" -> {"anchor"}

\* A kind that failed once stays unsatisfied, whatever passes afterwards.
Ready(h, evidence) ==
    \A kind \in Required(Provenance(h)) :
        ClaimOf(h, kind, TRUE) \in evidence /\ ClaimOf(h, kind, FALSE) \notin evidence

Gate ==
    /\ runStage = "gate"
    /\ claims' = claims \cup UNION {SiteClaims(h) : h \in RunHooks}
    /\ subjects' = [h \in RunHooks |-> Provenance(h)]
    /\ IF request.gate /\ \E h \in RunHooks : ~Ready(h, claims')
       THEN runStage' = "stopped" /\ receipt' = TRUE
       ELSE Reach("gate", "compose")
    /\ UNCHANGED <<request, outputs, hosts, accepted, found, asking, spent, composed,
                   carried, portRuns>>

-----------------------------------------------------------------------------
(* Composition and build.                                                   *)

\* The operations of the report, and the accepted proposals of the hooks without one.
ComposePatch ==
    /\ runStage = "compose"
    /\ IF "patch_source" \in outputs THEN FailRun(FALSE) /\ UNCHANGED <<outputs, composed>>
       ELSE /\ outputs' = outputs \cup {"patch_source"} /\ Reach("compose", "build")
            /\ composed' = {h \in RunHooks : found[h] = "resolved" \/ accepted[h] # NoProposal}
    /\ UNCHANGED <<request, hosts, accepted, found, asking, spent, subjects, claims,
                   carried, portRuns>>

\* Where the operation of a hook goes.
Target(h) == IF Resolves(found[h]) \/ accepted[h] = NoProposal THEN Entry(h).home
             ELSE accepted[h].class

\* host_dex_entries and host_hook_map: of the hooks the report resolves.
ReplaceDex == {DexOf[Entry(h).home] : h \in {g \in RunHooks : Resolves(found[g])}}
HostHooks  == UNION {{<<DexOf[Entry(h).home], s>> : s \in Entry(h).symbols} :
                     h \in {g \in RunHooks : Resolves(found[g])}}

\* graft_apk: of the patched tree the APK gets the replaced DEX files only.
Grafted == {h \in RunHooks : \/ found[h] = "already_applied"
                             \/ h \in composed /\ DexOf[Target(h)] \in ReplaceDex}

\* verify_build: every symbol the map names is in its DEX file.
Verifies == \A pair \in HostHooks :
                \E h \in Grafted : DexOf[Target(h)] = pair[1] /\ pair[2] \in Entry(h).symbols

\* The checks before the builder may refuse without the report (the rulings, the
\* settings dialog, nothing to graft); a failure of the builder is billed.
Build ==
    /\ runStage = "build"
    /\ \/ FailRun(FALSE) /\ UNCHANGED <<outputs, carried>>
       \/ /\ ReplaceDex # {} /\ HostHooks # {}
          /\ \/ FailRun(TRUE) /\ outputs' \in {outputs, outputs \cup {"build"}} /\ UNCHANGED carried
             \/ /\ "build" \notin outputs /\ Verifies
                /\ outputs' = outputs \cup {"build"} /\ carried' = Grafted
                /\ runStage' = "ended" /\ receipt' = TRUE
    /\ UNCHANGED <<request, hosts, accepted, found, asking, spent, subjects, claims,
                   composed, portRuns>>

PortRunNext ==
    \/ \E r \in PortRequests : StartPort(r)
    \/ Extract \/ BuildIndex \/ AssessSurface \/ AssessProposals \/ Resolve
    \/ \E h \in asking, given \in [1..KAgents -> Classes \cup {NoClass}],
          refuted \in [1..Checkers -> BOOLEAN] : DiscoverOne(h, given, refuted)
    \/ \E h \in asking : SkipHook(h)
    \/ DiscoveryUnavailable \/ Settle \/ Gate \/ ComposePatch \/ Build

PortRunSpec == PortRunInit /\ [][PortRunNext]_runVars

-----------------------------------------------------------------------------
\* An APK that left the gate carries every active hook, although the list of DEX files
\* to graft is made of the hooks that resolved and the operations also of proposals.
GatedBuildCarriesEveryHook ==
    (request.gate /\ carried # NothingBuilt) => carried = RunHooks

=============================================================================
