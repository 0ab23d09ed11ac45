-------------------------------- MODULE HookSites --------------------------------
(***************************************************************************)
(* Where a hook goes: the manifest's anchors, matched against the classes of  *)
(* one decode (resolve.py, hook_manifest.py, hook_index.py), the captures a    *)
(* supplier must add (capture_supply.py), the operations that come of it, and  *)
(* the patcher that applies them, one after the other, to a tree of the same   *)
(* app (apply_anchored_patches.py).  A patched tree may be ported again.       *)
(*                                                                         *)
(* A line of smali is what it is an instance of and the register it names;     *)
(* a pattern or a payload line names a capture instead.                        *)
(***************************************************************************)
EXTENDS Integers, Sequences, FiniteSets

CONSTANTS
    SiteHooks,    \* active hooks, in the order of the manifest: see Hook
    Apps,         \* decodes a port may start from: functions from classes to bodies
    Registers,
    Ignored,      \* lines that do not count: directives, comments, blanks
    MaxPorts,     \* bound: how often the tree is ported
    NoCapture     \* a line without a capture

IsBody(lines) == lines \in Seq({lines[i] : i \in DOMAIN lines})

\* The lines that are an instance of op, in a pattern, a payload or a body.
LinesOf(op, lines) == {i \in DOMAIN lines : lines[i].op = op}

\* What the loader of the manifest demands of a form, and of the hooks together.
FormLoads(form, hook) ==
    /\ form.mode \in {"insert_after", "replace"}
    /\ IsBody(form.anchor) /\ form.anchor # <<>> /\ IsBody(form.payload)
    /\ Cardinality(LinesOf(hook.marker, form.payload)) = hook.expected

ManifestLoads ==
    /\ IsBody(SiteHooks)
    /\ \A h \in DOMAIN SiteHooks :
         /\ SiteHooks[h].expected \in Nat \ {0}
         /\ \A i \in DOMAIN SiteHooks[h].hosts :
              SiteHooks[h].hosts[i].kind \in {"named", "by_literal", "by_agent", "by_anchor"}
         /\ \A f \in DOMAIN SiteHooks[h].forms : FormLoads(SiteHooks[h].forms[f], SiteHooks[h])
    /\ \A g, h \in DOMAIN SiteHooks : SiteHooks[g].marker = SiteHooks[h].marker => g = h

ASSUME SitesAssumption ==
    /\ MaxPorts \in Nat /\ NoCapture \notin Registers
    /\ ManifestLoads
    /\ \A app \in Apps : \A c \in DOMAIN app : IsBody(app[c])

VARIABLES
    decode,    \* the tree that is analysed
    tree,      \* the work tree: a copy of it, being patched
    proposed,  \* what agents say: the host of a by_agent hook
    sites,     \* the resolve report, by hook
    toApply,   \* operations still to be applied, in order
    porting,   \* "analyse", "patch", "patched", "refused", "stopped"
    ports

siteVars == <<decode, tree, proposed, sites, toApply, porting, ports>>

HookIds == DOMAIN SiteHooks
Hosts(body) == DOMAIN body

NoReport == [h \in HookIds |-> [outcome |-> "none"]]

SitesInit ==
    /\ decode \in Apps /\ tree = decode
    /\ proposed \in [HookIds -> SUBSET Hosts(decode)]
    /\ \A h \in HookIds : proposed[h] # {} =>
          \E i \in DOMAIN SiteHooks[h].hosts : SiteHooks[h].hosts[i].kind = "by_agent"
    /\ sites = NoReport /\ toApply = <<>> /\ porting = "analyse" /\ ports = 0

-----------------------------------------------------------------------------
(* One body.                                                                *)

Marked(hook, body) == Cardinality(LinesOf(hook.marker, body))

\* The numbers of a set, in order.
InOrder(S) ==
    [n \in 1..Cardinality(S) |-> CHOOSE i \in S : Cardinality({j \in S : j <= i}) = n]

\* significant: the positions of the lines that count.
Counting(body)    == {i \in DOMAIN body : body[i].op \notin Ignored}
Significant(body) == InOrder(Counting(body))

Window(body, start, width) ==
    [i \in 1..width |-> body[Significant(body)[start + i - 1]]]

Starts(body, width) == 1..(Len(Significant(body)) - width + 1)

\* A capture met twice must name one register.
WindowMatches(anchor, window) ==
    /\ \A i \in DOMAIN anchor : window[i].op = anchor[i].op
    /\ \A i, j \in DOMAIN anchor : anchor[i].var = anchor[j].var /\ anchor[i].var # NoCapture
                                   => window[i].reg = window[j].reg

\* _hits_for
Hits(form, body) ==
    LET width == Len(form.anchor) IN
    {s \in Starts(body, width) : WindowMatches(form.anchor, Window(body, s, width))}

\* find_form_hits
FormsHit(hook, body) == {f \in DOMAIN hook.forms : Hits(hook.forms[f], body) # {}}

\* resolve_in_source, up to the captures that are not in the anchor.
InSource(hook, body) ==
    LET f == CHOOSE g \in FormsHit(hook, body) : TRUE IN
    CASE Marked(hook, body) = hook.expected              -> "applied"
      [] Marked(hook, body) \notin {0, hook.expected}    -> "partial"
      [] Marked(hook, body) = 0 /\ (\/ Cardinality(FormsHit(hook, body)) # 1
                                    \/ Cardinality(Hits(hook.forms[f], body)) # 1) -> "no_site"
      [] OTHER -> IF hook.supplied = {} THEN "site" ELSE "awaiting"

-----------------------------------------------------------------------------
(* The search for a host.                                                   *)

\* Mutant: a by_anchor search keeps only the classes whose anchor still matches.
AnchorScanMatched(h, form) ==
    {c \in Hosts(decode) : FormsHit(SiteHooks[h], decode[c]) \cap form # {}}

\* scan_for_anchor: the anchor matches, or the marker is there already.
AnchorScan(h, form) ==
    {c \in Hosts(decode) : \/ FormsHit(SiteHooks[h], decode[c]) \cap form # {}
                           \/ Marked(SiteHooks[h], decode[c]) > 0}

HoldsLiteral(c, literal) == LinesOf(literal, decode[c]) # {}

\* search_hosts, on an index of this very decode.
Search(h, fingerprint) ==
    CASE fingerprint.kind = "named"      -> {fingerprint.class} \cap Hosts(decode)
      [] fingerprint.kind = "by_literal" -> {c \in Hosts(decode) :
                                              \A l \in fingerprint.literals : HoldsLiteral(c, l)}
      [] fingerprint.kind = "by_anchor"  -> AnchorScan(h, fingerprint.forms)
      [] fingerprint.kind = "by_agent"   -> proposed[h]

\* The fingerprints of a hook are united, never tried in turn.
HostsOf(h) ==
    UNION {Search(h, SiteHooks[h].hosts[i]) : i \in DOMAIN SiteHooks[h].hosts}

HostsIn(h, state) == {c \in HostsOf(h) : InSource(SiteHooks[h], decode[c]) = state}

\* _classify; a hook whose payload is a shape needs a proposal once it is sited.
Verdict(h) ==
    LET sited == HostsIn(h, "site") \cup HostsIn(h, "awaiting") IN
    CASE HostsIn(h, "partial") # {} \/ Cardinality(HostsIn(h, "applied")) > 1 -> "conflict"
      [] HostsIn(h, "partial") = {} /\ Cardinality(HostsIn(h, "applied")) = 1 -> "already_applied"
      [] HostsIn(h, "partial") \cup HostsIn(h, "applied") = {} ->
           CASE sited # {} /\ SiteHooks[h].proposal -> "needs_agent"
             [] sited # {} /\ ~SiteHooks[h].proposal ->
                  IF Cardinality(sited) > 1 THEN "ambiguous"
                  ELSE IF HostsIn(h, "awaiting") # {} THEN "awaiting" ELSE "resolved"
             [] HostsOf(h) = {} -> IF \E i \in DOMAIN SiteHooks[h].hosts :
                                            SiteHooks[h].hosts[i].kind = "by_agent"
                                      THEN "needs_agent" ELSE "not_found"
             [] OTHER -> "unresolved"

Host(h, state) == CHOOSE c \in HostsIn(h, state) : TRUE

\* run_supply_chain: the first supplier whose answer is whole and of the right
\* kind; nothing when all of them decline.
Supplied(answers) ==
    LET good == {i \in DOMAIN answers : answers[i] \in Registers}
    IN  IF good = {} THEN NoCapture ELSE answers[CHOOSE i \in good : \A j \in good : i <= j]

-----------------------------------------------------------------------------
(* Operations.                                                              *)

Value(form, window, value, var) ==
    IF \E i \in DOMAIN form.anchor : form.anchor[i].var = var
    THEN window[CHOOSE i \in DOMAIN form.anchor : form.anchor[i].var = var].reg ELSE value

\* render, and Resolution.as_operation: the anchor is the text that was matched.
Operation(h, c, value) ==
    LET hook   == SiteHooks[h]
        form   == hook.forms[CHOOSE f \in FormsHit(hook, decode[c]) : TRUE]
        window == Window(decode[c], CHOOSE s \in Hits(form, decode[c]) : TRUE, Len(form.anchor))
    IN  [hook |-> h, class |-> c, mode |-> form.mode, anchor |-> window,
         payload |-> [i \in DOMAIN form.payload |->
                        [op  |-> form.payload[i].op,
                         reg |-> IF form.payload[i].var = NoCapture THEN NoCapture
                                 ELSE Value(form, window, value, form.payload[i].var)]]]

Report(h, value) ==
    CASE Verdict(h) = "already_applied" ->
           [outcome |-> "already_applied", class |-> Host(h, "applied")]
      [] Verdict(h) = "resolved" ->
           [outcome |-> "resolved", class |-> Host(h, "site"),
            operation |-> Operation(h, Host(h, "site"), NoCapture)]
      [] Verdict(h) = "awaiting" ->
           IF value = NoCapture THEN [outcome |-> "needs_agent"]
           ELSE [outcome |-> "resolved", class |-> Host(h, "awaiting"),
                 operation |-> Operation(h, Host(h, "awaiting"), value)]
      [] OTHER -> [outcome |-> Verdict(h)]

Escalates(report) == report.outcome \notin {"resolved", "already_applied"}

\* find_anchors of the patcher: the very text, at consecutive lines that count.
Places(body, anchor) ==
    {s \in Starts(body, Len(anchor)) : Window(body, s, Len(anchor)) = anchor}

\* apply_operation
Patched(body, operation) ==
    LET s     == CHOOSE p \in Places(body, operation.anchor) : TRUE
        first == Significant(body)[s]
        last  == Significant(body)[s + Len(operation.anchor) - 1]
        after == SubSeq(body, last + 1, Len(body))
    IN  IF operation.mode = "replace"
        THEN SubSeq(body, 1, first - 1) \o operation.payload \o after
        ELSE SubSeq(body, 1, last) \o operation.payload \o after

-----------------------------------------------------------------------------
(* Steps.                                                                   *)

\* resolve_manifest: every hook against the untouched decode.
ResolveAll(answers) ==
    /\ porting = "analyse" /\ sites = NoReport
    /\ sites' = [h \in HookIds |-> Report(h, Supplied(answers))]
    /\ UNCHANGED <<decode, tree, proposed, toApply, porting, ports>>

\* ResolveReport.operations: nothing is applied while a hook escalates.
ComposeOperations ==
    /\ porting = "analyse" /\ sites # NoReport
    /\ IF \E h \in HookIds : Escalates(sites[h])
       THEN porting' = "stopped" /\ UNCHANGED <<tree, toApply>>
       ELSE /\ porting' = "patch" /\ tree' = decode
            /\ toApply' = InOrder({h \in HookIds : sites[h].outcome = "resolved"})
    /\ UNCHANGED <<decode, proposed, sites, ports>>

ApplyForm ==
    /\ porting = "patch" /\ toApply # <<>>
    /\ LET operation == sites[Head(toApply)].operation
           hook      == SiteHooks[Head(toApply)]
           body      == tree[operation.class]
       IN  \/ /\ Marked(hook, body) = hook.expected
              /\ toApply' = Tail(toApply) /\ UNCHANGED <<tree, porting>>
           \/ /\ Marked(hook, body) = 0 /\ Cardinality(Places(body, operation.anchor)) = 1
              /\ tree' = [tree EXCEPT ![operation.class] = Patched(body, operation)]
              /\ toApply' = Tail(toApply) /\ UNCHANGED porting
           \/ /\ Marked(hook, body) # hook.expected
              /\ Marked(hook, body) # 0 \/ Cardinality(Places(body, operation.anchor)) # 1
              /\ porting' = "refused" /\ toApply' = <<>> /\ UNCHANGED tree
    /\ UNCHANGED <<decode, proposed, sites, ports>>

PatcherEnds ==
    /\ porting = "patch" /\ toApply = <<>> /\ porting' = "patched"
    /\ UNCHANGED <<decode, tree, proposed, sites, toApply, ports>>

\* A patched tree is ported once more, as a decode with an index of its own.
PortAgain ==
    /\ porting = "patched" /\ ports < MaxPorts
    /\ decode' = tree /\ ports' = ports + 1
    /\ porting' = "analyse" /\ sites' = NoReport
    /\ UNCHANGED <<tree, proposed, toApply>>

SitesNext ==
    \/ \E answers \in [1..2 -> Registers \cup {NoCapture}] : ResolveAll(answers)
    \/ ComposeOperations \/ ApplyForm \/ PatcherEnds \/ PortAgain

SitesSpec == SitesInit /\ [][SitesNext]_siteVars

-----------------------------------------------------------------------------
\* What keeps the hooks of a manifest apart.  No loader asks it of a manifest; the
\* one that is shipped (manifest/hooks.json) is so on pristine decodes: no marker is
\* there yet or in another hook's payload; the lines of a patch around its marker
\* that count are not asked for by any anchor; and what a form replaces it puts
\* back as far as hosts are searched by it.
Markers    == {SiteHooks[h].marker : h \in HookIds}
Literals   == UNION {UNION {SiteHooks[h].hosts[i].literals :
                  i \in {j \in DOMAIN SiteHooks[h].hosts : SiteHooks[h].hosts[j].kind = "by_literal"}}
                : h \in HookIds}
FormsOf(h) == {SiteHooks[h].forms[f] : f \in DOMAIN SiteHooks[h].forms}
Asked(op)  == \E h \in HookIds : \E form \in FormsOf(h) : LinesOf(op, form.anchor) # {}

\* Between a marker and some line that counts and is not asked for nothing counts.
Fenced(body) ==
    \A m \in DOMAIN body : body[m].op \in Markers =>
      \E g \in Counting(body) : /\ ~Asked(body[g].op)
                               /\ \A k \in Counting(body) : ~(m < k /\ k < g) /\ ~(g < k /\ k < m)

HooksKeepApart ==
    /\ \A app \in Apps : \A c \in DOMAIN app : \A op \in Markers : LinesOf(op, app[c]) = {}
    /\ \A h \in HookIds : \A form \in FormsOf(h) :
         /\ Fenced(form.payload)
         /\ \A g \in HookIds \ {h} : LinesOf(SiteHooks[g].marker, form.payload) = {}
         /\ form.mode = "replace" => \A l \in Literals :
              LinesOf(l, form.anchor) # {} => LinesOf(l, form.payload) # {}
    /\ Literals \cap Ignored = {}

\* Porting a tree that this pipeline patched changes nothing: every hook is
\* reported as applied, in the class the first port put it in, whatever anchors
\* the payloads of the other hooks have split, moved or repeated.
PatchedTreeIsRecognised ==
    (ports > 0 /\ porting # "analyse") =>
        /\ \A h \in HookIds : sites[h].outcome = "already_applied"
        /\ toApply = <<>> /\ tree = decode

=============================================================================
