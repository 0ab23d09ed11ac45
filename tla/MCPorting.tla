------------------------------ MODULE MCPorting ------------------------------
(***************************************************************************)
(* The components of a port that share no state, side by side for TLC: a   *)
(* behaviour picks one of them at the start and runs it, the others keep   *)
(* one of their initial states.  The states explored are the sum of the    *)
(* components' states and not their product; since no component reads      *)
(* another's variables, that is everything the product could show.         *)
(***************************************************************************)
EXTENDS FeatureGate, Rulings, WorkspaceReaper, PortEvidence, PortHistory, PortMemory,
        HookSites, PortRun, ReplayReceipts, TreePort, TreeCapture, SourceAdmission, PortRunbook, TLC

VARIABLE part  \* the component that runs

Parts == {"gate", "rulings", "reaper", "evidence", "history", "memory",
          "sites", "run", "receipts", "tree", "capture", "admission", "runbook"}

vars == <<gateVars, rulingVars, reaperVars, evidenceVars, historyVars, memoryVars,
          siteVars, runVars, receiptVars, portVars, captureVars, admissionVars, runbookVars>>

-----------------------------------------------------------------------------
(* FeatureGate: three documents, one of which no admission accepts.        *)

RuledAs(v, s, k) == [verdict |-> v, said |-> s, consent |-> k]
BlocksOne == ("c1" :> RuledAs("block", TRUE, "mixed")) @@ ("c2" :> RuledAs("ignore", FALSE, ""))
DefersOne == ("c1" :> RuledAs("ignore", FALSE, "")) @@ ("c2" :> RuledAs("defer", TRUE, ""))
ActsUnmeasured == ("c1" :> RuledAs("ignore", FALSE, ""))
                  @@ ("c2" :> RuledAs("offer_toggle", TRUE, "mixed"))
MCDocuments == {BlocksOne, DefersOne, ActsUnmeasured}
MCAnswers ==
    {[choice |-> "approve", words |-> "as typed", document |-> BlocksOne],
     [choice |-> "approve", words |-> "as typed", document |-> DefersOne],
     [choice |-> "reject", words |-> "as typed", document |-> DefersOne]}

(* Rulings: two runs that rule on the same endpoint, one that rules on a   *)
(* candidate that is no endpoint of the block.                             *)

Rule(c, v, p, r) == [candidate |-> c, verdict |-> v, policy |-> p, run |-> r]
MCRulesOf ==
    ("r1" :> <<Rule("e1", "ignore", "p1", "r1"), Rule("e2", "block", "p1", "r1")>>)
    @@ ("r2" :> <<Rule("e1", "defer", "p1", "r2")>>)
    @@ ("r3" :> <<Rule("x", "block", "p2", "r3")>>)
MCTouching == {<<e, e>> : e \in {"e1", "e2"}} \cup {<<"e1", "e2">>}

(* PortMemory: three reports of two hooks, two of them on one version that *)
(* the seed has, too, so that an older version can be recorded after a newer. *)

MemoryBase == [semantic_feature_identity |-> "s", delivery_mechanism |-> "d",
               evidence_fingerprint |-> Unknown, policy_revision |-> "p"]
Reply(o, h, f) == [outcome |-> o, host |-> h, path |-> h, found |-> f, literals |-> {}]
MCReports ==
    {[version |-> "440", at |-> "t1", base |-> MemoryBase, order |-> <<"e", "f">>,
      answers |-> [e |-> Reply("resolved", "L1", "by_literal"),
                   f |-> Reply("needs_agent", Unknown, "none")]],
     [version |-> "440", at |-> "t2", base |-> MemoryBase, order |-> <<"e", "f">>,
      answers |-> [e |-> Reply("resolved", "L1", "by_literal"),
                   f |-> Reply("resolved", "L3", "by_agent")]],
     [version |-> "441", at |-> "t3", base |-> MemoryBase, order |-> <<"e", "f">>,
      answers |-> [e |-> Reply("resolved", "L2", "by_literal"),
                   f |-> Reply("already_applied", "L3", "by_anchor")]]}
MCContexts ==
    {[MemoryBase EXCEPT !["evidence_fingerprint"] =
        <<<<"by_literal", {}, Unknown>>, {"structural_shape", "api_path_literal"}>>]}
MCSeedMemory ==
    <<[kind |-> "resolution", hook |-> "e", version |-> "439", host |-> "L0", path |-> "L0",
       compatibility |-> CHOOSE c \in MCContexts : TRUE, at |-> "t0"],
      [kind |-> "resolution", hook |-> "e", version |-> "440", host |-> "L1", path |-> "L1",
       compatibility |-> CHOOSE c \in MCContexts : TRUE, at |-> "t0"],
      [kind |-> "miss", hook |-> "e", version |-> "439"]>>

(* HookSites: hooks like replace_reels_*, install_settings_long_click and  *)
(* set_app_context, over every class body of up to three lines.            *)

CONSTANTS v0, v1, l1, l2
At(o, reg) == [op |-> o, reg |-> reg]
On(o, v) == [op |-> o, var |-> v]
MCSiteHooks == <<
  [hosts |-> <<[kind |-> "by_literal", literals |-> {"lit"}],
               [kind |-> "by_anchor", forms |-> {2}]>>,
   forms |-> <<[anchor |-> <<On("lit", "r")>>, mode |-> "replace",
                payload |-> <<On("probe", NoCapture), On("mark1", NoCapture),
                              On("lit", "r"), On("call", "r")>>],
               [anchor |-> <<On("pool", "r"), On("end", NoCapture)>>, mode |-> "insert_after",
                payload |-> <<On("probe", NoCapture), On("mark1", NoCapture),
                              On("call", "r")>>]>>,
   marker |-> "mark1", expected |-> 1, supplied |-> {}, proposal |-> FALSE],
  [hosts |-> <<[kind |-> "by_anchor", forms |-> {1}]>>,
   forms |-> <<[anchor |-> <<On("lit", "r"), On("use", "r")>>, mode |-> "replace",
                payload |-> <<On("lit", "r"), On("mark2", NoCapture), On("guard", "s"),
                              On("use", "r")>>]>>,
   marker |-> "mark2", expected |-> 1, supplied |-> {"s"}, proposal |-> FALSE]>>
MCLines == {At("lit", v0), At("pool", v0), At("use", v0), At("use", v1),
            At("end", NoCapture), At("note", NoCapture)}
Bodies(lengths) == UNION {[1..n -> MCLines] : n \in lengths}
MCApps == {(l1 :> body) @@ (l2 :> line) : body \in Bodies(0..3), line \in {<<>>, <<At("lit", v0)>>}}
OneApp == [c \in {l1, l2} |-> <<>>]

\* What PatchedTreeIsRecognised is proved from.
ASSUME HooksKeepApart

(* PortRun: h1 is found mechanically in class 1, or is there already, or   *)
(* needs an agent's host, as h2 does when it is not a payload's shape in   *)
(* class 2.  The calls of one hook exhaust the budget.                     *)

RunHook(applied, isFound, shape, byAgent, home) ==
    [applied |-> applied, found |-> isFound, shape |-> shape, byAgent |-> byAgent,
     safe |-> TRUE, home |-> home, symbols |-> {"a"}]
MCManifests ==
    [h1 : {RunHook(FALSE, TRUE, FALSE, FALSE, 1), RunHook(TRUE, TRUE, FALSE, FALSE, 1),
           RunHook(FALSE, FALSE, FALSE, TRUE, 1)},
     h2 : {RunHook(FALSE, TRUE, TRUE, FALSE, 2), RunHook(FALSE, FALSE, FALSE, TRUE, 2)}]
MCDexOf == <<"d1", "d2">>
Filing(by, class, effect, ok) ==
    [by |-> by, class |-> class, effect |-> effect, marked |-> TRUE, ok |-> ok, regs |-> TRUE]
MCFilings ==
    {<<>>, <<Filing("p1", 2, 1, TRUE)>>,
     <<Filing("p1", 2, 1, TRUE), Filing("p2", 2, 1, TRUE)>>,
     <<Filing("p1", 2, 1, FALSE), Filing("p2", 2, 1, TRUE), Filing("p3", 1, 2, TRUE)>>}
MCFindings == {{}, {[by |-> "c1", refuted |-> FALSE]}, {[by |-> "c1", refuted |-> TRUE]}}
PortStages == {"extract", "index", "assess", "resolve", "gate", "compose", "build"}
MCRequests ==
    [manifest : MCManifests,
     filed : {[h1 |-> <<>>, h2 |-> filing] : filing \in MCFilings},
     findings : {[h1 |-> {}, h2 |-> f] : f \in MCFindings},
     given : {[h1 |-> {}, h2 |-> {}]}, gate : BOOLEAN, discover : {TRUE},
     stopAfter : {"build"}, reuse : {{}}]
    \cup
    [manifest : MCManifests, filed : {[h1 |-> <<>>, h2 |-> <<>>]},
     findings : {[h1 |-> {}, h2 |-> {}]}, given : {[h1 |-> {}, h2 |-> {2}]},
     gate : BOOLEAN, discover : BOOLEAN, stopAfter : PortStages,
     reuse : {{}, {"decode", "index"}}]

(* ReplayReceipts: a profile without frameworks and one with a framework   *)
(* bound in every role.                                                    *)

MCProfiles ==
    {[name |-> "bare", frameworks |-> {}, bound |-> {"decode", "build"},
      planned |-> {"decode", "build"}, framed |-> {"build"}, timeout |-> [r \in Roles |-> 60]],
     [name |-> "framed", frameworks |-> {1}, bound |-> Roles,
      planned |-> Roles, framed |-> Roles, timeout |-> [r \in Roles |-> 60]]}

(* TreePort: up to three of eleven operations in any order, the kinds      *)
(* mixed, on five backends.                                                *)

ClassA == <<"classes", "A">>
ClassN == <<"classes3", "N">>
Values == <<"res", "values">>
Asset  == <<"assets", "x">>
AndroidManifest == <<"manifest", "manifest">>
MCDexEntries == {"classes", "classes2", "classes3"}
MCIntents ==
    ("h1" :> [disposition |-> "retain",
              strategies |-> {"smali_edit", "append_resource_entries",
                              "append_manifest_components", "replace_resource_entry",
                              "delete_path"}])
    @@ ("h2" :> [disposition |-> "retain", strategies |-> {"smali_edit", "overlay_tree"}])
MCStockApk ==
    [dex |-> ("classes" :> ("A" :> ("m" :> <<"a", "b", "b">>)))
             @@ ("classes2" :> ("B" :> ("m" :> <<"c", "d", "c">>))),
     rest |-> (Values :> ("s" :> "old")) @@ (Asset :> "x")
              @@ (AndroidManifest :> ("application" :> ("service" :> "push"))),
     signed |-> TRUE]
Edit(hook, class, mode, pre, pres, payload, final, finals) ==
    [kind |-> "smali_edit", intents |-> {hook}, class |-> class, method |-> "m",
     mode |-> mode, policy |-> "all", occurrence |-> 0, pre |-> pre, pres |-> pres,
     payload |-> payload, final |-> final, finals |-> finals]
Overlay(class) ==
    [kind |-> "overlay_tree", intents |-> {"h2"}, collision |-> "forbid",
     files |-> (ClassN :> [class |-> class, code |-> ("m" :> <<"n">>)])]
MCOperations ==
    {Edit("h1", "A", "insert_before", <<"a">>, 1, <<"p">>, <<"p", "a">>, 1),
     Edit("h2", "A", "insert_before", <<"a">>, 1, <<"q">>, <<"q", "a">>, 1),
     [Edit("h2", "B", "replace", <<"c">>, 2, <<"r">>, <<"r">>, 1)
        EXCEPT !.policy = "occurrence", !.occurrence = 1],
     Edit("h2", "A", "insert_after", <<"b">>, 2, <<"z">>, <<"b", "z">>, 2),
     Edit("h1", "A", "replace", <<"p">>, 1, <<>>, <<"p">>, 0),
     Overlay("N"), Overlay("B"),
     [kind |-> "append_resource_entries", intents |-> {"h1"}, document |-> Values,
      entries |-> ("t" :> "new")],
     [kind |-> "append_manifest_components", intents |-> {"h1"}, document |-> AndroidManifest,
      entries |-> ("activity" :> "settings")],
     [kind |-> "replace_resource_entry", intents |-> {"h1"}, document |-> Values,
      entry |-> "s", before |-> "old", after |-> "new"],
     [kind |-> "delete_path", intents |-> {"h1"}, path |-> Asset, present |-> TRUE]}
Orders == UNION {{s \in [1..n -> MCOperations] : \A i, j \in 1..n : i # j => s[i] # s[j]}
                 : n \in 1..3}
GraftOf(replaced, added) == [kind |-> "stock_dex_graft", stock |-> {"classes", "classes2"},
                             replace |-> replaced, add |-> added]
RebuildOf(entries) == [kind |-> "apktool_full_rebuild", entries |-> entries]
MCBackends ==
    {GraftOf({"classes"}, {}), GraftOf({"classes", "classes2"}, {}),
     GraftOf({"classes"}, {"classes3"}), RebuildOf({"classes", "classes2"}),
     RebuildOf({"classes", "classes2", "classes3"})}
ResolutionOf(operations_, backend) ==
    LET covered == UNION {operations_[i].intents : i \in DOMAIN operations_}
        graft == backend.kind = "stock_dex_graft"
    IN [statuses |-> [h \in {"h1", "h2"} |-> IF h \in covered THEN "implemented" ELSE "omitted"],
        operations |-> operations_, backend |-> backend,
        exclusions |-> IF graft THEN backend.replace \cup backend.add ELSE {},
        exceptSigned |-> graft, absentSigned |-> graft,
        descriptors |-> ("classes" :> [classes |-> {"A"}, exact |-> FALSE]),
        counts |-> {[class |-> "A", method |-> "m", sequence |-> <<"p", "q">>, expected |-> 0]},
        strings |-> ("classes" :> [present |-> {}, absent |-> {"s"}])]
MCResolutions == {ResolutionOf(ops, b) : ops \in Orders, b \in MCBackends}
OneResolution ==
    CHOOSE r \in MCResolutions : Len(r.operations) = 1 /\ r.backend.kind = "apktool_full_rebuild"

\* What PassedCarriesIntents is proved from.
ASSUME FinalsShowPayloads

(* TreeCapture: a root with a file and a directory, empty or with a file.  *)

IsDir  == [kind |-> "directory", bytes |-> 1]
IsText == [kind |-> "file", bytes |-> 1]
Nested == [p \in {<<>>, <<1>>, <<2>>, <<1, 1>>} |-> IF p \in {<<>>, <<1>>} THEN IsDir ELSE IsText]
Flat   == [p \in {<<>>, <<1>>, <<2>>} |-> IF p = <<>> THEN IsDir ELSE IsText]
MCShapes == {Nested, Flat}

Capturable(shape) ==
    [p \in DOMAIN shape |-> [kind |-> shape[p].kind, bytes |-> shape[p].bytes, changed |-> 0]]

MCSourceManifest == ("f" :> 1) @@ ("g" :> 1)

-----------------------------------------------------------------------------
(* A component that does not run keeps one of its initial states.           *)
MCInit ==
    /\ part \in Parts
    /\ IF part = "rulings" THEN TRUE ELSE declared = {} /\ blockers = 1 /\ tidy = TRUE
    /\ IF part = "sites" THEN TRUE ELSE decode = OneApp
    /\ IF part = "tree" THEN TRUE ELSE resolution = OneResolution
    /\ IF part = "capture" THEN TRUE ELSE disk = [source |-> Capturable(Flat), copy |-> <<>>]
    /\ IF part = "admission" THEN TRUE ELSE sourceRoot = MCSourceManifest
    /\ GateInit /\ RulingsInit /\ ReaperInit /\ EvidenceInit /\ HistoryInit /\ MemoryInit
    /\ SitesInit /\ PortRunInit /\ ReceiptsInit /\ PortInit /\ CaptureInit /\ AdmissionInit
    /\ RunbookInit

Others ==
    /\ IF part = "gate"      THEN TRUE ELSE UNCHANGED gateVars
    /\ IF part = "rulings"   THEN TRUE ELSE UNCHANGED rulingVars
    /\ IF part = "reaper"    THEN TRUE ELSE UNCHANGED reaperVars
    /\ IF part = "evidence"  THEN TRUE ELSE UNCHANGED evidenceVars
    /\ IF part = "history"   THEN TRUE ELSE UNCHANGED historyVars
    /\ IF part = "memory"    THEN TRUE ELSE UNCHANGED memoryVars
    /\ IF part = "sites"     THEN TRUE ELSE UNCHANGED siteVars
    /\ IF part = "run"       THEN TRUE ELSE UNCHANGED runVars
    /\ IF part = "receipts"  THEN TRUE ELSE UNCHANGED receiptVars
    /\ IF part = "tree"      THEN TRUE ELSE UNCHANGED portVars
    /\ IF part = "capture"   THEN TRUE ELSE UNCHANGED captureVars
    /\ IF part = "admission" THEN TRUE ELSE UNCHANGED admissionVars
    /\ IF part = "runbook"   THEN TRUE ELSE UNCHANGED runbookVars
    /\ UNCHANGED part

MCNext ==
    \/ part = "gate"      /\ GateNext      /\ Others
    \/ part = "rulings"   /\ RulingsNext   /\ Others
    \/ part = "reaper"    /\ ReaperNext    /\ Others
    \/ part = "evidence"  /\ EvidenceNext  /\ Others
    \/ part = "history"   /\ HistoryNext   /\ Others
    \/ part = "memory"    /\ MemoryNext    /\ Others
    \/ part = "sites"     /\ SitesNext     /\ Others
    \/ part = "run"       /\ PortRunNext   /\ Others
    \/ part = "receipts"  /\ ReceiptsNext  /\ Others
    \/ part = "tree"      /\ PortNext      /\ Others
    \/ part = "capture"   /\ CaptureNext   /\ Others
    \/ part = "admission" /\ AdmissionNext /\ Others
    \/ part = "runbook"   /\ RunbookNext   /\ Others

MCSpec == MCInit /\ [][MCNext]_<<vars, part>>

=============================================================================
