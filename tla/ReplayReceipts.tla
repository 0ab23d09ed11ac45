--------------------------- MODULE ReplayReceipts ---------------------------
(* What a replay is allowed to build on.  A run is admitted from a request, a *)
(* run specification, a toolchain profile and an approval, all of them named  *)
(* by digest; each stage is an operation of the ledger whose key digests what *)
(* the stage consumes, and leaves a receipt naming it again; the next stage   *)
(* finds its predecessor by computing that key anew, and reads the receipt    *)
(* with a validator written a third time.  The grant that lets the last stage *)
(* run is derived from the completed build, approved, recorded, and read back *)
(* with every one of these rows.  A digest is the place of its content among   *)
(* the contents that were ever named.  Who may hold an operation, and what     *)
(* becomes of its workspace, is StageAttempts'.                                *)
EXTENDS Naturals, Sequences

CONSTANTS
    RunNames,       \* run identifiers
    StockApks, Ports, \* the APKs to port, and what is to be done to them
    Profiles,       \* toolchain profiles
    Deciders,       \* who may answer a gate
    Tickets,        \* decision identifiers
    ToolOutputs,    \* what a tool may produce of the same input
    FaithfulOutputs,\* the decodes that the final verifier passes
    MaxPending,     \* bound: claims of one operation
    NoArtifact, Idle

Roles == {"install_framework", "decode", "build"}

ASSUME ReceiptsAssumption ==
    /\ FaithfulOutputs \subseteq ToolOutputs
    /\ MaxPending \in Nat \ {0}
    /\ Profiles \subseteq [name : STRING, frameworks : SUBSET (1..255),
                           bound : SUBSET Roles, planned : SUBSET Roles,
                           framed : SUBSET Roles, timeout : [Roles -> 1..3600]]

VARIABLES
    decisions,  \* gate decisions on record
    admitted,   \* admissions on record
    grants,     \* verification grants on record
    operations, \* operation key -> its row and its events
    named,      \* the admissions and receipts that have a digest
    working     \* run -> the stage it is executing and its key

receiptVars == <<decisions, admitted, grants, operations, named, working>>

(* Contents are named by digest: the same content has the same digest. *)
Named(content) == \E i \in DOMAIN named : named[i] = content
Digest(content) == CHOOSE i \in DOMAIN named : named[i] = content
Put(content) == IF Named(content) THEN named ELSE Append(named, content)
PutDigest(content) == IF Named(content) THEN Digest(content) ELSE Len(named) + 1

(* ---------------------------- What a run asks for -------------------------- *)

(* A profile binds, plans and has a tool for each role it needs: the framework *)
(* installer exactly when it pins frameworks, and then every plan passes the   *)
(* directory the pinned cache is put in.                                       *)
NeededRoles(p) ==
    {role \in Roles : role = "install_framework" => p.frameworks /= {}}

ProfileHolds(p) ==
    /\ p.bound = NeededRoles(p)
    /\ p.planned = p.bound
    /\ p.framed \subseteq p.planned
    /\ p.frameworks /= {} => p.framed = p.planned

Envelopes == [stock : StockApks, port : Ports, profile : Profiles]

(* A run specification names the content it is for, and the envelope it was    *)
(* gated on.                                                                   *)
RunSpecs == [run : RunNames, actor : Deciders, names : Envelopes, prepared : Envelopes]

Requests == [spec : RunSpecs, prepared : Envelopes]

Decision(ticket, run, gate, subject, actor, answer) ==
    [id |-> ticket, run |-> run, gate |-> gate, subject |-> subject,
     actor |-> actor, answer |-> answer]

Gated(run, gate) == <<run, gate>>

DecidesSpec(d, spec) ==
    /\ d.answer = "approve"
    /\ d.actor = spec.actor
    /\ d.run = spec.run
    /\ d.gate = Gated(spec.run, "start")
    /\ d.subject = spec

(* The request restates the envelope the run specification was gated on. *)
MatchesEnvelope(spec, request) == request.prepared = spec.prepared

MatchesContent(spec, request) == request.prepared = spec.names

Relates(spec, request) ==
    /\ request.spec = spec
    /\ ProfileHolds(request.prepared.profile)
    /\ MatchesContent(spec, request)
    /\ MatchesEnvelope(spec, request)

Admission(request, d) == [request |-> request, decision |-> d]

SpecOf(a) == named[a].request.spec
ProfileOf(a) == named[a].request.prepared.profile
StockOf(a) == named[a].request.prepared.stock
PortOf(a) == named[a].request.prepared.port
HasFrameworks(a) == ProfileOf(a).frameworks /= {}

(* The plan, the executor capability and the tool a role runs with. *)
Binding(a, role) == [profile |-> ProfileOf(a).name, role |-> role]

(* ------------------------------ The ledger rows ---------------------------- *)

Key(kind, input) == [kind |-> kind, input |-> input]

(* A receipt is stored with its kind and its producer. *)
Artifact(kind, key, receipt) == [kind |-> kind, producer |-> key, receipt |-> receipt]

Stored(output) == named[output]
Receipt(output) == named[output].receipt

ManifestOf(key, inputs, out) == [producer |-> key, inputs |-> inputs, content |-> out]

RecordedDecision(d) == d \in decisions

(* A row of the same identifier must be the same decision. *)
MayRecordDecision(d) == \A e \in decisions : e.id = d.id => e = d

(* One admission for a run, a specification, a request and a decision. *)
MayRecordAdmission(a) ==
    /\ RecordedDecision(a.decision)
    /\ \A i \in admitted :
         LET b == named[i]
         IN (\/ b.request.spec.run = a.request.spec.run
             \/ b.request = a.request
             \/ b.decision.id = a.decision.id) => b = a

AdmittedRow(a) == a \in admitted /\ RecordedDecision(named[a].decision)

AdmissionOf(r) == CHOOSE a \in admitted : SpecOf(a).run = r
IsAdmitted(r) == \E a \in admitted : SpecOf(a).run = r /\ AdmittedRow(a)

CompletedOutput(key) ==
    IF key \in DOMAIN operations /\ operations[key].status = "completed"
    THEN operations[key].output ELSE NoArtifact

(* ------------------- Identities, receipts and validators ------------------- *)

(* A receipt is sealed when what it names was produced by its own operation   *)
(* out of the very inputs it states.                                          *)
Sealed(receipt, manifests) ==
    \A m \in manifests : m.producer = receipt.key /\ m.inputs = receipt.inputs

FrameworkInputs(a) ==
    [admitted |-> a, binding |-> Binding(a, "install_framework"),
     installations |-> ProfileOf(a).frameworks]

FrameworkIdentity(a) == Key("replay_install_frameworks_v1", FrameworkInputs(a))

FrameworkReceipt(a, key, out) ==
    [inputs |-> FrameworkInputs(a), manifest |-> ManifestOf(key, FrameworkInputs(a), out),
     key |-> key]

FrameworkReceiptHolds(output, key, a) ==
    /\ Stored(output).kind = "replay-framework-cache-receipt-v1"
    /\ Stored(output).producer = key
    /\ Receipt(output).key = key
    /\ Receipt(output).inputs.admitted = a
    /\ Receipt(output).inputs.binding = Binding(a, "install_framework")
    /\ Receipt(output).inputs.installations = ProfileOf(a).frameworks
    /\ Sealed(Receipt(output), {Receipt(output).manifest})

(* The decode names the framework cache it was given, when there is one. *)
DecodeIdentity(a, framework) ==
    IF HasFrameworks(a)
    THEN Key("replay_decode_tree_v2",
             [admitted |-> a, apk |-> StockOf(a), binding |-> Binding(a, "decode"),
              framework |-> framework])
    ELSE Key("replay_decode_tree_v1",
             [admitted |-> a, apk |-> StockOf(a), binding |-> Binding(a, "decode")])

DecodedTreeReceiptV1(a, key, out) ==
    LET inputs == [admitted |-> a, apk |-> StockOf(a), binding |-> Binding(a, "decode")]
    IN [inputs |-> inputs, manifest |-> ManifestOf(key, inputs, out), key |-> key]

DecodedTreeReceiptV2(a, key, framework, out) ==
    LET inputs == [admitted |-> a, apk |-> StockOf(a), binding |-> Binding(a, "decode"),
                   framework |-> framework, cache |-> Receipt(framework).manifest]
    IN [inputs |-> inputs, manifest |-> ManifestOf(key, inputs, out), key |-> key]

DecodedTreeReceiptHolds(output, key, a) ==
    /\ Stored(output).kind = "replay-decoded-tree-receipt-v1"
    /\ Stored(output).producer = key
    /\ Receipt(output).key = key
    /\ Receipt(output).inputs.admitted = a
    /\ Receipt(output).inputs.apk = StockOf(a)
    /\ Receipt(output).inputs.binding = Binding(a, "decode")
    /\ Sealed(Receipt(output), {Receipt(output).manifest})

DecodedTreeReceiptV2Holds(output, key, a, framework) ==
    /\ Stored(output).kind = "replay-decoded-tree-receipt-v2"
    /\ FrameworkReceiptHolds(framework, FrameworkIdentity(a), a)
    /\ Stored(output).producer = key
    /\ Receipt(output).key = key
    /\ Receipt(output).inputs.admitted = a
    /\ Receipt(output).inputs.apk = StockOf(a)
    /\ Receipt(output).inputs.binding = Binding(a, "decode")
    /\ Receipt(output).inputs.framework = framework
    /\ Receipt(output).inputs.cache = Receipt(framework).manifest
    /\ Sealed(Receipt(output), {Receipt(output).manifest})

DecodeReceiptHolds(output, key, a, framework) ==
    IF HasFrameworks(a)
    THEN DecodedTreeReceiptV2Holds(output, key, a, framework)
    ELSE DecodedTreeReceiptHolds(output, key, a)

ApplyInputs(a, decode) ==
    [admitted |-> a, decode |-> decode, tree |-> Receipt(decode).manifest,
     port |-> PortOf(a)]

ApplyIdentity(a, decode) == Key("replay_apply_tree_v1", ApplyInputs(a, decode))

PatchedTreeReceipt(a, key, decode, out) ==
    [inputs |-> ApplyInputs(a, decode), key |-> key,
     manifest |-> ManifestOf(key, ApplyInputs(a, decode), out)]

PatchedTreeReceiptHolds(output, key, a, decode) ==
    /\ Stored(output).kind = "replay-patched-tree-receipt-v1"
    /\ Stored(output).producer = key
    /\ Receipt(output).key = key
    /\ Receipt(output).inputs = ApplyInputs(a, decode)
    /\ Sealed(Receipt(output), {Receipt(output).manifest})

BuildInputs(a, apply, framework) ==
    [admitted |-> a, apply |-> apply, tree |-> Receipt(apply).manifest,
     port |-> PortOf(a), stock |-> StockOf(a), binding |-> Binding(a, "build"),
     framework |-> framework]

BuildIdentity(a, apply, framework) ==
    Key("replay_build_patched_apk_v1", BuildInputs(a, apply, framework))

(* The receipt of a build names two APKs, and is able to restate the key of   *)
(* the operation that made it: the ledger asks it to before it is granted.    *)
PatchedApkReceipt(a, key, apply, framework, out) ==
    LET inputs == BuildInputs(a, apply, framework)
        intermediate == ManifestOf(key, inputs, out)
    IN [inputs |-> inputs, intermediate |-> intermediate, key |-> key,
        apk |-> ManifestOf(key, [built |-> inputs, from |-> intermediate], out)]

ExpectedKey(receipt) == Key("replay_build_patched_apk_v1", receipt.inputs)

PatchedApkReceiptHolds(output, key, a, apply, framework) ==
    /\ Stored(output).kind = "replay-patched-apk-receipt-v1"
    /\ Stored(output).producer = key
    /\ Receipt(output).key = key
    /\ Receipt(output).inputs = BuildInputs(a, apply, framework)
    /\ Sealed(Receipt(output), {Receipt(output).intermediate})
    /\ Receipt(output).apk.producer = key
    /\ Receipt(output).apk.inputs = [built |-> Receipt(output).inputs,
                                    from |-> Receipt(output).intermediate]

(* ------------------------------ The predecessors --------------------------- *)

(* Every stage finds what it builds on by computing the keys again from the    *)
(* admission, one after the other, and reading each receipt: NoArtifact when   *)
(* an operation is not completed, and the stage refuses then.                  *)
CompletedFramework(a) ==
    IF HasFrameworks(a) THEN CompletedOutput(FrameworkIdentity(a)) ELSE NoArtifact

FrameworkSettled(a) ==
    HasFrameworks(a) =>
        /\ CompletedFramework(a) /= NoArtifact
        /\ FrameworkReceiptHolds(CompletedFramework(a), FrameworkIdentity(a), a)

CompletedDecode(a) == CompletedOutput(DecodeIdentity(a, CompletedFramework(a)))

DecodeSettled(a) ==
    /\ FrameworkSettled(a)
    /\ CompletedDecode(a) /= NoArtifact
    /\ DecodeReceiptHolds(CompletedDecode(a), DecodeIdentity(a, CompletedFramework(a)),
                          a, CompletedFramework(a))

CompletedApply(a) == CompletedOutput(ApplyIdentity(a, CompletedDecode(a)))

BuildPredecessors(a) ==
    /\ DecodeSettled(a)
    /\ CompletedApply(a) /= NoArtifact
    /\ PatchedTreeReceiptHolds(CompletedApply(a), ApplyIdentity(a, CompletedDecode(a)),
                               a, CompletedDecode(a))

BuildKey(a) == BuildIdentity(a, CompletedApply(a), CompletedFramework(a))
CompletedBuild(a) == CompletedOutput(BuildKey(a))

ResolveReplayBuild(a) ==
    /\ BuildPredecessors(a)
    /\ CompletedBuild(a) /= NoArtifact
    /\ PatchedApkReceiptHolds(CompletedBuild(a), BuildKey(a), a, CompletedApply(a),
                              CompletedFramework(a))

(* ---------------------------- The gate and the grant ----------------------- *)

FinalDecode(a) == [run |-> SpecOf(a).run, executable |-> Binding(a, "decode")]

VerificationRequest(a) ==
    [run |-> SpecOf(a).run, gate |-> Gated(SpecOf(a).run, "final-verification"),
     actor |-> SpecOf(a).actor, admitted |-> a, build |-> CompletedBuild(a),
     apk |-> Receipt(CompletedBuild(a)).apk, tool |-> Binding(a, "decode"),
     capability |-> FinalDecode(a), timeout |-> ProfileOf(a).timeout["decode"]]

Grant(request, d, a, build) ==
    [request |-> request, decision |-> d, admitted |-> a, receipt |-> Receipt(build)]

GrantCoheres(g) ==
    /\ g.request.admitted = g.admitted
    /\ g.request.run = SpecOf(g.admitted).run
    /\ g.request.actor = SpecOf(g.admitted).actor
    /\ g.receipt.inputs.admitted = g.admitted
    /\ Receipt(g.request.build) = g.receipt
    /\ Stored(g.request.build).producer = g.receipt.key
    /\ g.request.apk = g.receipt.apk
    /\ g.request.tool = Binding(g.admitted, "decode")
    /\ g.decision.answer = "approve"
    /\ g.decision.run = g.request.run
    /\ g.decision.gate = g.request.gate
    /\ g.decision.actor = g.request.actor
    /\ g.decision.subject = g.request

(* Mutant: the first claim must have been the last. *)
BuildClaimIsFirst(g) ==
    LET key == Stored(g.request.build).producer
    IN /\ key \in DOMAIN operations
       /\ operations[key].output = g.request.build
       /\ operations[key].events = <<"pending", "effect", "completed">>

(* The build a grant names is the one the ledger completed, and its history is *)
(* one of claims, one effect and one completion.  An operation may have been   *)
(* claimed more than once: a cancelled attempt hands its claim back.           *)
BuildClaimHolds(g) ==
    LET key == Stored(g.request.build).producer
    IN /\ g.receipt.key = ExpectedKey(g.receipt)
       /\ key = ExpectedKey(g.receipt)
       /\ key \in DOMAIN operations
       /\ operations[key].status = "completed"
       /\ operations[key].output = g.request.build
       /\ LET events == operations[key].events
              n == Len(events)
          IN /\ n >= 3
             /\ \A i \in 1..(n - 2) : events[i] = "pending"
             /\ events[n - 1] = "effect"
             /\ events[n] = "completed"

(* One grant for a run's grant identifier, a request, a decision, an admission *)
(* and a build.                                                                *)
MayRecordGrant(g) ==
    /\ GrantCoheres(g)
    /\ RecordedDecision(g.decision)
    /\ AdmittedRow(g.admitted)
    /\ BuildClaimHolds(g)
    /\ \A h \in grants :
         (\/ h.request.run = g.request.run
          \/ h.decision.id = g.decision.id
          \/ h.admitted = g.admitted
          \/ Stored(h.request.build).producer = Stored(g.request.build).producer) => h = g

GrantFor(r) == CHOOSE g \in grants : g.request.run = r

(* Reading a grant reads again every row it rests on. *)
GrantLoads(g) ==
    /\ g \in grants
    /\ RecordedDecision(g.decision)
    /\ AdmittedRow(g.admitted)
    /\ BuildClaimHolds(g)

VerificationPredecessors(g) ==
    /\ AdmittedRow(g.admitted)
    /\ ResolveReplayBuild(g.admitted)
    /\ CompletedBuild(g.admitted) = g.request.build
    /\ Receipt(CompletedBuild(g.admitted)).apk = g.request.apk

VerifyInputs(g) ==
    [grant |-> g, admitted |-> g.admitted, build |-> g.request.build,
     apk |-> g.request.apk, port |-> PortOf(g.admitted), stock |-> StockOf(g.admitted),
     capability |-> g.request.capability, tool |-> g.request.tool,
     framework |-> CompletedFramework(g.admitted)]

VerifyIdentity(g) == Key("replay_verify_final_apk_v1", VerifyInputs(g))

FinalApkReceipt(g, key, out) ==
    [inputs |-> VerifyInputs(g), key |-> key,
     final |-> ManifestOf(key, VerifyInputs(g), out),
     source |-> ManifestOf(key, VerifyInputs(g), PortOf(g.admitted))]

(* The verifier is run again on what the receipt names. *)
FinalApkReceiptHolds(output, key, g) ==
    /\ Stored(output).kind = "replay-final-apk-verification-receipt-v1"
    /\ Stored(output).producer = key
    /\ Receipt(output).key = key
    /\ Receipt(output).inputs = VerifyInputs(g)
    /\ Key("replay_verify_final_apk_v1", Receipt(output).inputs) = key
    /\ Sealed(Receipt(output), {Receipt(output).final, Receipt(output).source})
    /\ Receipt(output).final.content \in FaithfulOutputs

(* --------------------------------- Operations ------------------------------ *)

ReceiptsInit ==
    /\ decisions = {}
    /\ admitted = {}
    /\ grants = {}
    /\ operations = <<>>
    /\ named = <<>>
    /\ working = [r \in RunNames |-> Idle]

(* The gate of a run: whoever answers it, the answer goes on record. *)
RecordDecision(d) ==
    /\ MayRecordDecision(d)
    /\ decisions' = decisions \cup {d}

AnswerStart ==
    /\ \E spec \in RunSpecs, ticket \in Tickets, who \in Deciders,
          answer \in {"approve", "reject"} :
         RecordDecision(Decision(ticket, spec.run, Gated(spec.run, "start"), spec, who, answer))
    /\ UNCHANGED <<admitted, grants, operations, named, working>>

AdmitReplay(request, d) ==
    /\ Relates(request.spec, request)
    /\ DecidesSpec(d, request.spec)
    /\ RecordedDecision(d)
    /\ MayRecordAdmission(Admission(request, d))
    /\ named' = Put(Admission(request, d))
    /\ admitted' = admitted \cup {PutDigest(Admission(request, d))}
    /\ UNCHANGED <<decisions, grants, operations, working>>

(* A key is begun: claimed if it is new or was handed back. *)
ClaimStage(r, stage, key) ==
    /\ working[r] = Idle
    /\ working' = [working EXCEPT ![r] = [stage |-> stage, key |-> key]]
    /\ \/ /\ key \notin DOMAIN operations
          /\ operations' = [k \in DOMAIN operations \cup {key} |->
                IF k = key THEN [status |-> "pending", held |-> TRUE,
                                 output |-> NoArtifact, events |-> <<"pending">>]
                ELSE operations[k]]
       \/ /\ key \in DOMAIN operations
          /\ operations[key].status = "pending"
          /\ ~operations[key].held
          /\ Len(operations[key].events) < MaxPending
          /\ operations' = [operations EXCEPT ![key].held = TRUE,
                                              ![key].events = Append(@, "pending")]
    /\ UNCHANGED <<decisions, admitted, grants, named>>

(* A key that already has its effect is adopted once its receipt is read. *)
Adopt(r, key, holds) ==
    /\ working[r] = Idle
    /\ key \in DOMAIN operations
    /\ operations[key].status = "effect"
    /\ holds
    /\ operations' = [operations EXCEPT ![key].status = "completed",
                                        ![key].events = Append(@, "completed")]
    /\ UNCHANGED <<decisions, admitted, grants, named, working>>

Beginning(r, stage, key, holds) == ClaimStage(r, stage, key) \/ Adopt(r, key, holds)

InstallFrameworks(r) ==
    /\ HasFrameworks(AdmissionOf(r))
    /\ LET a == AdmissionOf(r)
           key == FrameworkIdentity(a)
       IN Beginning(r, "install_framework", key,
                    FrameworkReceiptHolds(operations[key].output, key, a))

Decode(r) ==
    /\ FrameworkSettled(AdmissionOf(r))
    /\ LET a == AdmissionOf(r)
           framework == CompletedFramework(a)
           key == DecodeIdentity(a, framework)
       IN Beginning(r, "decode", key,
                    DecodeReceiptHolds(operations[key].output, key, a, framework))

ApplyTree(r) ==
    /\ DecodeSettled(AdmissionOf(r))
    /\ LET a == AdmissionOf(r)
           key == ApplyIdentity(a, CompletedDecode(a))
       IN Beginning(r, "apply", key,
                    PatchedTreeReceiptHolds(operations[key].output, key, a, CompletedDecode(a)))

BuildPatchedApk(r) ==
    /\ BuildPredecessors(AdmissionOf(r))
    /\ LET a == AdmissionOf(r)
       IN Beginning(r, "build", BuildKey(a),
                    PatchedApkReceiptHolds(operations[BuildKey(a)].output, BuildKey(a), a,
                                        CompletedApply(a), CompletedFramework(a)))

VerifyFinalApk(r) ==
    /\ \E g \in grants : g.request.run = r
    /\ GrantLoads(GrantFor(r))
    /\ VerificationPredecessors(GrantFor(r))
    /\ LET g == GrantFor(r)
           key == VerifyIdentity(g)
       IN Beginning(r, "verify", key,
                    FinalApkReceiptHolds(operations[key].output, key, g))

(* The tool ran: its output is captured, the receipt stored and read back, and *)
(* the effect recorded.                                                        *)
Record(r, stage, kind, receipt) ==
    /\ working[r] /= Idle
    /\ working[r].stage = stage
    /\ operations[working[r].key].status = "pending"
    /\ LET artifact == Artifact(kind, working[r].key, receipt)
       IN /\ named' = Put(artifact)
          /\ operations' = [operations EXCEPT
                ![working[r].key].status = "effect",
                ![working[r].key].output = PutDigest(artifact),
                ![working[r].key].events = Append(@, "effect")]
    /\ UNCHANGED <<decisions, admitted, grants, working>>

FrameworksInstalled(r, out) ==
    Record(r, "install_framework", "replay-framework-cache-receipt-v1",
           FrameworkReceipt(AdmissionOf(r), working[r].key, out))

Decoded(r, out) ==
    LET a == AdmissionOf(r)
    IN \/ /\ ~HasFrameworks(a)
          /\ Record(r, "decode", "replay-decoded-tree-receipt-v1",
                    DecodedTreeReceiptV1(a, working[r].key, out))
       \/ /\ HasFrameworks(a)
          /\ Record(r, "decode", "replay-decoded-tree-receipt-v2",
                    DecodedTreeReceiptV2(a, working[r].key, CompletedFramework(a), out))

Applied(r, out) ==
    Record(r, "apply", "replay-patched-tree-receipt-v1",
           PatchedTreeReceipt(AdmissionOf(r), working[r].key,
                              CompletedDecode(AdmissionOf(r)), out))

(* Without a framework cache the builder must have been given a directory for  *)
(* the framework it unpacks itself.                                            *)
Built(r, out) ==
    LET a == AdmissionOf(r)
    IN /\ HasFrameworks(a) \/ "build" \in ProfileOf(a).framed
       /\ Record(r, "build", "replay-patched-apk-receipt-v1",
                 PatchedApkReceipt(a, working[r].key, CompletedApply(a),
                                   CompletedFramework(a), out))

Verified(r, out) ==
    /\ out \in FaithfulOutputs
    /\ Record(r, "verify", "replay-final-apk-verification-receipt-v1",
              FinalApkReceipt(GrantFor(r), working[r].key, out))

CompleteStage(r) ==
    /\ working[r] /= Idle
    /\ operations[working[r].key].status = "effect"
    /\ operations' = [operations EXCEPT ![working[r].key].status = "completed",
                                        ![working[r].key].events = Append(@, "completed")]
    /\ working' = [working EXCEPT ![r] = Idle]
    /\ UNCHANGED <<decisions, admitted, grants, named>>

(* The attempt ends early.  Cancelled cleanly it hands its claim back; killed, *)
(* it leaves the claim to be released by the operator; anything else with a    *)
(* workspace behind it quarantines the operation.                              *)
HandBack(r) ==
    /\ working[r] /= Idle
    /\ operations[working[r].key].status = "pending"
    /\ operations' = [operations EXCEPT ![working[r].key].held = FALSE]
    /\ working' = [working EXCEPT ![r] = Idle]
    /\ UNCHANGED <<decisions, admitted, grants, named>>

Die(r) ==
    /\ working[r] /= Idle
    /\ working' = [working EXCEPT ![r] = Idle]
    /\ UNCHANGED <<decisions, admitted, grants, operations, named>>

Release(key) ==
    /\ key \in DOMAIN operations
    /\ operations[key].status = "pending"
    /\ operations[key].held
    /\ \A r \in RunNames : working[r] /= Idle => working[r].key /= key
    /\ operations' = [operations EXCEPT ![key].held = FALSE]
    /\ UNCHANGED <<decisions, admitted, grants, named, working>>

QuarantineStage(r) ==
    /\ working[r] /= Idle
    /\ operations[working[r].key].status = "pending"
    /\ operations' = [operations EXCEPT ![working[r].key].status = "quarantined",
                                        ![working[r].key].events = Append(@, "quarantined")]
    /\ working' = [working EXCEPT ![r] = Idle]
    /\ UNCHANGED <<decisions, admitted, grants, named>>

(* The second gate: the answer to the request derived from the completed build *)
(* is recorded, and the grant after it; a crash may come between the two.      *)
FinalAnswer(r, ticket, who, answer) ==
    LET request == VerificationRequest(AdmissionOf(r))
    IN Decision(ticket, r, request.gate, request, who, answer)

AnswerFinalGate(r, d) ==
    /\ d.subject = VerificationRequest(AdmissionOf(r))
    /\ RecordDecision(d)
    /\ UNCHANGED <<admitted, grants, operations, named, working>>

AdmitGrant(r, d) ==
    LET a == AdmissionOf(r)
        g == Grant(VerificationRequest(a), d, a, CompletedBuild(a))
    IN /\ d.subject = VerificationRequest(a)
       /\ RecordedDecision(d)
       /\ MayRecordGrant(g)
       /\ grants' = grants \cup {g}
       /\ UNCHANGED <<decisions, admitted, operations, named, working>>

ReceiptsNext ==
    \/ AnswerStart
    \/ \E request \in Requests, d \in decisions : AdmitReplay(request, d)
    \/ \E r \in {x \in RunNames : IsAdmitted(x)} :
         \/ InstallFrameworks(r) \/ Decode(r) \/ ApplyTree(r)
         \/ BuildPatchedApk(r) \/ VerifyFinalApk(r)
         \/ CompleteStage(r) \/ HandBack(r) \/ Die(r) \/ QuarantineStage(r)
         \/ \E out \in ToolOutputs :
              \/ FrameworksInstalled(r, out) \/ Decoded(r, out) \/ Applied(r, out)
              \/ Built(r, out) \/ Verified(r, out)
         \/ /\ ResolveReplayBuild(AdmissionOf(r))
            /\ \/ \E ticket \in Tickets, who \in Deciders, answer \in {"approve", "reject"} :
                    AnswerFinalGate(r, FinalAnswer(r, ticket, who, answer))
               \/ \E d \in decisions : AdmitGrant(r, d)
    \/ \E key \in DOMAIN operations : Release(key)

ReceiptsSpec == ReceiptsInit /\ [][ReceiptsNext]_receiptVars

(* --------------------------------- Properties ------------------------------ *)

(* Consent is honoured: an approval on record of the verification a run's      *)
(* completed build asks for can be made the run's grant, unless the run has    *)
(* one already, however many attempts that build took; and a grant on record   *)
(* loads, and finds the build it was given for, for as long as it stands.      *)
ConsentIsHonoured ==
    /\ \A a \in admitted, d \in decisions :
         (/\ ResolveReplayBuild(a)
          /\ d.subject = VerificationRequest(a)
          /\ d.answer = "approve" /\ d.actor = SpecOf(a).actor
          /\ \A g \in grants : g.request.run /= SpecOf(a).run)
         => MayRecordGrant(Grant(VerificationRequest(a), d, a, CompletedBuild(a)))
    /\ \A g \in grants : GrantLoads(g) /\ VerificationPredecessors(g)

=============================================================================
