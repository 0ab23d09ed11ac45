------------------------------ MODULE PortEvidence ------------------------------
(***************************************************************************)
(* What a port must show for a hook before the hook counts as release-ready:  *)
(* claims about one version, appended to that version's evidence files by the *)
(* static verifier (driver.py), by device captures (probes.py,                *)
(* record_runtime.py) and by the comparison with an earlier version           *)
(* (differential.py), and read back by the ledger and the report              *)
(* (evidence.py, final_report.py).                                            *)
(*                                                                         *)
(* A file is a function from hooks to the sequence of their claims: claims of *)
(* different hooks never meet in the ledger.  What a phone shows is free.     *)
(***************************************************************************)
EXTENDS Integers, Sequences

CONSTANTS
    PortHooks,     \* the active hooks of the manifest
    SharesSignal,  \* those whose probe reads a signal another active hook's probe reads
    TwoWay,        \* those with requires_two_directional_delta
    StartupHook,   \* set_app_context, or no hook
    PortVersions,  \* version numbers
    Baseline,      \* BASELINE_VERSION
    MaxCount,      \* bound: how often a signal is counted
    MaxRows,       \* bound: recordings, halves among them, over all versions
    NoCount

ASSUME EvidenceAssumption ==
    /\ PortVersions \subseteq Nat /\ Baseline \in Nat
    /\ SharesSignal \subseteq PortHooks /\ TwoWay \subseteq PortHooks
    /\ MaxCount \in Nat /\ MaxRows \in Nat /\ NoCount \notin Nat

\* The verdicts a claim about a build or a phone can come to: nothing in the code
\* writes "blocked", and "not_exercised" of these kinds is the absence of a claim.
EvidenceVerdict == {"passed", "failed", "inconclusive", "waived"}
Satisfying       == {"passed", "waived"}
MeasuredNegative == {"failed", "inconclusive"}
ProbeShape      == <<"identity", "delta", "absence">>  \* SHAPE_PREFERENCE
Toggle          == {"enabled", "disabled"}

\* A claim: how it ended, and for a device claim the shape of its probe, whether
\* its capture was able to see the signal, and whether the observation is shared.
\* A waiver has no probe behind it, and so no shape.
EvidenceClaim ==
    {c \in [verdict : EvidenceVerdict, shape : {"none", "identity", "delta", "absence"},
            live : BOOLEAN, shared : BOOLEAN] : c.verdict = "waived" => c.shape = "none"}

Pairs == {p \in PortVersions \X PortVersions : p[1] < p[2]}

VARIABLES
    staticClaims,   \* manifest/static_evidence
    runtimeClaims,  \* manifest/runtime_evidence
    diffClaims,     \* manifest/differentials
    waivedAhead,    \* hooks whose comparison is waived in the version's own file
    evidenceFiles,  \* which of the first two exist, by kind and version
    halves,         \* the delta store: counts by hook and toggle
    recorder,       \* the recording process: the hook whose pairing is due
    portRows        \* number of recordings so far

evidenceVars == <<staticClaims, runtimeClaims, diffClaims, waivedAhead, evidenceFiles,
                  halves, recorder, portRows>>

Unpaired == [t \in Toggle |-> NoCount]
NoPairing == [pc |-> "idle"]

EvidenceInit ==
    /\ staticClaims  = [v \in PortVersions |-> [h \in PortHooks |-> <<>>]]
    /\ runtimeClaims = [v \in PortVersions |-> [h \in PortHooks |-> <<>>]]
    /\ diffClaims    = [p \in Pairs |-> [h \in PortHooks |-> <<>>]]
    /\ waivedAhead   = [v \in PortVersions |-> {}]
    /\ evidenceFiles = {} /\ portRows = 0 /\ recorder = NoPairing
    /\ halves = [h \in PortHooks |-> Unpaired]

-----------------------------------------------------------------------------
(* Claims.                                                                  *)

StaticClaim(passed) ==
    [verdict |-> IF passed THEN "passed" ELSE "failed", shape |-> "none",
     live |-> TRUE, shared |-> FALSE]

\* waiver: a person's decision to go on without an item; it is of no shape of probe.
Waiver == [verdict |-> "waived", shape |-> "none", live |-> FALSE, shared |-> FALSE]

\* IdentityProbe.claims: silence is not a failure, and any announcement shows
\* that the capture was able to hear one.
IdentityClaim(h, ran) ==
    [verdict |-> IF h \in ran THEN "passed" ELSE "inconclusive", shape |-> "identity",
     live |-> ran # {}, shared |-> FALSE]

\* StartupProbe.claim
StartupClaim(control, running, hit) ==
    [verdict |-> CASE ~control -> "inconclusive"
                   [] control /\ (~running \/ hit) -> "failed"
                   [] OTHER -> "passed",
     shape |-> "absence", live |-> control, shared |-> FALSE]

\* probe_claim; a probe that is not two-directional ignores the disabled half.
ProbeVerdict(h, on, off) ==
    IF h \in TwoWay
    THEN CASE on = off -> "inconclusive"
           [] on < off -> "failed"
           [] OTHER    -> "passed"
    ELSE IF on > 0 THEN "passed" ELSE "failed"

\* delta_claim, with attribute: a pass that fits another hook as well is none.
DeltaClaim(h, on, off) ==
    LET verdict == ProbeVerdict(h, on, off)
        seen    == on + (IF h \in TwoWay THEN off ELSE 0)
    IN  [verdict |-> IF h \in SharesSignal /\ verdict = "passed" THEN "inconclusive"
                     ELSE verdict,
         shape |-> "delta", live |-> seen > 0, shared |-> h \in SharesSignal]

\* shaped_claims: the latest claim of each shape.
OfShape(claims, s)     == {i \in DOMAIN claims : claims[i].shape = s}
LatestOfShape(claims, s) ==
    claims[CHOOSE i \in OfShape(claims, s) : \A j \in OfShape(claims, s) : j <= i]

\* The shapes both sides have a claim of, by their place in the preference, and the
\* one that comes first.
SharedShapes(before, after) ==
    {i \in DOMAIN ProbeShape : /\ OfShape(before, ProbeShape[i]) # {}
                              /\ OfShape(after, ProbeShape[i]) # {}}
Preferred(shapes) == ProbeShape[CHOOSE i \in shapes : \A j \in shapes : i <= j]

Comparison(verdict, live) ==
    [verdict |-> verdict, shape |-> "none", live |-> live, shared |-> FALSE]

\* Mutant: the baseline need not have passed.
CompareAnyBaseline(before, after) ==
    LET shapes == SharedShapes(before, after)
        now    == LatestOfShape(after, Preferred(shapes))
    IN  IF shapes = {} THEN Comparison("inconclusive", FALSE)
        ELSE CASE now.verdict = "passed" -> Comparison("passed", now.live)
               [] now.verdict = "failed" -> Comparison("failed", now.live)
               [] OTHER -> Comparison("inconclusive", now.live)

\* differential.compare; live is current_instrument_worked.
CompareProbes(before, after) ==
    LET shapes == SharedShapes(before, after)
        base   == LatestOfShape(before, Preferred(shapes))
        now    == LatestOfShape(after, Preferred(shapes))
    IN  IF shapes = {} THEN Comparison("inconclusive", FALSE)
        ELSE CASE base.verdict # "passed"  -> Comparison("inconclusive", now.live)
               [] base.verdict = "passed" /\ now.verdict \in {"passed", "failed"} ->
                    Comparison(now.verdict, now.live)
               [] base.verdict = "passed" /\ now.verdict = "inconclusive" ->
                    Comparison(IF now.shared \/ ~now.live THEN "inconclusive" ELSE "failed",
                               now.live)

-----------------------------------------------------------------------------
(* Readiness.                                                               *)

\* One required kind: something was claimed, the latest claim satisfies, and it
\* did not get there over a claim that measured and was not satisfied.
KindSatisfied(history) ==
    /\ history # <<>>
    /\ history[Len(history)].verdict \in Satisfying
    /\ \A i \in 1..(Len(history) - 1) : history[i].verdict \notin MeasuredNegative

\* versions_with_evidence
Series == {v \in PortVersions : v >= Baseline /\ \E kind \in {"static", "runtime"} :
                                                   <<kind, v>> \in evidenceFiles}

Earlier(v) == {u \in Series : u < v}

\* _predecessor
Predecessor(v) == CHOOSE u \in Earlier(v) : \A w \in Earlier(v) : w <= u

\* evidence_files: the pair's differential file is read when it is there, after the
\* version's own files, in which a first port has its comparison waived.
DiffHistory(v, h) ==
    (IF h \in waivedAhead[v] THEN <<Waiver>> ELSE <<>>)
    \o (IF Earlier(v) = {} THEN <<>> ELSE diffClaims[<<Predecessor(v), v>>][h])

\* port_report refuses a version without its files.
Assessable(v) == {<<"static", v>>, <<"runtime", v>>} \subseteq evidenceFiles

\* The hooks a report knows of, and those it calls ready.
HooksReported(v) == {h \in PortHooks : staticClaims[v][h] # <<>> \/ runtimeClaims[v][h] # <<>>
                                  \/ DiffHistory(v, h) # <<>>}
ReadyHooks(v) == {h \in HooksReported(v) : /\ KindSatisfied(staticClaims[v][h])
                                      /\ KindSatisfied(runtimeClaims[v][h])
                                      /\ KindSatisfied(DiffHistory(v, h))}

-----------------------------------------------------------------------------
(* Recording.                                                               *)

Row == portRows < MaxRows /\ portRows' = portRows + 1

\* append: one line per claim, a crash leaves those before it.
Appended(file, claims) ==
    [h \in PortHooks |-> IF h \in DOMAIN claims THEN Append(file[h], claims[h]) ELSE file[h]]

\* Stage 7 of a port: the built APK is verified hook by hook.
VerifyBuild(v, passing, written) ==
    /\ Row
    /\ staticClaims' = [staticClaims EXCEPT ![v] =
                          Appended(@, [h \in written |-> StaticClaim(h \in passing)])]
    /\ evidenceFiles' = evidenceFiles \cup {<<"static", v>>}
    /\ UNCHANGED <<runtimeClaims, diffClaims, waivedAhead, halves, recorder>>

RuntimeRow(v, claims) ==
    /\ runtimeClaims' = [runtimeClaims EXCEPT ![v] = Appended(@, claims)]
    /\ evidenceFiles' = evidenceFiles \cup {<<"runtime", v>>}
    /\ UNCHANGED <<staticClaims, diffClaims, waivedAhead>>

\* A capture with an unusable screen or another app in front is refused and
\* leaves nothing.
CaptureIdentities(v, ran, written) ==
    /\ recorder.pc = "idle" /\ Row
    /\ RuntimeRow(v, [h \in written |-> IdentityClaim(h, ran)])
    /\ UNCHANGED <<halves, recorder>>

CaptureStartup(v, control, running, hit) ==
    /\ recorder.pc = "idle" /\ StartupHook \in PortHooks /\ Row
    /\ RuntimeRow(v, [h \in {StartupHook} |-> StartupClaim(control, running, hit)])
    /\ UNCHANGED <<halves, recorder>>

\* One half of a delta probe is stored; the store is of no version in particular.
MeasureHalf(v, h, toggle, count) ==
    /\ recorder.pc = "idle" /\ Row
    /\ halves' = [halves EXCEPT ![h][toggle] = count]
    /\ recorder' = IF NoCount \in {halves'[h][t] : t \in Toggle} THEN recorder
                   ELSE [pc |-> "pairing", hook |-> h, version |-> v]
    /\ UNCHANGED <<staticClaims, runtimeClaims, diffClaims, waivedAhead, evidenceFiles>>

\* With both halves there, the claim is appended; the halves stay.
PairHalves ==
    /\ recorder.pc = "pairing"
    /\ LET h == recorder.hook IN
       RuntimeRow(recorder.version,
                  [g \in {h} |-> DeltaClaim(g, halves[g]["enabled"], halves[g]["disabled"])])
    /\ recorder' = NoPairing
    /\ UNCHANGED <<halves, portRows>>

RecorderDies ==
    /\ recorder.pc = "pairing" /\ recorder' = NoPairing
    /\ UNCHANGED <<staticClaims, runtimeClaims, diffClaims, waivedAhead, evidenceFiles,
                   halves, portRows>>

\* differential_claims: both files must be there; a hook counts with a claim of some shape.
CompareVersions(before, after, written) ==
    /\ Row /\ before < after
    /\ {<<"runtime", before>>, <<"runtime", after>>} \subseteq evidenceFiles
    /\ diffClaims' = [diffClaims EXCEPT ![<<before, after>>] =
                        Appended(@, [h \in {g \in written : \E v \in {before, after} :
                                              \E s \in {"identity", "delta", "absence"} :
                                                  OfShape(runtimeClaims[v][g], s) # {}} |->
                                       CompareProbes(runtimeClaims[before][h],
                                                     runtimeClaims[after][h])])]
    /\ UNCHANGED <<staticClaims, runtimeClaims, waivedAhead, evidenceFiles, halves, recorder>>

\* A person at a gate waives one item of one version; no program writes the line.
WaiveStatic(v, h) ==
    /\ Row
    /\ staticClaims' = [staticClaims EXCEPT ![v] = Appended(@, [g \in {h} |-> Waiver])]
    /\ evidenceFiles' = evidenceFiles \cup {<<"static", v>>}
    /\ UNCHANGED <<runtimeClaims, diffClaims, waivedAhead, halves, recorder>>

WaiveRuntime(v, h) ==
    /\ Row /\ RuntimeRow(v, [g \in {h} |-> Waiver])
    /\ UNCHANGED <<halves, recorder>>

\* The comparison, in the file of the pair or, for a first port, in the version's own.
WaivePair(p, h) ==
    /\ Row
    /\ diffClaims' = [diffClaims EXCEPT ![p] = Appended(@, [g \in {h} |-> Waiver])]
    /\ UNCHANGED <<staticClaims, runtimeClaims, waivedAhead, evidenceFiles, halves, recorder>>

WaiveFirstPort(v, h) ==
    /\ Row
    /\ waivedAhead' = [waivedAhead EXCEPT ![v] = @ \cup {h}]
    /\ evidenceFiles' = evidenceFiles \cup {<<"runtime", v>>}
    /\ UNCHANGED <<staticClaims, runtimeClaims, diffClaims, halves, recorder>>

EvidenceNext ==
    \/ \E v \in PortVersions, written \in SUBSET PortHooks :
         \/ \E some \in SUBSET PortHooks : VerifyBuild(v, some, written)
         \/ \E some \in SUBSET PortHooks : CaptureIdentities(v, some, written)
    \/ \E v \in PortVersions, b1, b2, b3 \in BOOLEAN : CaptureStartup(v, b1, b2, b3)
    \/ \E v \in PortVersions, h \in PortHooks, t \in Toggle, n \in 0..MaxCount :
         MeasureHalf(v, h, t, n)
    \/ PairHalves \/ RecorderDies
    \/ \E p \in Pairs, written \in SUBSET PortHooks : CompareVersions(p[1], p[2], written)
    \/ \E v \in PortVersions, h \in PortHooks :
         WaiveStatic(v, h) \/ WaiveRuntime(v, h) \/ WaiveFirstPort(v, h)
    \/ \E p \in Pairs, h \in PortHooks : WaivePair(p, h)

EvidenceSpec == EvidenceInit /\ [][EvidenceNext]_evidenceVars

-----------------------------------------------------------------------------
PassedShapes(claims) == {s \in {"identity", "delta", "absence"} :
                           \E i \in OfShape(claims, s) : claims[i].verdict = "passed"}

\* A hook is release-ready on a version only if one and the same kind of probe
\* has passed on that version and on the one before it, whatever was measured
\* again, in which order, and whichever recording died half-way, or a person waived
\* that comparison for this very version: by measurements alone a hook is never
\* ready on the version that is the first to show it working, and what was waived on
\* one version is nothing the next can rest on.
ReadyWasHeld ==
    \A v \in PortVersions : \A h \in ReadyHooks(v) :
        LET history == DiffHistory(v, h) IN
        \/ history[Len(history)].verdict = "waived"
        \/ /\ Earlier(v) # {}
           /\ PassedShapes(runtimeClaims[v][h])
                \cap PassedShapes(runtimeClaims[Predecessor(v)][h]) # {}

=============================================================================
