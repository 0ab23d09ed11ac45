------------------------ MODULE PortObservationProofs -------------------------
(*****************************************************************************)
(* What the pipeline keeps of what it observed is what it observed: captures  *)
(* of trees, the evidence that a hook is ready, the history of a hook over the*)
(* versions, the rows of a runbook, and the tree of an admitted source.  For  *)
(* any hooks, versions, phones, walks, trees and interleavings.               *)
(*****************************************************************************)
EXTENDS PortEvidence, PortHistory, PortRunbook, TreeCapture, SourceAdmission,
        WellFoundedInduction, FiniteSetTheorems, SequenceTheorems, TLAPS

-----------------------------------------------------------------------------
(*****************************************************************************)
(* Every set of numbers has a least one, and a bounded one a greatest.  It is *)
(* what CHOOSE needs to pick the latest claim, the first step or the next name.*)
(*****************************************************************************)

\* The least number of a set.
LEMMA Smallest ==
  ASSUME NEW S \in SUBSET Nat, S # {}
  PROVE  \E m \in S : \A k \in S : m <= k
<1>1. \E m \in S : \A k \in S : ~(<<k, m>> \in OpToRel(<, Nat))
  BY WFMin, NatLessThanWellFounded, Zenon
<1>2. \A k, m \in Nat : k < m => <<k, m>> \in OpToRel(<, Nat)
  BY Zenon DEF OpToRel
<1>3. PICK m \in S : \A k \in S : ~(k < m)
  BY <1>1, <1>2, Zenon
<1>4. \A k \in S : m <= k
  BY <1>3
<1> QED
  BY <1>4

\* The greatest number of a bounded set: the complements have a least one.
LEMMA Largest ==
  ASSUME NEW S \in SUBSET Nat, S # {}, NEW n \in Nat, \A k \in S : k <= n
  PROVE  \E m \in S : \A k \in S : k <= m
<1> DEFINE T == {j \in Nat : n - j \in S}
<1>1. PICK k \in S : TRUE
  OBVIOUS
<1>2. k \in Nat /\ k <= n /\ n - (n - k) = k
  OBVIOUS
<1>3. n - k \in T
  BY <1>2
<1>4. PICK t \in T : \A j \in T : t <= j
  BY <1>3, Smallest, Zenon
<1>5. n - t \in S /\ t \in Nat
  BY <1>4
<1>6. \A j \in S : j <= n - t
  <2> TAKE j \in S
  <2>1. j \in Nat /\ j <= n
    OBVIOUS
  <2>2. n - j \in Nat /\ n - (n - j) = j
    BY <2>1
  <2>3. n - j \in T
    BY <2>2
  <2>4. t <= n - j
    BY <2>3, <1>4
  <2> HIDE DEF T
  <2> QED BY <2>1, <2>4, <1>5
<1> QED
  BY <1>5, <1>6

-----------------------------------------------------------------------------
(*****************************************************************************)
(* PortEvidence: a hook is ready only if it was held up.                     *)
(*****************************************************************************)

Shapes3 == {"identity", "delta", "absence"}
Claims  == Seq(EvidenceClaim)

EvidenceTypes ==
    /\ staticClaims  \in [PortVersions -> [PortHooks -> Claims]]
    /\ runtimeClaims \in [PortVersions -> [PortHooks -> Claims]]
    /\ diffClaims    \in [Pairs -> [PortHooks -> Claims]]
    /\ waivedAhead   \in [PortVersions -> SUBSET PortHooks]
    /\ halves \in [PortHooks -> [Toggle -> Nat \cup {NoCount}]]
    /\ recorder.pc \in {"idle", "pairing"}
    /\ recorder.pc = "pairing" =>
         /\ recorder.hook \in PortHooks /\ recorder.version \in PortVersions
         /\ \A t \in Toggle : halves[recorder.hook][t] \in Nat

BothPassed(p, h) ==
    PassedShapes(runtimeClaims[p[1]][h]) \cap PassedShapes(runtimeClaims[p[2]][h]) # {}

\* A comparison that passed has a kind of probe that passed on both its sides.
PassedCompareBothSides ==
    \A p \in Pairs : \A h \in PortHooks : \A k \in DOMAIN diffClaims[p][h] :
        diffClaims[p][h][k].verdict = "passed" => BothPassed(p, h)

EvidenceInv == EvidenceTypes /\ PassedCompareBothSides

-----------------------------------------------------------------------------
\* A waiver is a claim.
LEMMA WaiverIsClaim == Waiver \in EvidenceClaim
  BY DEF Waiver, EvidenceClaim, EvidenceVerdict

\* A claim is put at the end, after the others.
LEMMA AppendedClaim ==
  ASSUME NEW claims \in Claims, NEW claim \in EvidenceClaim
  PROVE  /\ Append(claims, claim) \in Claims
         /\ \A k \in DOMAIN claims :
              k \in DOMAIN Append(claims, claim) /\ Append(claims, claim)[k] = claims[k]
         /\ \A k \in DOMAIN Append(claims, claim) :
              k \in DOMAIN claims \/ Append(claims, claim)[k] = claim
  BY DEF Claims

\* A claim that was made stays made.
LEMMA PassesStay ==
  ASSUME NEW claims \in Claims, NEW claim \in EvidenceClaim
  PROVE  PassedShapes(claims) \subseteq PassedShapes(Append(claims, claim))
<1> DEFINE more == Append(claims, claim)
<1>1. \A k \in DOMAIN claims : k \in DOMAIN more /\ more[k] = claims[k]
  BY AppendedClaim
<1> HIDE DEF more
<1> QED
  BY <1>1 DEF more, PassedShapes, OfShape

\* The latest claim of a shape is one of the claims of that shape.
LEMMA LatestIsOne ==
  ASSUME NEW claims \in Claims, NEW s, OfShape(claims, s) # {}
  PROVE  \E i \in DOMAIN claims : claims[i].shape = s /\ LatestOfShape(claims, s) = claims[i]
<1> DEFINE S == OfShape(claims, s)
<1>1. S \subseteq Nat /\ S # {} /\ \A i \in S : i <= Len(claims)
  BY DEF OfShape, Claims
<1>2. Len(claims) \in Nat
  BY DEF Claims
<1>3. \E i \in S : \A j \in S : j <= i
  BY <1>1, <1>2, Largest
<1>4. (CHOOSE i \in S : \A j \in S : j <= i) \in S
  BY <1>3
<1> QED
  BY <1>4 DEF OfShape, LatestOfShape

\* What a comparison answers: a claim, which passes only over two passes of one shape.
LEMMA CompareIsHonest ==
  ASSUME NEW before \in Claims, NEW after \in Claims
  PROVE  /\ CompareProbes(before, after) \in EvidenceClaim
         /\ CompareProbes(before, after).verdict = "passed" =>
              PassedShapes(before) \cap PassedShapes(after) # {}
<1> DEFINE shapes == SharedShapes(before, after)
           s      == Preferred(shapes)
           base   == LatestOfShape(before, s)
           new    == LatestOfShape(after, s)
<1>1. CASE shapes = {}
  BY <1>1 DEF CompareProbes, Comparison, EvidenceClaim, EvidenceVerdict
<1>2. CASE shapes # {}
  <2>1. DOMAIN ProbeShape = 1..3 /\ \A i \in 1..3 : ProbeShape[i] \in Shapes3
    BY DEF ProbeShape, Shapes3
  <2>2. shapes \subseteq Nat
    BY <2>1 DEF SharedShapes
  <2>3. \E i \in shapes : \A j \in shapes : i <= j
    BY <1>2, <2>2, Smallest
  <2>4. PICK i \in shapes : s = ProbeShape[i]
    BY <2>3 DEF Preferred
  <2>5. s \in Shapes3 /\ OfShape(before, s) # {} /\ OfShape(after, s) # {}
    BY <2>1, <2>4 DEF SharedShapes
  <2> HIDE DEF s
  <2>6. PICK b \in DOMAIN before : before[b].shape = s /\ base = before[b]
    BY <2>5, LatestIsOne
  <2>7. PICK a \in DOMAIN after : after[a].shape = s /\ new = after[a]
    BY <2>5, LatestIsOne
  <2>8. base \in EvidenceClaim /\ new \in EvidenceClaim
    BY <2>6, <2>7 DEF Claims
  <2>9. base.verdict = "passed" /\ new.verdict = "passed" =>
          s \in PassedShapes(before) \cap PassedShapes(after)
    BY <2>5, <2>6, <2>7 DEF PassedShapes, OfShape, Shapes3
  <2>10. new.verdict \in {"passed", "failed", "inconclusive"}
    BY <2>5, <2>7, <2>8 DEF EvidenceClaim, EvidenceVerdict, Shapes3
  <2> HIDE DEF base, new
  <2>11. CompareProbes(before, after) =
           CASE base.verdict # "passed"  -> Comparison("inconclusive", new.live)
             [] base.verdict = "passed" /\ new.verdict \in {"passed", "failed"} ->
                  Comparison(new.verdict, new.live)
             [] base.verdict = "passed" /\ new.verdict = "inconclusive" ->
                  Comparison(IF new.shared \/ ~new.live THEN "inconclusive" ELSE "failed", new.live)
    BY <1>2 DEF CompareProbes, base, new, s
  <2>12. CASE base.verdict # "passed"
    BY <2>8, <2>11, <2>12 DEF Comparison, EvidenceClaim, EvidenceVerdict
  <2>13. CASE base.verdict = "passed" /\ new.verdict \in {"passed", "failed"}
    BY <2>8, <2>9, <2>11, <2>13 DEF Comparison, EvidenceClaim, EvidenceVerdict
  <2>14. CASE base.verdict = "passed" /\ new.verdict = "inconclusive"
    BY <2>8, <2>11, <2>14 DEF Comparison, EvidenceClaim, EvidenceVerdict
  <2> QED
    BY <2>12, <2>13, <2>14, <2>10
<1> QED
  BY <1>1, <1>2

-----------------------------------------------------------------------------
\* Nothing is observed or held at the start.
LEMMA EvidenceStarts == EvidenceInit => EvidenceInv
<1> SUFFICES ASSUME EvidenceInit PROVE EvidenceInv
  OBVIOUS
<1>1. EvidenceTypes
  BY DEF EvidenceInit, EvidenceTypes, Claims, Unpaired, NoPairing
<1>2. PassedCompareBothSides
  BY DEF EvidenceInit, PassedCompareBothSides
<1> QED
  BY <1>1, <1>2 DEF EvidenceInv

\* Claims appended to one version's files are claims, and no pass is lost by it.
LEMMA AppendedFile ==
  ASSUME NEW file \in [PortHooks -> Claims], NEW claims,
         \A h \in DOMAIN claims : claims[h] \in EvidenceClaim
  PROVE  /\ Appended(file, claims) \in [PortHooks -> Claims]
         /\ \A h \in PortHooks :
              PassedShapes(file[h]) \subseteq PassedShapes(Appended(file, claims)[h])
<1>1. \A h \in PortHooks :
        Appended(file, claims)[h] = IF h \in DOMAIN claims THEN Append(file[h], claims[h])
                                    ELSE file[h]
  BY DEF Appended
<1>2. ASSUME NEW h \in PortHooks
      PROVE  /\ Appended(file, claims)[h] \in Claims
             /\ PassedShapes(file[h]) \subseteq PassedShapes(Appended(file, claims)[h])
  <2>1. file[h] \in Claims
    OBVIOUS
  <2>2. CASE h \in DOMAIN claims
    <3>1. claims[h] \in EvidenceClaim /\ Appended(file, claims)[h] = Append(file[h], claims[h])
      BY <1>1, <2>2
    <3> QED
      BY <2>1, <3>1, PassesStay, AppendedClaim
  <2>3. CASE h \notin DOMAIN claims
    BY <1>1, <2>1, <2>3
  <2> QED
    BY <2>2, <2>3
<1> QED
  BY <1>2 DEF Appended

\* A recording of device claims adds to the passes of its version.
LEMMA RuntimeRowKeeps ==
  ASSUME EvidenceInv, NEW v \in PortVersions, NEW claims,
         \A h \in DOMAIN claims : claims[h] \in EvidenceClaim,
         RuntimeRow(v, claims)
  PROVE  /\ runtimeClaims' \in [PortVersions -> [PortHooks -> Claims]]
         /\ PassedCompareBothSides'
<1> DEFINE file == Appended(runtimeClaims[v], claims)
<1>1. /\ file \in [PortHooks -> Claims]
      /\ \A h \in PortHooks : PassedShapes(runtimeClaims[v][h]) \subseteq PassedShapes(file[h])
  BY AppendedFile DEF EvidenceInv, EvidenceTypes
<1>2. runtimeClaims' = [runtimeClaims EXCEPT ![v] = file] /\ UNCHANGED diffClaims
  BY DEF RuntimeRow
<1> HIDE DEF file
<1>3. runtimeClaims' \in [PortVersions -> [PortHooks -> Claims]]
  BY <1>1, <1>2 DEF EvidenceInv, EvidenceTypes
<1>4. \A u \in PortVersions : \A h \in PortHooks :
        PassedShapes(runtimeClaims[u][h]) \subseteq PassedShapes(runtimeClaims'[u][h])
  BY <1>1, <1>2 DEF EvidenceInv, EvidenceTypes
<1>5. PassedCompareBothSides'
  BY <1>2, <1>4 DEF EvidenceInv, PassedCompareBothSides, BothPassed, Pairs
<1> QED
  BY <1>3, <1>5

\* Only a comparison writes verdicts on both sides, and no claim is taken back.
LEMMA EvidenceStep == EvidenceInv /\ [EvidenceNext]_evidenceVars => EvidenceInv'
<1> SUFFICES ASSUME EvidenceInv, [EvidenceNext]_evidenceVars PROVE EvidenceInv'
  OBVIOUS
<1>1. ASSUME NEW v \in PortVersions, NEW written \in SUBSET PortHooks,
             NEW some \in SUBSET PortHooks,
             VerifyBuild(v, some, written)
      PROVE  EvidenceInv'
  <2> DEFINE claims == [h \in written |-> StaticClaim(h \in some)]
  <2>1. \A h \in DOMAIN claims : claims[h] \in EvidenceClaim
    BY DEF StaticClaim, EvidenceClaim, EvidenceVerdict
  <2>2. /\ staticClaims' = [staticClaims EXCEPT ![v] = Appended(staticClaims[v], claims)]
        /\ UNCHANGED <<runtimeClaims, diffClaims, waivedAhead, halves, recorder>>
    BY <1>1 DEF VerifyBuild
  <2> HIDE DEF claims
  <2>3. Appended(staticClaims[v], claims) \in [PortHooks -> Claims]
    BY <2>1, AppendedFile DEF EvidenceInv, EvidenceTypes
  <2> QED
    BY <2>2, <2>3 DEF EvidenceInv, EvidenceTypes, PassedCompareBothSides, BothPassed
<1>2. ASSUME NEW v \in PortVersions, NEW written \in SUBSET PortHooks,
             NEW some \in SUBSET PortHooks,
             CaptureIdentities(v, some, written)
      PROVE  EvidenceInv'
  <2> DEFINE claims == [h \in written |-> IdentityClaim(h, some)]
  <2>1. \A h \in DOMAIN claims : claims[h] \in EvidenceClaim
    BY DEF IdentityClaim, EvidenceClaim, EvidenceVerdict
  <2>2. RuntimeRow(v, claims) /\ UNCHANGED <<halves, recorder>>
    BY <1>2 DEF CaptureIdentities
  <2> HIDE DEF claims
  <2> QED
    BY <2>1, <2>2, RuntimeRowKeeps DEF RuntimeRow, EvidenceInv, EvidenceTypes
<1>3. ASSUME NEW v \in PortVersions, NEW b1 \in BOOLEAN, NEW b2 \in BOOLEAN, NEW b3 \in BOOLEAN,
             CaptureStartup(v, b1, b2, b3)
      PROVE  EvidenceInv'
  <2> DEFINE claims == [h \in {StartupHook} |-> StartupClaim(b1, b2, b3)]
  <2>1. \A h \in DOMAIN claims : claims[h] \in EvidenceClaim
    BY DEF StartupClaim, EvidenceClaim, EvidenceVerdict
  <2>2. RuntimeRow(v, claims) /\ UNCHANGED <<halves, recorder>>
    BY <1>3 DEF CaptureStartup
  <2> HIDE DEF claims
  <2> QED
    BY <2>1, <2>2, RuntimeRowKeeps DEF RuntimeRow, EvidenceInv, EvidenceTypes
<1>4. ASSUME NEW v \in PortVersions, NEW h \in PortHooks, NEW t \in Toggle, NEW n \in 0..MaxCount,
             MeasureHalf(v, h, t, n)
      PROVE  EvidenceInv'
  <2>1. n \in Nat
    BY EvidenceAssumption DEF EvidenceAssumption
  <2>2. halves' = [halves EXCEPT ![h][t] = n]
          /\ UNCHANGED <<staticClaims, runtimeClaims, diffClaims, waivedAhead>>
    BY <1>4 DEF MeasureHalf
  <2>3. halves' \in [PortHooks -> [Toggle -> Nat \cup {NoCount}]]
    BY <2>1, <2>2 DEF EvidenceInv, EvidenceTypes
  <2>4. \/ recorder' = recorder /\ recorder.pc = "idle"
        \/ /\ recorder' = [pc |-> "pairing", hook |-> h, version |-> v]
           /\ \A u \in Toggle : halves'[h][u] # NoCount
    BY <1>4 DEF MeasureHalf
  <2>5. recorder'.pc = "pairing" =>
          /\ recorder'.hook = h /\ recorder'.version = v
          /\ \A u \in Toggle : halves'[h][u] \in Nat
    BY <2>3, <2>4
  <2> QED
    BY <2>2, <2>3, <2>4, <2>5 DEF EvidenceInv, EvidenceTypes, PassedCompareBothSides, BothPassed
<1>5. CASE PairHalves
  <2> DEFINE h == recorder.hook
             claims == [g \in {h} |-> DeltaClaim(g, halves[g]["enabled"], halves[g]["disabled"])]
  <2>1. /\ h \in PortHooks /\ recorder.version \in PortVersions
        /\ halves[h]["enabled"] \in Nat /\ halves[h]["disabled"] \in Nat
    BY <1>5 DEF PairHalves, EvidenceInv, EvidenceTypes, Toggle
  <2>2. ASSUME NEW on \in Nat, NEW off \in Nat PROVE DeltaClaim(h, on, off) \in EvidenceClaim
    <3>1. ProbeVerdict(h, on, off) \in {"passed", "failed", "inconclusive"}
      BY DEF ProbeVerdict
    <3> QED
      BY <3>1 DEF DeltaClaim, EvidenceClaim, EvidenceVerdict
  <2>3. \A g \in DOMAIN claims : claims[g] \in EvidenceClaim
    BY <2>1, <2>2
  <2>4. RuntimeRow(recorder.version, claims) /\ recorder' = NoPairing /\ UNCHANGED halves
    BY <1>5 DEF PairHalves
  <2> HIDE DEF claims
  <2> QED
    BY <2>1, <2>3, <2>4, RuntimeRowKeeps DEF RuntimeRow, EvidenceInv, EvidenceTypes, NoPairing
<1>6. CASE RecorderDies
  BY <1>6 DEF RecorderDies, NoPairing, EvidenceInv, EvidenceTypes, PassedCompareBothSides,
     BothPassed
<1>7. ASSUME NEW p \in Pairs, NEW written \in SUBSET PortHooks, CompareVersions(p[1], p[2], written)
      PROVE  EvidenceInv'
  <2> DEFINE before(h) == runtimeClaims[p[1]][h]
             after(h)  == runtimeClaims[p[2]][h]
             compared == {g \in written : \E v \in {p[1], p[2]} :
                            \E s \in {"identity", "delta", "absence"} :
                              OfShape(runtimeClaims[v][g], s) # {}}
             claims == [h \in compared |-> CompareProbes(before(h), after(h))]
             file == Appended(diffClaims[p], claims)
  <2>1. p = <<p[1], p[2]>> /\ p[1] \in PortVersions /\ p[2] \in PortVersions
    BY DEF Pairs
  <2>2. \A h \in PortHooks : before(h) \in Claims /\ after(h) \in Claims
    BY <2>1 DEF EvidenceInv, EvidenceTypes
  <2>3. \A h \in compared : /\ claims[h] \in EvidenceClaim
                            /\ claims[h].verdict = "passed" => BothPassed(p, h)
    BY <2>2, CompareIsHonest DEF BothPassed
  <2>4. /\ diffClaims' = [diffClaims EXCEPT ![p] = file]
        /\ UNCHANGED <<staticClaims, runtimeClaims, waivedAhead, halves, recorder>>
    BY <1>7, <2>1 DEF CompareVersions
  <2>5. DOMAIN claims = compared /\ compared \subseteq PortHooks
    OBVIOUS
  <2> HIDE DEF claims, compared
  <2>6. file \in [PortHooks -> Claims]
    BY <2>3, <2>5, AppendedFile DEF EvidenceInv, EvidenceTypes
  <2>7. \A h \in PortHooks : \A k \in DOMAIN file[h] :
          file[h][k].verdict = "passed" => BothPassed(p, h)
    <3> TAKE h \in PortHooks
    <3> DEFINE old == diffClaims[p][h]
    <3>1. old \in Claims /\ \A k \in DOMAIN old : old[k].verdict = "passed" => BothPassed(p, h)
      BY DEF EvidenceInv, EvidenceTypes, PassedCompareBothSides
    <3>2. file[h] = IF h \in compared THEN Append(old, claims[h]) ELSE old
      BY <2>5 DEF Appended
    <3> HIDE DEF file, old
    <3>3. CASE h \in compared
      <4>1. \A k \in DOMAIN file[h] :
              (k \in DOMAIN old /\ file[h][k] = old[k]) \/ file[h][k] = claims[h]
        BY <3>1, <3>2, <3>3, <2>3, AppendedClaim
      <4> QED
        BY <4>1, <3>1, <3>3, <2>3
    <3>4. CASE h \notin compared
      BY <3>1, <3>2, <3>4
    <3> QED
      BY <3>3, <3>4
  <2> HIDE DEF file
  <2>8. PassedCompareBothSides'
    <3> SUFFICES ASSUME NEW q \in Pairs, NEW h \in PortHooks, NEW k \in DOMAIN diffClaims'[q][h],
                        diffClaims'[q][h][k].verdict = "passed"
                 PROVE  BothPassed(q, h)
      BY <2>4 DEF PassedCompareBothSides, BothPassed
    <3>1. CASE q = p
      BY <3>1, <2>4, <2>7 DEF EvidenceInv, EvidenceTypes
    <3>2. CASE q # p
      BY <3>2, <2>4 DEF EvidenceInv, EvidenceTypes, PassedCompareBothSides
    <3> QED
      BY <3>1, <3>2
  <2> QED
    BY <2>4, <2>6, <2>8 DEF EvidenceInv, EvidenceTypes
<1>8. ASSUME NEW v \in PortVersions, NEW h \in PortHooks, WaiveStatic(v, h)
      PROVE  EvidenceInv'
  <2> DEFINE claims == [g \in {h} |-> Waiver]
  <2>1. /\ staticClaims' = [staticClaims EXCEPT ![v] = Appended(staticClaims[v], claims)]
        /\ UNCHANGED <<runtimeClaims, diffClaims, waivedAhead, halves, recorder>>
    BY <1>8 DEF WaiveStatic
  <2>2. \A g \in DOMAIN claims : claims[g] \in EvidenceClaim
    BY WaiverIsClaim
  <2> HIDE DEF claims
  <2>3. Appended(staticClaims[v], claims) \in [PortHooks -> Claims]
    BY <2>2, AppendedFile DEF EvidenceInv, EvidenceTypes
  <2> QED
    BY <2>1, <2>3 DEF EvidenceInv, EvidenceTypes, PassedCompareBothSides, BothPassed
<1>9. ASSUME NEW v \in PortVersions, NEW h \in PortHooks, WaiveRuntime(v, h)
      PROVE  EvidenceInv'
  <2> DEFINE claims == [g \in {h} |-> Waiver]
  <2>1. RuntimeRow(v, claims) /\ UNCHANGED <<halves, recorder>>
    BY <1>9 DEF WaiveRuntime
  <2>2. \A g \in DOMAIN claims : claims[g] \in EvidenceClaim
    BY WaiverIsClaim
  <2> HIDE DEF claims
  <2> QED
    BY <2>1, <2>2, RuntimeRowKeeps DEF RuntimeRow, EvidenceInv, EvidenceTypes
<1>10. ASSUME NEW v \in PortVersions, NEW h \in PortHooks, WaiveFirstPort(v, h)
      PROVE  EvidenceInv'
  BY <1>10 DEF WaiveFirstPort, EvidenceInv, EvidenceTypes, PassedCompareBothSides, BothPassed
<1>11. ASSUME NEW p \in Pairs, NEW h \in PortHooks, WaivePair(p, h)
      PROVE  EvidenceInv'
  <2> DEFINE claims == [g \in {h} |-> Waiver]
             file == Appended(diffClaims[p], claims)
  <2>1. /\ diffClaims' = [diffClaims EXCEPT ![p] = file]
        /\ UNCHANGED <<staticClaims, runtimeClaims, waivedAhead, halves, recorder>>
    BY <1>11 DEF WaivePair
  <2>2. /\ DOMAIN claims = {h} /\ claims[h] = Waiver
        /\ \A g \in DOMAIN claims : claims[g] \in EvidenceClaim
    BY WaiverIsClaim
  <2> HIDE DEF claims
  <2>3. file \in [PortHooks -> Claims]
    BY <2>2, AppendedFile DEF EvidenceInv, EvidenceTypes
  <2>4. \A g \in PortHooks : file[g] = IF g = h THEN Append(diffClaims[p][g], Waiver)
                                      ELSE diffClaims[p][g]
    BY <2>2 DEF Appended
  <2> HIDE DEF file
  <2>5. \A g \in PortHooks : \A k \in DOMAIN file[g] :
          file[g][k].verdict = "passed" =>
            k \in DOMAIN diffClaims[p][g] /\ diffClaims[p][g][k].verdict = "passed"
    <3> TAKE g \in PortHooks
    <3>1. diffClaims[p][g] \in Claims
      BY DEF EvidenceInv, EvidenceTypes
    <3>2. CASE g = h
      <4>1. file[g] = Append(diffClaims[p][g], Waiver)
        BY <2>4, <3>2
      <4>2. \A k \in DOMAIN file[g] :
              \/ k \in DOMAIN diffClaims[p][g] /\ file[g][k] = diffClaims[p][g][k]
              \/ file[g][k] = Waiver
        BY <3>1, <4>1, WaiverIsClaim, AppendedClaim
      <4> QED
        BY <4>2 DEF Waiver
    <3>3. CASE g # h
      BY <2>4, <3>3
    <3> QED
      BY <3>2, <3>3
  <2>6. PassedCompareBothSides'
    <3> SUFFICES ASSUME NEW q \in Pairs, NEW g \in PortHooks, NEW k \in DOMAIN diffClaims'[q][g],
                        diffClaims'[q][g][k].verdict = "passed"
                 PROVE  BothPassed(q, g)
      BY <2>1 DEF PassedCompareBothSides, BothPassed
    <3>1. CASE q = p
      BY <3>1, <2>1, <2>5 DEF EvidenceInv, EvidenceTypes, PassedCompareBothSides
    <3>2. CASE q # p
      BY <3>2, <2>1 DEF EvidenceInv, EvidenceTypes, PassedCompareBothSides
    <3> QED
      BY <3>1, <3>2
  <2> QED
    BY <2>1, <2>3, <2>6 DEF EvidenceInv, EvidenceTypes
<1>12. CASE UNCHANGED evidenceVars
  BY <1>12 DEF evidenceVars, EvidenceInv, EvidenceTypes, PassedCompareBothSides, BothPassed
<1> QED
  BY <1>1, <1>2, <1>3, <1>4, <1>5, <1>6, <1>7, <1>8, <1>9, <1>10, <1>11, <1>12 DEF EvidenceNext

\* What ends two histories read one after the other is the end of one of them.
LEMMA LastOfTwo ==
  ASSUME NEW before \in Claims, NEW after \in Claims, before \o after # <<>>
  PROVE  LET both == before \o after IN
         \/ after # <<>> /\ both[Len(both)] = after[Len(after)]
         \/ before # <<>> /\ both[Len(both)] = before[Len(before)]
<1>1. CASE after = <<>>
  BY <1>1 DEF Claims
<1>2. CASE after # <<>>
  <2>1. Len(after) \in 1..Len(after) /\ Len(before \o after) = Len(before) + Len(after)
    BY <1>2 DEF Claims
  <2> QED
    BY <1>2, <2>1 DEF Claims
<1> QED
  BY <1>1, <1>2

\* A hook is release-ready on a version only if one kind of probe passed on it and on the
\* version before (evidence.py, differential.py), whatever was measured again, in which
\* order, and whichever recording died half-way, or a person waived that comparison.
THEOREM ReadyHeld == EvidenceSpec => []ReadyWasHeld
<1>1. ASSUME EvidenceInv, NEW v \in PortVersions, NEW h \in ReadyHooks(v),
             DiffHistory(v, h)[Len(DiffHistory(v, h))].verdict # "waived"
      PROVE  Earlier(v) # {} /\ BothPassed(<<Predecessor(v), v>>, h)
  <2> DEFINE u == Predecessor(v)
             pair  == IF Earlier(v) = {} THEN <<>> ELSE diffClaims[<<u, v>>][h]
             ahead == IF h \in waivedAhead[v] THEN <<Waiver>> ELSE <<>>
             both  == DiffHistory(v, h)
  <2>1. KindSatisfied(both) /\ h \in PortHooks
    BY DEF ReadyHooks, HooksReported
  <2>2. both = ahead \o pair /\ both # <<>> /\ both[Len(both)].verdict \in {"passed", "waived"}
    BY <2>1 DEF DiffHistory, KindSatisfied, Satisfying
  <2>3. PortVersions \subseteq Nat /\ Earlier(v) \subseteq PortVersions
        /\ \A w \in Earlier(v) : w < v
    BY EvidenceAssumption DEF EvidenceAssumption, Earlier, Series
  <2>4. \A w \in Earlier(v) : w <= v
    <3> TAKE w \in Earlier(v)
    <3>1. w \in Nat /\ v \in Nat /\ w < v
      BY <2>3
    <3> QED
      BY <3>1
  <2>5. ASSUME Earlier(v) # {} PROVE <<u, v>> \in Pairs
    <3>1. \E w \in Earlier(v) : \A x \in Earlier(v) : x <= w
      BY <2>3, <2>4, <2>5, Largest
    <3>2. u \in Earlier(v)
      BY <3>1 DEF Predecessor
    <3> QED
      BY <2>3, <3>2 DEF Pairs
  <2> HIDE DEF u
  <2>6. pair \in Claims /\ ahead \in Claims
    <3>1. ahead \in Claims
      BY WaiverIsClaim DEF Claims
    <3>2. pair \in Claims
      BY <1>1, <2>1, <2>5 DEF EvidenceInv, EvidenceTypes, Claims
    <3> QED
      BY <3>1, <3>2
  <2>7. ahead # <<>> => ahead[Len(ahead)].verdict = "waived"
    BY DEF Waiver
  <2> HIDE DEF ahead, both
  <2>8. pair # <<>> /\ both[Len(both)] = pair[Len(pair)]
    BY <1>1, <2>2, <2>6, <2>7, LastOfTwo DEF both
  <2>9. Earlier(v) # {} /\ pair = diffClaims[<<u, v>>][h] /\ <<u, v>> \in Pairs
    BY <2>5, <2>8
  <2> HIDE DEF pair
  <2>10. Len(pair) \in DOMAIN pair /\ pair[Len(pair)] \in EvidenceClaim
    BY <2>6, <2>8 DEF Claims
  <2>11. pair[Len(pair)].verdict = "passed"
    BY <1>1, <2>2, <2>8 DEF both
  <2>12. BothPassed(<<u, v>>, h)
    BY <1>1, <2>1, <2>9, <2>10, <2>11 DEF EvidenceInv, PassedCompareBothSides
  <2> QED
    BY <2>9, <2>12 DEF u
<1>2. EvidenceInv => ReadyWasHeld
  BY <1>1 DEF ReadyWasHeld, BothPassed
<1> QED
  BY <1>2, EvidenceStarts, EvidenceStep, PTL DEF EvidenceSpec

-----------------------------------------------------------------------------
(*****************************************************************************)
(* PortHistory: a ruling clears no drop it cannot have seen, and a standing   *)
(* drop is swept.                                                            *)
(*****************************************************************************)

Evidence == [static : BOOLEAN, runtime : BOOLEAN, seen : SUBSET LivingHooks,
             ready : SUBSET LivingHooks]
RetirementRow == [kind : RulingKind, hook : LivingHooks, from : Nat]
ClerkStates == {Waiting} \cup
               [pc : {"decided"}, kind : RulingKind, hook : LivingHooks, decided : Nat,
                saw : SUBSET Versions]

HistoryTypes ==
    /\ record \in [Versions -> Evidence]
    /\ retirements \in Seq(RetirementRow)
    /\ clerk \in [Clerks -> ClerkStates]

\* The series has a last version, whatever the versions still to come are.
SeriesIsBounded == \E n \in Nat : \A v \in OnRecord : v <= n

\* A ruling takes effect after every version its author could have seen.
RulingComesAfter ==
    \A c \in Clerks : clerk[c].pc = "decided" =>
      \A v \in clerk[c].saw : v <= clerk[c].decided

HistoryInv == HistoryTypes /\ SeriesIsBounded /\ RulingComesAfter

\* Versions are numbers, in the order they were released.
LEMMA VersionsAreNumbers == Versions \subseteq Nat
  BY HistoryAssumption DEF HistoryAssumption

\* Newest and Oldest are what their names say.
LEMMA NewestIsLast ==
  ASSUME NEW S \in SUBSET Nat, S # {}, NEW n \in Nat, \A v \in S : v <= n
  PROVE  Newest(S) \in S /\ \A v \in S : v <= Newest(S)
<1>1. \E v \in S : \A u \in S : u <= v
  BY Largest
<1> QED
  BY <1>1 DEF Newest

\* The oldest of some versions is one of them and no other is older.
LEMMA OldestIsFirst ==
  ASSUME NEW S \in SUBSET Nat, S # {}
  PROVE  Oldest(S) \in S /\ \A v \in S : Oldest(S) <= v
<1>1. \E v \in S : \A u \in S : v <= u
  BY Smallest
<1> QED
  BY <1>1 DEF Oldest

\* Nothing is on record at the start.
LEMMA HistoryStarts == HistoryInit => HistoryInv
<1> SUFFICES ASSUME HistoryInit PROVE HistoryInv
  OBVIOUS
<1>1. HistoryTypes
  BY DEF HistoryInit, HistoryTypes, Evidence, NoEvidence, ClerkStates
<1>2. OnRecord = {}
  BY DEF HistoryInit, OnRecord, NoEvidence
<1>3. SeriesIsBounded
  BY <1>2 DEF SeriesIsBounded
<1>4. RulingComesAfter
  BY DEF HistoryInit, RulingComesAfter, Waiting
<1> QED
  BY <1>1, <1>3, <1>4 DEF HistoryInv

\* A version is recorded after those the rulings know of; a ruling waits with what its
\* author saw.
LEMMA HistoryStep == HistoryInv /\ [HistoryNext]_historyVars => HistoryInv'
<1> SUFFICES ASSUME HistoryInv, [HistoryNext]_historyVars PROVE HistoryInv'
  OBVIOUS
<1> USE DEF HistoryInv
<1>1. ASSUME NEW v \in Versions, NEW kind \in {"static", "runtime"},
             NEW found \in SUBSET LivingHooks, NEW ready \in SUBSET LivingHooks,
             RecordEvidence(v, kind, found, ready)
      PROVE  HistoryInv'
  <2>1. HistoryTypes'
    BY <1>1 DEF RecordEvidence, HistoryTypes, Evidence
  <2>2. PICK n \in Nat : \A u \in OnRecord : u <= n
    BY DEF SeriesIsBounded
  <2>3. OnRecord' \subseteq OnRecord \cup {v}
    BY <1>1 DEF RecordEvidence, OnRecord, HistoryTypes
  <2>4. SeriesIsBounded'
    <3>1. v \in Nat /\ v + n \in Nat /\ v <= v + n
      BY VersionsAreNumbers
    <3>2. \A u \in OnRecord : u \in Nat /\ u <= v + n
      BY <2>2, <3>1, VersionsAreNumbers DEF OnRecord
    <3>3. \A u \in OnRecord' : u <= v + n
      BY <2>3, <3>1, <3>2
    <3> QED
      BY <3>1, <3>3 DEF SeriesIsBounded
  <2>5. RulingComesAfter'
    BY <1>1 DEF RecordEvidence, RulingComesAfter
  <2> QED
    BY <2>1, <2>4, <2>5
<1>2. ASSUME NEW c \in Clerks, NEW kind \in RulingKind, NEW h \in LivingHooks,
             DecideRuling(c, kind, h)
      PROVE  HistoryInv'
  <2>1. /\ Newest(OnRecord) \in OnRecord /\ \A v \in OnRecord : v <= Newest(OnRecord)
        /\ OnRecord \subseteq Versions
    <3>1. OnRecord \subseteq Versions /\ OnRecord # {}
      BY <1>2 DEF OnRecord, DecideRuling
    <3> QED
      BY <3>1, NewestIsLast, VersionsAreNumbers DEF SeriesIsBounded
  <2>2. clerk' = [clerk EXCEPT ![c] =
                    [pc |-> "decided", kind |-> kind, hook |-> h,
                     decided |-> Newest(OnRecord), saw |-> OnRecord]]
        /\ UNCHANGED <<record, retirements>>
    BY <1>2 DEF DecideRuling
  <2>3. HistoryTypes'
    BY <2>1, <2>2, VersionsAreNumbers DEF HistoryTypes, ClerkStates
  <2>4. SeriesIsBounded'
    BY <2>2 DEF SeriesIsBounded, OnRecord
  <2>5. RulingComesAfter'
    BY <2>1, <2>2 DEF RulingComesAfter, HistoryTypes
  <2> QED
    BY <2>3, <2>4, <2>5
<1>3. ASSUME NEW c \in Clerks, AppendRuling(c)
      PROVE  HistoryInv'
  <2>1. RulingRow(c) \in RetirementRow
    BY <1>3 DEF AppendRuling, HistoryTypes, ClerkStates, Waiting, RulingRow, RetirementRow,
       EffectiveFrom
  <2>2. HistoryTypes'
    BY <1>3, <2>1 DEF AppendRuling, HistoryTypes, ClerkStates
  <2>3. SeriesIsBounded'
    BY <1>3 DEF AppendRuling, SeriesIsBounded, OnRecord
  <2>4. RulingComesAfter'
    BY <1>3 DEF AppendRuling, RulingComesAfter, Waiting, HistoryTypes
  <2> QED
    BY <2>2, <2>3, <2>4
<1>4. ASSUME NEW c \in Clerks, RulingEnds(c)
      PROVE  HistoryInv'
  <2>1. HistoryTypes' /\ RulingComesAfter'
    BY <1>4 DEF RulingEnds, HistoryTypes, ClerkStates, RulingComesAfter, Waiting
  <2>2. SeriesIsBounded'
    BY <1>4 DEF RulingEnds, SeriesIsBounded, OnRecord
  <2> QED
    BY <2>1, <2>2
<1>5. CASE UNCHANGED historyVars
  BY <1>5 DEF historyVars, HistoryTypes, SeriesIsBounded, OnRecord, RulingComesAfter
<1> QED
  BY <1>1, <1>2, <1>3, <1>4, <1>5 DEF HistoryNext

\* The invariant of the history.
LEMMA HistoryKeepsInv == HistorySpec => []HistoryInv
  BY HistoryStarts, HistoryStep, PTL DEF HistorySpec

\* A row that takes effect later than a version does not change who is retired on it.
LEMMA LaterRowChangesNothing ==
  ASSUME NEW rows \in Seq(RetirementRow), NEW row \in RetirementRow, NEW v \in Nat, v < row.from
  PROVE  RetiredAt(Append(rows, row), v) = RetiredAt(rows, v)
<1> DEFINE more == Append(rows, row)
<1>1. /\ DOMAIN rows = 1..Len(rows) /\ DOMAIN more = 1..(Len(rows) + 1) /\ Len(rows) \in Nat
      /\ \A i \in DOMAIN rows : more[i] = rows[i] /\ i \in DOMAIN more
      /\ more[Len(rows) + 1] = row
  OBVIOUS
<1> HIDE DEF more
<1>2. row.from \in Nat
  BY DEF RetirementRow
<1>3. \A h : \A i \in DOMAIN more :
        Applies(more, i, h, v) <=> i \in DOMAIN rows /\ Applies(rows, i, h, v)
  <2> TAKE h
  <2> TAKE i \in DOMAIN more
  <2>1. CASE i = Len(rows) + 1
    BY <2>1, <1>1, <1>2 DEF Applies
  <2>2. CASE i \in DOMAIN rows
    BY <2>2, <1>1 DEF Applies
  <2> QED
    BY <2>1, <2>2, <1>1
<1>4. ASSUME NEW h \in LivingHooks
      PROVE  h \in RetiredAt(more, v) <=> h \in RetiredAt(rows, v)
  <2>1. ASSUME h \in RetiredAt(more, v) PROVE h \in RetiredAt(rows, v)
    BY <2>1, <1>1, <1>3, Zenon DEF RetiredAt
  <2>2. ASSUME h \in RetiredAt(rows, v) PROVE h \in RetiredAt(more, v)
    BY <2>2, <1>1, <1>3, Zenon DEF RetiredAt
  <2> QED
    BY <2>1, <2>2
<1> QED
  BY <1>4 DEF more, RetiredAt

\* A ruling clears no drop between two versions its author could have seen: it takes
\* effect after the newest of them (retirement.py).
THEOREM DropsAreNotRuledAway == HistorySpec => RulingClearsNoDrop
<1>1. ASSUME HistoryInv, NEW c \in Clerks, AppendRuling(c),
             NEW u \in clerk[c].saw, NEW v \in clerk[c].saw
      PROVE  Dropped(u, v)' = Dropped(u, v)
  <2>1. clerk[c] \in [pc : {"decided"}, kind : RulingKind, hook : LivingHooks, decided : Nat,
                      saw : SUBSET Versions]
    BY <1>1 DEF AppendRuling, HistoryInv, HistoryTypes, ClerkStates, Waiting
  <2>2. v \in Nat /\ v <= clerk[c].decided
    BY <1>1, <2>1, VersionsAreNumbers DEF HistoryInv, RulingComesAfter
  <2>3. RulingRow(c) \in RetirementRow /\ RulingRow(c).from = clerk[c].decided + 1
    BY <2>1 DEF RulingRow, RetirementRow, EffectiveFrom
  <2>4. /\ v \in Nat /\ v < RulingRow(c).from /\ RulingRow(c) \in RetirementRow
        /\ retirements \in Seq(RetirementRow)
    BY <1>1, <2>1, <2>2, <2>3 DEF HistoryInv, HistoryTypes
  <2>5. retirements' = Append(retirements, RulingRow(c)) /\ UNCHANGED record
    BY <1>1 DEF AppendRuling
  <2>6. RetiredAt(retirements', v) = RetiredAt(retirements, v)
    BY <2>4, <2>5, LaterRowChangesNothing
  <2> QED
    BY <2>5, <2>6 DEF Dropped, Judged, HookVerdict, Expected
<1> DEFINE Step ==
             \A c \in Clerks : AppendRuling(c) =>
               \A u, v \in clerk[c].saw : u < v /\ Comparable(u, v) =>
                 Dropped(u, v) \subseteq Dropped(u, v)'
<1>2. HistoryInv => [Step]_historyVars
  BY <1>1
<1> QED
  BY <1>2, HistoryKeepsInv, PTL DEF HistorySpec, RulingClearsNoDrop

\* When the roster says that a hook has been down since a version, the sweep reports the
\* drop on the port right after the last good one, unless that port cannot be read or a
\* ruling took the hook out from there (expectation.py).
THEOREM StandingDropSwept == HistorySpec => []StandingDropIsSwept
<1>1. ASSUME HistoryInv, NEW h \in LivingHooks, DroppedAt(h) # NoVersion
      PROVE  LET good == Newest(ReadyOn(h))
                 next == Oldest({v \in OnRecord : v > good})
             IN  \/ ~Readable(next)
                 \/ next \in SweepReports(h)
                 \/ h \in RetiredAt(retirements, next)
  <2> DEFINE good == Newest(ReadyOn(h))
             later == {v \in OnRecord : v > good}
             next == Oldest(later)
  <2>1. PICK n \in Nat : \A v \in OnRecord : v <= n
    BY <1>1 DEF HistoryInv, SeriesIsBounded
  <2>2. OnRecord \subseteq Nat /\ OnRecord \subseteq Versions
    BY VersionsAreNumbers DEF OnRecord
  <2>3. ReadyOn(h) # {} /\ later # {}
    BY <1>1 DEF DroppedAt, AssessedOn
  <2>4. good \in ReadyOn(h) /\ \A v \in ReadyOn(h) : v <= good
    BY <2>1, <2>2, <2>3, NewestIsLast DEF ReadyOn
  <2>5. next \in later /\ \A v \in later : next <= v
    BY <2>2, <2>3, OldestIsFirst
  <2>6. good \in OnRecord /\ Readable(good) /\ h \in record[good].ready /\ good \in Nat
    BY <2>2, <2>4 DEF ReadyOn
  <2> HIDE DEF good
  <2>7. next \in OnRecord /\ good < next /\ next \in Nat
    BY <2>2, <2>5, <2>6
  <2>8. \A u \in OnRecord : u < next => u <= good
    <3> SUFFICES ASSUME NEW u \in OnRecord, u < next, ~(u <= good) PROVE FALSE
      OBVIOUS
    <3>1. u \in later
      BY <2>2, <2>6
    <3>2. next <= u
      BY <3>1, <2>5
    <3> HIDE DEF next
    <3> QED
      BY <3>2, <2>2, <2>7
  <2> HIDE DEF next, later
  <2>9. good = Newest(Before(next)) /\ Before(next) # {}
    <3>1. good \in Before(next) /\ \A u \in Before(next) : u \in Nat /\ u <= good
      BY <2>2, <2>6, <2>7, <2>8 DEF Before
    <3>2. Newest(Before(next)) \in Before(next) /\ \A u \in Before(next) : u <= Newest(Before(next))
      BY <3>1, <2>6, NewestIsLast
    <3> QED
      BY <3>1, <3>2
  <2>10. ASSUME Readable(next), h \notin RetiredAt(retirements, next)
         PROVE  next \in SweepReports(h)
    <3>1. <<good, next>> \in SweptPairs
      BY <2>6, <2>7, <2>9, <2>10 DEF SweptPairs, Comparable
    <3>2. h \notin record[next].ready
      <4> SUFFICES ASSUME h \in record[next].ready PROVE FALSE
        OBVIOUS
      <4>1. next \in ReadyOn(h)
        BY <2>7, <2>10 DEF ReadyOn
      <4> QED
        BY <4>1, <2>4, <2>6, <2>7
    <3>3. h \in Dropped(good, next)
      BY <2>6, <2>10, <3>2 DEF Dropped, Judged, HookVerdict, Expected
    <3> QED
      BY <3>1, <3>3 DEF SweepReports
  <2> QED
    BY <2>10 DEF good, next, later
<1>2. HistoryInv => StandingDropIsSwept
  BY <1>1 DEF StandingDropIsSwept
<1> QED
  BY <1>2, HistoryKeepsInv, PTL

-----------------------------------------------------------------------------
(*****************************************************************************)
(* PortRunbook: the rows of a session are of what was walked.                *)
(*****************************************************************************)

\* The assumption on the constants, as the numbers the steps use.
LEMMA BookConstants ==
  /\ PhoneWalks \in Nat /\ MaxRequests \in Nat
  /\ WalkSessions = 1..WalkLength /\ WalkLength \in Nat
  BY RunbookAssumption DEF RunbookAssumption, WalkSessions

\* A function on an initial interval of the numbers is a sequence.
LEMMA Listed ==
  ASSUME NEW n \in Nat, NEW S, NEW f \in [1..n -> S]
  PROVE  f \in Seq(S) /\ Len(f) = n
<1>1. f \in Seq(S)
  BY SeqDef
<1> QED
  BY <1>1, LenProperties

-----------------------------------------------------------------------------
(* The list of steps.                                                       *)

StepsListed ==
  /\ Len(PortSteps) = 11 + 2 * PhoneWalks /\ DOMAIN PortSteps = 1..(11 + 2 * PhoneWalks)
  /\ PortSteps[1] = <<"index", 0>> /\ PortSteps[2] = <<"watch", 0>>
  /\ PortSteps[3] = <<"observe-build", 0>> /\ PortSteps[4] = <<"sign", 0>>
  /\ PortSteps[5] = <<"install", 0>> /\ PortSteps[6] = <<"warm", 0>>
  /\ \A w \in EachWalk : PortSteps[6 + w] = <<"walk", w>>
       /\ PortSteps[6 + PhoneWalks + w] = <<"record", w>>
  /\ \A i \in (7 + 2 * PhoneWalks)..(11 + 2 * PhoneWalks) :
       PortSteps[i][1] \in {"assess", "raise-gate", "ship-build", "ship-sign", "ship-install"}

StepNames == {"index", "watch", "observe-build", "sign", "install", "warm", "walk", "record",
              "assess", "raise-gate", "ship-build", "ship-sign", "ship-install"}

\* The list is four lists in a row.
LEMMA StepsAreListed == StepsListed
<1>1. PhoneWalks \in Nat /\ EachWalk = 1..PhoneWalks
  BY BookConstants DEF EachWalk
<1>2. PICK before : before = <<<<"index", 0>>, <<"watch", 0>>, <<"observe-build", 0>>,
                               <<"sign", 0>>, <<"install", 0>>, <<"warm", 0>>>>
  OBVIOUS
<1>3. PICK walks : walks = [w \in EachWalk |-> <<"walk", w>>]
  OBVIOUS
<1>4. PICK records : records = [w \in EachWalk |-> <<"record", w>>]
  OBVIOUS
<1>5. PICK after : after = <<<<"assess", 0>>, <<"raise-gate", 0>>, <<"ship-build", 0>>,
                             <<"ship-sign", 0>>, <<"ship-install", 0>>>>
  OBVIOUS
<1>6. PICK Step : Step = StepNames \X Nat
  OBVIOUS
<1>7. PortSteps = before \o walks \o records \o after
  BY <1>2, <1>3, <1>4, <1>5 DEF PortSteps
<1>8. before \in Seq(Step) /\ Len(before) = 6 /\ after \in Seq(Step) /\ Len(after) = 5
  BY <1>2, <1>5, <1>6 DEF StepNames
<1>9. walks \in [1..PhoneWalks -> Step] /\ records \in [1..PhoneWalks -> Step]
  BY <1>1, <1>3, <1>4, <1>6 DEF StepNames
<1>10. walks \in Seq(Step) /\ Len(walks) = PhoneWalks /\ records \in Seq(Step)
         /\ Len(records) = PhoneWalks
  BY <1>1, <1>9, Listed
<1>11. /\ PortSteps \in Seq(Step) /\ Len(PortSteps) = 6 + PhoneWalks + PhoneWalks + 5
       /\ \A i \in 1..6 : PortSteps[i] = before[i]
       /\ \A i \in 1..PhoneWalks : PortSteps[6 + i] = walks[i]
       /\ \A i \in 1..PhoneWalks : PortSteps[6 + PhoneWalks + i] = records[i]
       /\ \A i \in 1..5 : PortSteps[6 + PhoneWalks + PhoneWalks + i] = after[i]
  <2>1. before \in Seq(Step) /\ walks \in Seq(Step) /\ records \in Seq(Step) /\ after \in Seq(Step)
    BY <1>8, <1>10
  <2>2. PortSteps \in Seq(Step)
    BY <2>1, <1>7
  <2>7. Len(PortSteps) = Len(before) + Len(walks) + Len(records) + Len(after)
    <3>1. Len(before \o walks \o records \o after) = Len(before) + Len(walks) + Len(records) +
            Len(after)
      BY <2>1
    <3> QED
      BY <3>1, <1>7
  <2>3. \A i \in 1..Len(before) : PortSteps[i] = before[i]
    BY <2>1, <1>7
  <2>4. \A i \in 1..Len(walks) : PortSteps[Len(before) + i] = walks[i]
    BY <2>1, <1>7
  <2>5. \A i \in 1..Len(records) : PortSteps[Len(before) + Len(walks) + i] = records[i]
    BY <2>1, <1>7
  <2>6. \A i \in 1..Len(after) : PortSteps[Len(before) + Len(walks) + Len(records) + i] = after[i]
    BY <2>1, <1>7
  <2> QED
    BY <1>1, <1>8, <1>10, <2>2, <2>3, <2>4, <2>5, <2>6, <2>7
<1>12. \A w \in EachWalk : PortSteps[6 + w] = <<"walk", w>>
         /\ PortSteps[6 + PhoneWalks + w] = <<"record", w>>
  BY <1>1, <1>3, <1>4, <1>11
<1>13. \A i \in 1..5 : after[i][1] \in {"assess", "raise-gate", "ship-build", "ship-sign",
       "ship-install"}
  BY <1>5
<1>14. \A i \in (7 + 2 * PhoneWalks)..(11 + 2 * PhoneWalks) :
         PortSteps[i][1] \in {"assess", "raise-gate", "ship-build", "ship-sign", "ship-install"}
  <2> TAKE i \in (7 + 2 * PhoneWalks)..(11 + 2 * PhoneWalks)
  <2>1. i - 6 - PhoneWalks - PhoneWalks \in 1..5
          /\ i = 6 + PhoneWalks + PhoneWalks + (i - 6 - PhoneWalks - PhoneWalks)
    BY <1>1
  <2>2. PortSteps[i] = after[i - 6 - PhoneWalks - PhoneWalks]
    BY <2>1, <1>11
  <2> QED
    BY <2>1, <2>2, <1>13
<1>15. /\ before[1] = <<"index", 0>> /\ before[2] = <<"watch", 0>>
       /\ before[3] = <<"observe-build", 0>> /\ before[4] = <<"sign", 0>>
       /\ before[5] = <<"install", 0>> /\ before[6] = <<"warm", 0>>
  BY <1>2
<1>16. Len(PortSteps) = 11 + 2 * PhoneWalks /\ DOMAIN PortSteps = 1..(11 + 2 * PhoneWalks)
  BY <1>1, <1>11
<1> QED
  BY <1>11, <1>12, <1>14, <1>15, <1>16 DEF StepsListed

\* The place of a step in the list is told by its name.
StepPlaces ==
  \A i \in DOMAIN PortSteps :
    /\ PortSteps[i][1] = "observe-build" => i = 3
    /\ PortSteps[i][1] = "sign" => i = 4
    /\ PortSteps[i][1] = "install" => i = 5
    /\ PortSteps[i][1] = "walk" => PortSteps[i][2] \in EachWalk /\ i = 6 + PortSteps[i][2]
    /\ PortSteps[i][1] = "record" => PortSteps[i][2] \in EachWalk
         /\ i = 6 + PhoneWalks + PortSteps[i][2]
    /\ PortSteps[i][1] = "ship-install" => i > 6 + PhoneWalks

\* The place of a step says which it is.
LEMMA StepsArePlaced == StepPlaces
<1> SUFFICES ASSUME NEW i \in DOMAIN PortSteps
             PROVE  /\ PortSteps[i][1] = "observe-build" => i = 3
                    /\ PortSteps[i][1] = "sign" => i = 4
                    /\ PortSteps[i][1] = "install" => i = 5
                    /\ PortSteps[i][1] = "walk" => PortSteps[i][2] \in EachWalk
                         /\ i = 6 + PortSteps[i][2]
                    /\ PortSteps[i][1] = "record" => PortSteps[i][2] \in EachWalk
                         /\ i = 6 + PhoneWalks + PortSteps[i][2]
                    /\ PortSteps[i][1] = "ship-install" => i > 6 + PhoneWalks
  BY DEF StepPlaces
<1>1. i \in 1..(11 + 2 * PhoneWalks) /\ PhoneWalks \in Nat
  BY StepsAreListed, BookConstants DEF StepsListed
<1>2. CASE i \in 1..6
  <2>1. i = 1 \/ i = 2 \/ i = 3 \/ i = 4 \/ i = 5 \/ i = 6
    BY <1>2
  <2> QED
    BY <2>1, StepsAreListed DEF StepsListed
<1>3. CASE i \in 7..(6 + PhoneWalks)
  <2>1. i - 6 \in EachWalk /\ i = 6 + (i - 6)
    BY <1>1, <1>3 DEF EachWalk
  <2>2. PortSteps[i] = <<"walk", i - 6>>
    BY <2>1, StepsAreListed DEF StepsListed
  <2> QED
    BY <2>1, <2>2
<1>4. CASE i \in (7 + PhoneWalks)..(6 + 2 * PhoneWalks)
  <2>1. i - 6 - PhoneWalks \in EachWalk /\ i = 6 + PhoneWalks + (i - 6 - PhoneWalks)
    BY <1>1, <1>4 DEF EachWalk
  <2>2. PortSteps[i] = <<"record", i - 6 - PhoneWalks>>
    BY <2>1, StepsAreListed DEF StepsListed
  <2> QED
    BY <2>1, <2>2
<1>5. CASE i \in (7 + 2 * PhoneWalks)..(11 + 2 * PhoneWalks)
  <2>1. PortSteps[i][1] \in {"assess", "raise-gate", "ship-build", "ship-sign", "ship-install"}
    BY <1>5, StepsAreListed DEF StepsListed
  <2>2. i > 6 + PhoneWalks
    BY <1>1, <1>5
  <2> QED
    BY <2>1, <2>2
<1> QED
  BY <1>1, <1>2, <1>3, <1>4, <1>5

\* The run stands at the first step that does not pass, with all before it passed over.
ReachesRight ==
  \A i \in 1..Finished :
    /\ Reaches(i) \in i..Finished
    /\ Reaches(i) = Finished \/ ~Passes(Reaches(i))
    /\ \A k \in i..(Reaches(i) - 1) : Passes(k)

\* Reach finds the first step that is not done.
LEMMA ReachesFirst == ReachesRight
<1> SUFFICES ASSUME NEW i \in 1..Finished
             PROVE  /\ Reaches(i) \in i..Finished
                    /\ Reaches(i) = Finished \/ ~Passes(Reaches(i))
                    /\ \A k \in i..(Reaches(i) - 1) : Passes(k)
  BY DEF ReachesRight
<1> DEFINE S == {j \in i..Finished : j = Finished \/ ~Passes(j)}
<1>1. Finished \in Nat /\ i \in Nat /\ i <= Finished
  BY StepsAreListed, BookConstants DEF StepsListed, Finished
<1>2. S \subseteq Nat /\ Finished \in S
  BY <1>1
<1>3. PICK m \in S : \A k \in S : m <= k
  BY <1>2, Smallest
<1>4. \A k \in i..(m - 1) : Passes(k)
  <2> SUFFICES ASSUME NEW k \in i..(m - 1), ~Passes(k) PROVE FALSE
    OBVIOUS
  <2>1. k \in i..Finished /\ k < m
    BY <1>1, <1>3
  <2>2. m <= k
    BY <2>1, <1>3
  <2> QED
    BY <2>1, <2>2, <1>1, <1>3
<1>5. \E j \in i..Finished : (j = Finished \/ ~Passes(j)) /\ \A k \in i..(j - 1) : Passes(k)
  BY <1>3, <1>4
<1> QED
  BY <1>5, Zenon DEF Reaches

-----------------------------------------------------------------------------
(* What a log tells.                                                        *)

\* A count comes right after the statement of the toggles it was made under, unless the
\* buffer dropped that statement.
LogShape(log) ==
    \E n \in Nat : /\ DOMAIN log = 1..n
                   /\ \A i \in 2..n : log[i].says = "count" =>
                        log[i - 1].says = "toggles" /\ log[i - 1].under = log[i].under

LogLine == [says : {"toggles", "count"}, under : ToggleStates]

\* A log that a session may leave has the shape of one.
LEMMA LogsHaveShape ==
  ASSUME NEW build, NEW log \in LogsOf(build)
  PROVE  LogShape(log)
<1>1. CASE ~build.observes
  BY <1>1 DEF LogsOf, LogShape
<1>2. CASE build.observes
  <2>0. PICK n \in 0..MaxRequests :
          \E s \in [1..n -> ToggleStates] :
            \E k \in 1..(2 * Len(s) + 1) : log = SubSeq(RequestLog(s), k, 2 * Len(s))
    BY <1>2 DEF LogsOf
  <2>1. PICK r \in [1..n -> ToggleStates] :
          \E k \in 1..(2 * Len(r) + 1) : log = SubSeq(RequestLog(r), k, 2 * Len(r))
    BY <2>0
  <2>2. n \in Nat
    BY BookConstants
  <2>3. r \in Seq(ToggleStates) /\ Len(r) = n
    BY <2>2, Listed
  <2>4. PICK k \in 1..(2 * n + 1) : log = SubSeq(RequestLog(r), k, 2 * n)
    BY <2>1, <2>3
  <2>5. /\ RequestLog(r) = [i \in 1..(2 * n) |->
            [says |-> IF i % 2 = 1 THEN "toggles" ELSE "count", under |-> r[(i + 1) \div 2]]]
        /\ 2 * n \in Nat
    BY <2>2, <2>3 DEF RequestLog
  <2>6. \A i \in 1..(2 * n) : (i + 1) \div 2 \in 1..n
    BY <2>2
  <2>7. RequestLog(r) \in [1..(2 * n) -> LogLine]
    BY <2>5, <2>6 DEF LogLine
  <2>8. RequestLog(r) \in Seq(LogLine) /\ Len(RequestLog(r)) = 2 * n
    BY <2>5, <2>7, Listed
  <2>9. DOMAIN log = 1..(2 * n - k + 1) /\ 2 * n - k + 1 \in Nat
        /\ \A i \in 1..(2 * n - k + 1) : log[i] = RequestLog(r)[k + i - 1]
    BY <2>2, <2>4, <2>8
  <2>10. ASSUME NEW i \in 2..(2 * n - k + 1), log[i].says = "count"
         PROVE  log[i - 1].says = "toggles" /\ log[i - 1].under = log[i].under
    <3>1. PICK j \in Int : j = k + i - 1 /\ j \in 2..(2 * n) /\ k + (i - 1) - 1 = j - 1
      BY <2>2
    <3>2. log[i] = RequestLog(r)[j] /\ log[i - 1] = RequestLog(r)[j - 1]
      BY <2>2, <2>9, <3>1
    <3>3. j % 2 # 1
      BY <2>5, <2>10, <3>1, <3>2
    <3>4. (j - 1) % 2 = 1 /\ ((j - 1) + 1) \div 2 = (j + 1) \div 2
      BY <3>1, <3>3
    <3>5. j \in 1..(2 * n) /\ j - 1 \in 1..(2 * n)
      BY <2>2, <3>1
    <3>6. RequestLog(r)[j].under = r[(j + 1) \div 2]
      BY <2>5, <3>5
    <3>7. /\ RequestLog(r)[j - 1].under = r[((j - 1) + 1) \div 2]
          /\ RequestLog(r)[j - 1].says = "toggles"
      BY <2>5, <3>4, <3>5
    <3> QED
      BY <3>2, <3>4, <3>6, <3>7
  <2> QED
    BY <2>9, <2>10 DEF LogShape
<1> QED
  BY <1>1, <1>2

\* What parse accepts has one state of the toggles, and every count was made under it.
LEMMA ParsedIsUnderOne ==
  ASSUME NEW log, LogShape(log), Parseable(log),
         NEW i \in DOMAIN log, log[i].says = "count"
  PROVE  log # <<>> /\ log[i].under = CHOOSE t \in TogglesStated(log) : TRUE
<1>1. PICK n \in Nat : /\ DOMAIN log = 1..n
                       /\ \A j \in 2..n : log[j].says = "count" =>
                            log[j - 1].says = "toggles" /\ log[j - 1].under = log[j].under
  BY DEF LogShape
<1>2. i \in 2..n
  <2>1. PICK j \in 1..(i - 1) : TRUE
    BY DEF Parseable
  <2> QED
    BY <1>1, <2>1
<1>3. i - 1 \in DOMAIN log /\ log[i - 1].says = "toggles" /\ log[i - 1].under = log[i].under
  BY <1>1, <1>2
<1>4. log[i].under \in TogglesStated(log)
  BY <1>3 DEF TogglesStated
<1> DEFINE D == {j \in DOMAIN log : log[j].says = "toggles"}
           f == [j \in D |-> log[j].under]
<1>5. IsFiniteSet(D)
  <2>1. IsFiniteSet(DOMAIN log)
    BY <1>1, FS_Interval
  <2> QED
    BY <2>1, FS_Subset
<1>6. f \in Surjection(D, TogglesStated(log))
  BY DEF Surjection, TogglesStated
<1>7. IsFiniteSet(TogglesStated(log))
  <2> HIDE DEF D, f
  <2> QED
    BY <1>5, <1>6, FS_Surjection
<1>8. \A t \in TogglesStated(log) : t = log[i].under
  <2> SUFFICES ASSUME NEW t \in TogglesStated(log), t # log[i].under PROVE FALSE
    OBVIOUS
  <2> DEFINE one == TogglesStated(log) \ {t}
  <2>1. /\ IsFiniteSet(one) /\ Cardinality(one) = Cardinality(TogglesStated(log)) - 1
    BY <1>7, FS_RemoveElement
  <2>2. Cardinality(TogglesStated(log)) <= 1 /\ Cardinality(TogglesStated(log)) \in Nat
    BY <1>7, FS_CardinalityType DEF Parseable
  <2>3. Cardinality(one) \in Nat
    BY <2>1, FS_CardinalityType
  <2>4. Cardinality(one) = 0
    BY <2>1, <2>2, <2>3
  <2>5. one = {}
    BY <2>1, <2>4, FS_EmptySet
  <2> QED
    BY <1>4, <2>5
<1>9. log # <<>>
  BY <1>1, <1>2
<1> QED
  BY <1>4, <1>8, <1>9

-----------------------------------------------------------------------------
(* The invariant.                                                           *)

\* What the steps already passed over have made true.
At(i) ==
    /\ i >= 4 => outDir.apk # NoBuild
    /\ i >= 5 => outDir.signed # NoBuild
    /\ i \in 6..(6 + PhoneWalks) => phone = outDir.signed
    /\ \A w \in EachWalk : i > 6 + w => Walked(w) = WalkSessions

RunStands ==
    /\ runAt \in 0..Finished
    /\ runAt # Stopped => At(runAt)
    /\ runAt \in DOMAIN PortSteps => ~Passes(runAt)

BookTypes ==
    /\ outDir = [apk |-> outDir.apk, signed |-> outDir.signed, warm |-> outDir.warm,
                 gate |-> outDir.gate]
    /\ DOMAIN captures = EachWalk /\ DOMAIN sessionRows = EachWalk
    /\ \A w \in EachWalk : DOMAIN captures[w] = WalkSessions /\ DOMAIN sessionRows[w] = WalkSessions

\* A build that observes and was made by now.
Observing(build) == build.observes /\ build.number \in 1..built

\* The run directory has at most one build, which observes, and what is signed is that.
OutDirShape ==
    /\ built \in Nat
    /\ outDir.apk # NoBuild => Observing(outDir.apk)
    /\ outDir.signed \in {NoBuild, outDir.apk}

\* A capture that was not discarded is of the build of this run directory, or was taken
\* of one that observed before this one was made.
CapturesAreOfOurBuilds ==
    \A w \in EachWalk, s \in WalkSessions : \A c \in captures[w][s] :
        /\ Observing(c.build) /\ LogShape(c.log) /\ c.after \in 0..built
        /\ outDir.apk \in {NoBuild, c.build} \/ c.after < outDir.apk.number

BookInv ==
    BookTypes /\ RunStands /\ OutDirShape /\ CapturesAreOfOurBuilds /\ RowsSayWhatWasWalked

\* Passing over a step establishes what it is for.
Onward ==
  \A i, j \in 1..Finished :
    At(i) /\ i <= j /\ (\A k \in i..(j - 1) : Passes(k)) => At(j)

\* The step that a run passes has left what later steps rely on.
LEMMA PassingEstablishes == Onward
<1> SUFFICES ASSUME NEW i \in 1..Finished, NEW j \in 1..Finished,
                    At(i), i <= j, \A k \in i..(j - 1) : Passes(k)
             PROVE  At(j)
  BY DEF Onward
<1>0. Finished = 12 + 2 * PhoneWalks /\ PhoneWalks \in Nat /\ i \in Nat /\ j \in Nat
  BY StepsAreListed, BookConstants DEF StepsListed, Finished
<1>1. j >= 4 => outDir.apk # NoBuild
  <2>1. CASE i >= 4
    BY <2>1 DEF At
  <2>2. CASE i < 4 /\ j >= 4
    <3>1. Passes(3)
      BY <1>0, <2>2
    <3> QED
      BY <3>1, StepsAreListed DEF Passes, Done, StepsListed
  <2> QED
    BY <1>0, <2>1, <2>2
<1>2. j >= 5 => outDir.signed # NoBuild
  <2>1. CASE i >= 5
    BY <2>1 DEF At
  <2>2. CASE i < 5 /\ j >= 5
    <3>1. Passes(4)
      BY <1>0, <2>2
    <3> QED
      BY <3>1, StepsAreListed DEF Passes, Done, StepsListed
  <2> QED
    BY <1>0, <2>1, <2>2
<1>3. j \in 6..(6 + PhoneWalks) => phone = outDir.signed
  <2>1. CASE i >= 6 /\ j \in 6..(6 + PhoneWalks)
    <3>1. i \in 6..(6 + PhoneWalks)
      BY <1>0, <2>1
    <3> QED
      BY <3>1 DEF At
  <2>2. CASE i < 6 /\ j \in 6..(6 + PhoneWalks)
    <3>1. Passes(5)
      BY <1>0, <2>2
    <3> QED
      BY <3>1, StepsAreListed DEF Passes, Done, StepsListed, OnDeviceIs
  <2> QED
    BY <1>0, <2>1, <2>2
<1>4. ASSUME NEW w \in EachWalk, j > 6 + w
      PROVE  Walked(w) = WalkSessions
  <2>0. w \in 1..PhoneWalks
    BY DEF EachWalk
  <2>1. CASE i > 6 + w
    BY <2>1 DEF At
  <2>2. CASE i <= 6 + w
    <3>1. Passes(6 + w)
      BY <1>0, <1>4, <2>0, <2>2
    <3> QED
      BY <3>1, StepsAreListed DEF Passes, Done, StepsListed
  <2> QED
    BY <1>0, <2>0, <2>1, <2>2
<1> QED
  BY <1>1, <1>2, <1>3, <1>4 DEF At

\* A run that goes on from step i, where At(i) holds now, stands right.
LEMMA GoesOnRight ==
  ASSUME NEW i \in 1..Finished, At(i)', runAt' = Reaches(i)'
  PROVE  RunStands'
<1>1. ReachesRight' /\ Onward'
  BY ReachesFirst, PassingEstablishes, PTL
<1>2. /\ Reaches(i)' \in i..Finished
      /\ Reaches(i)' = Finished \/ ~Passes(Reaches(i))'
      /\ \A k \in i..(Reaches(i)' - 1) : Passes(k)'
  BY <1>1 DEF ReachesRight
<1>3. Finished \in Nat /\ i \in Nat /\ i # 0 /\ DOMAIN PortSteps = 1..(Finished - 1)
  BY StepsAreListed, BookConstants DEF StepsListed, Finished
<1>4. PICK j \in 1..Finished : j = Reaches(i)' /\ i <= j
  BY <1>2, <1>3
<1>5. At(j)'
  BY <1>1, <1>2, <1>3, <1>4 DEF Onward
<1>6. j \in DOMAIN PortSteps => ~Passes(j)'
  BY <1>2, <1>3, <1>4
<1> QED
  BY <1>3, <1>4, <1>5, <1>6 DEF RunStands, Stopped

\* The runbook starts with nothing built, walked or assessed.
LEMMA BookStarts == RunbookInit => BookInv
<1> SUFFICES ASSUME RunbookInit PROVE BookInv
  OBVIOUS
<1>1. BookTypes /\ OutDirShape /\ CapturesAreOfOurBuilds /\ RowsSayWhatWasWalked
  BY DEF RunbookInit, EmptyOut, NoneOfAny, BookTypes, OutDirShape, CapturesAreOfOurBuilds,
         RowsSayWhatWasWalked
<1>2. Finished \in Nat /\ DOMAIN PortSteps = 1..(Finished - 1)
  BY StepsAreListed, BookConstants DEF StepsListed, Finished
<1>3. RunStands
  BY <1>2 DEF RunbookInit, RunStands, Stopped
<1> QED
  BY <1>1, <1>3 DEF BookInv

\* What neither touches the captures, their rows and the observing build leaves them right.
LEMMA RecordUntouched ==
  ASSUME BookInv, UNCHANGED <<captures, sessionRows>>, built' \in {built, built + 1},
         outDir' = [apk |-> outDir.apk, signed |-> outDir.signed, warm |-> outDir'.warm,
                    gate |-> outDir'.gate]
  PROVE  BookTypes' /\ OutDirShape' /\ CapturesAreOfOurBuilds' /\ RowsSayWhatWasWalked'
<1>1. outDir'.apk = outDir.apk /\ outDir'.signed = outDir.signed
  OBVIOUS
<1>2. BookTypes'
  BY DEF BookInv, BookTypes
<1>3. built' \in Nat /\ 1..built \subseteq 1..built'
  BY DEF BookInv, OutDirShape
<1>4. OutDirShape'
  BY <1>1, <1>3 DEF BookInv, OutDirShape, Observing
<1>5. CapturesAreOfOurBuilds'
  BY <1>1, <1>3 DEF BookInv, CapturesAreOfOurBuilds, Observing
<1>6. RowsSayWhatWasWalked'
  BY DEF BookInv, RowsSayWhatWasWalked
<1> QED
  BY <1>2, <1>4, <1>5, <1>6

\* Where the step at hand stands in the list, and that it was not done.
LEMMA AtHand ==
  ASSUME BookInv, NEW name, Executes(name)
  PROVE  /\ runAt \in 1..(Finished - 1) /\ Finished \in Nat
         /\ At(runAt) /\ ~Done(name, TheWalk)
<1>1. Finished \in Nat /\ DOMAIN PortSteps = 1..(Finished - 1)
  BY StepsAreListed, BookConstants DEF StepsListed, Finished
<1>2. runAt \in 1..(Finished - 1) /\ runAt # Stopped
  BY <1>1 DEF Executes, Stopped
<1>3. At(runAt) /\ ~Passes(runAt)
  BY <1>1, <1>2 DEF BookInv, RunStands
<1> QED
  BY <1>1, <1>2, <1>3 DEF Executes, Passes, TheWalk

\* A step that keeps what the steps before it established, and goes on.
LEMMA StepGoesOn ==
  ASSUME BookInv, NEW name, Executes(name), GoesOn, At(runAt) => \A i \in {runAt} : At(i)'
  PROVE  RunStands'
<1>1. PICK i \in {runAt} : runAt' = Reaches(i)'
  BY DEF GoesOn
<1>2. i \in 1..Finished
  BY <1>1, AtHand
<1>3. At(i)'
  BY <1>1, AtHand
<1> QED
  BY <1>1, <1>2, <1>3, GoesOnRight

\* A run that has stopped relies on no earlier step.
LEMMA HaltStands == ASSUME runAt' = Stopped PROVE RunStands'
<1>1. Finished \in Nat /\ DOMAIN PortSteps = 1..(Finished - 1)
  BY StepsAreListed, BookConstants DEF StepsListed, Finished
<1> QED
  BY <1>1 DEF RunStands, Stopped

\* A step that changes neither the observing build, the phone nor a capture.
LEMMA StandsStill ==
  ASSUME BookInv, NEW name, Executes(name), GoesOn,
         outDir'.apk = outDir.apk, outDir'.signed = outDir.signed, UNCHANGED <<phone, captures>>
  PROVE  RunStands'
<1>1. ASSUME NEW i \in {runAt}, At(i) PROVE At(i)'
  BY <1>1 DEF At, Walked
<1> QED
  BY <1>1, StepGoesOn

\* A step that leaves the observing build, the phone, the captures and the rows alone.
LEMMA QuietStep ==
  ASSUME BookInv, NEW name, Executes(name),
         outDir' = outDir, UNCHANGED <<captures, sessionRows>>, built' \in {built, built + 1},
         (UNCHANGED phone /\ GoesOn) \/ Halts
  PROVE  BookInv'
<1>1. BookTypes' /\ OutDirShape' /\ CapturesAreOfOurBuilds' /\ RowsSayWhatWasWalked'
  BY RecordUntouched DEF BookInv, BookTypes
<1>2. CASE UNCHANGED phone /\ GoesOn
  BY <1>1, <1>2, StandsStill DEF BookInv
<1>3. CASE Halts
  BY <1>1, <1>3, HaltStands DEF BookInv, Halts
<1> QED
  BY <1>2, <1>3

\* The marker files are beside what the invariant is about.
LEMMA MarkerKeeps ==
  ASSUME BookInv, WarmPhone \/ RaiseGate
  PROVE  BookInv'
<1>1. PICK name : /\ Executes(name) /\ GoesOn
                  /\ UNCHANGED <<phone, captures, sessionRows, built>>
                  /\ outDir' = [outDir EXCEPT !.warm = TRUE]
                       \/ outDir' = [outDir EXCEPT !.gate = TRUE]
  BY DEF WarmPhone, RaiseGate
<1>2. outDir' = [apk |-> outDir.apk, signed |-> outDir.signed, warm |-> outDir'.warm,
                 gate |-> outDir'.gate]
  BY <1>1 DEF BookInv, BookTypes
<1>3. outDir'.apk = outDir.apk /\ outDir'.signed = outDir.signed
  BY <1>2
<1> QED
  BY <1>1, <1>2, <1>3, RecordUntouched, StandsStill DEF BookInv

\* A new observing build is made after every capture there is.
LEMMA ObserveBuildKeeps == ASSUME BookInv, ObserveBuild PROVE BookInv'
<1>1. Executes("observe-build") /\ UNCHANGED <<phone, captures, sessionRows>>
  BY DEF ObserveBuild
<1>2. \/ /\ built' = built + 1 /\ GoesOn
         /\ outDir' = [apk |-> [number |-> built', observes |-> TRUE], signed |-> NoBuild,
                       warm |-> FALSE, gate |-> FALSE]
      \/ /\ built' = built /\ Halts
         /\ outDir' = [apk |-> NoBuild, signed |-> NoBuild, warm |-> FALSE, gate |-> FALSE]
  BY DEF ObserveBuild, EmptyOut
<1>3. built \in Nat
  BY DEF BookInv, OutDirShape
<1>4. BookTypes'
  BY <1>1, <1>2 DEF BookInv, BookTypes
<1>5. OutDirShape'
  BY <1>2, <1>3 DEF OutDirShape, Observing
<1>6. CapturesAreOfOurBuilds'
  <2> SUFFICES ASSUME NEW w \in EachWalk, NEW s \in WalkSessions, NEW c \in captures[w][s]
               PROVE  /\ Observing(c.build)' /\ LogShape(c.log) /\ c.after \in 0..built'
                      /\ \/ outDir'.apk \in {NoBuild, c.build}
                         \/ c.after < outDir'.apk.number
    BY <1>1 DEF CapturesAreOfOurBuilds
  <2>1. Observing(c.build) /\ LogShape(c.log) /\ c.after \in 0..built
    BY DEF BookInv, CapturesAreOfOurBuilds
  <2>2. c.after \in Nat /\ c.after < built + 1
    BY <1>3, <2>1
  <2>3. outDir'.apk = NoBuild \/ (outDir'.apk.number = built + 1 /\ built' = built + 1)
    BY <1>2
  <2> QED
    BY <1>2, <1>3, <2>1, <2>2, <2>3 DEF Observing
<1>7. RowsSayWhatWasWalked'
  BY <1>1 DEF BookInv, RowsSayWhatWasWalked
<1>8. CASE GoesOn
  <2>1. runAt = 3
    BY <1>1, StepsArePlaced DEF StepPlaces, Executes
  <2>2. ASSUME NEW i \in {runAt} PROVE At(i)'
    BY <2>1, BookConstants DEF At, EachWalk
  <2>3. RunStands'
    BY <1>1, <1>8, <2>2, StepGoesOn
  <2> QED
    BY <1>4, <1>5, <1>6, <1>7, <2>3 DEF BookInv
<1>9. CASE Halts
  BY <1>4, <1>5, <1>6, <1>7, <1>9, HaltStands DEF BookInv, Halts
<1> QED
  BY <1>2, <1>8, <1>9

\* What is signed is the build of the run directory.
LEMMA SignObservingKeeps == ASSUME BookInv, SignObserving PROVE BookInv'
<1>1. Executes("sign") /\ GoesOn /\ UNCHANGED <<phone, captures, sessionRows, built>>
  BY DEF SignObserving
<1>2. outDir' = [apk |-> outDir.apk, signed |-> outDir.apk, warm |-> outDir.warm,
                 gate |-> outDir.gate]
  BY DEF SignObserving, BookInv, BookTypes
<1>3. outDir'.apk = outDir.apk /\ outDir'.signed = outDir.apk
  BY <1>2
<1>4. BookTypes'
  BY <1>1, <1>2 DEF BookInv, BookTypes
<1>5. OutDirShape' /\ CapturesAreOfOurBuilds' /\ RowsSayWhatWasWalked'
  BY <1>1, <1>3 DEF BookInv, OutDirShape, Observing, CapturesAreOfOurBuilds, RowsSayWhatWasWalked
<1>6. runAt = 4 /\ At(4)
  BY <1>1, AtHand, StepsArePlaced DEF StepPlaces, Executes
<1>7. outDir.apk # NoBuild
  BY <1>6 DEF At
<1>8. ASSUME NEW i \in {runAt} PROVE At(i)'
  BY <1>3, <1>6, <1>7, BookConstants DEF At, EachWalk
<1>9. RunStands'
  BY <1>1, <1>8, StepGoesOn
<1> QED
  BY <1>4, <1>5, <1>9 DEF BookInv

\* The phone has the observing build from here on, until it is asked again.
LEMMA InstallObservingKeeps == ASSUME BookInv, InstallObserving PROVE BookInv'
<1>1. Executes("install") /\ GoesOn /\ UNCHANGED <<outDir, captures, sessionRows, built>>
  BY DEF InstallObserving
<1>2. runAt = 5 /\ At(5)
  BY <1>1, AtHand, StepsArePlaced DEF StepPlaces, Executes
<1>3. ASSUME NEW i \in {runAt} PROVE At(i)'
  BY <1>1, <1>2, BookConstants DEF At, EachWalk
<1>4. RunStands'
  BY <1>1, <1>3, StepGoesOn
<1> QED
  BY <1>1, <1>4, RecordUntouched DEF BookInv, BookTypes

\* The build that is installed is of another digest; no walk is ahead of this step.
LEMMA ShipInstallKeeps == ASSUME BookInv, ShipInstall PROVE BookInv'
<1>1. Executes("ship-install") /\ GoesOn /\ UNCHANGED <<outDir, captures, sessionRows, built>>
  BY DEF ShipInstall
<1>2. runAt > 6 + PhoneWalks /\ At(runAt) /\ runAt \in Nat
  BY <1>1, AtHand, StepsArePlaced DEF StepPlaces, Executes
<1>3. ASSUME NEW i \in {runAt} PROVE At(i)'
  <2>1. i > 6 + PhoneWalks /\ i \in Nat /\ PhoneWalks \in Nat
    BY <1>2, BookConstants
  <2>2. At(i)
    BY <1>2
  <2> QED
    BY <1>1, <2>1, <2>2 DEF At, Walked
<1>4. RunStands'
  BY <1>1, <1>3, StepGoesOn
<1> QED
  BY <1>1, <1>4, RecordUntouched DEF BookInv, BookTypes

\* The phone walks while the signed observing build is on it.
LEMMA WalkSessionKeeps == ASSUME BookInv, WalkSession PROVE BookInv'
<1> DEFINE w == TheWalk
<1>1. /\ Executes("walk") /\ GoesOn /\ UNCHANGED <<outDir, phone, sessionRows, built>>
      /\ runAt \in 1..(Finished - 1) /\ Finished \in Nat /\ At(runAt)
  BY AtHand DEF WalkSession
<1>2. w \in EachWalk /\ runAt = 6 + w
  BY <1>1, StepsArePlaced DEF StepPlaces, Executes, TheWalk
<1>0. PICK s \in WalkSessions : \E log \in LogsOf(phone) :
        captures' = [captures EXCEPT ![w][s] = {[build |-> phone, log |-> log, after |-> built]}]
  BY DEF WalkSession
<1>3. PICK log \in LogsOf(phone) :
        captures' = [captures EXCEPT ![w][s] = {[build |-> phone, log |-> log, after |-> built]}]
  BY <1>0
<1>4. LogShape(log)
  BY LogsHaveShape
<1>5. phone = outDir.apk /\ Observing(phone)
  <2>1. runAt \in 6..(6 + PhoneWalks) /\ runAt >= 5 /\ runAt >= 4
    BY <1>1, <1>2, BookConstants DEF EachWalk
  <2> QED
    BY <1>1, <2>1 DEF At, BookInv, OutDirShape
<1> HIDE DEF w
<1>6. BookTypes' /\ OutDirShape'
  BY <1>1, <1>2, <1>3 DEF BookInv, BookTypes, OutDirShape, Observing
<1>7. /\ captures'[w][s] = {[build |-> phone, log |-> log, after |-> built]}
      /\ \A v \in EachWalk, t \in WalkSessions :
           v # w \/ t # s => captures'[v][t] = captures[v][t]
  BY <1>2, <1>3 DEF BookInv, BookTypes
<1>8. CapturesAreOfOurBuilds'
  BY <1>1, <1>4, <1>5, <1>7 DEF BookInv, CapturesAreOfOurBuilds, Observing, OutDirShape
<1>9. RowsSayWhatWasWalked'
  BY <1>1 DEF BookInv, RowsSayWhatWasWalked
<1>10. ASSUME NEW i \in {runAt} PROVE At(i)'
  <2>1. At(i)
    BY <1>1
  <2>2. \A v \in EachWalk : Walked(v) = WalkSessions => Walked(v)' = WalkSessions
    BY <1>7 DEF Walked
  <2> QED
    BY <1>1, <2>1, <2>2 DEF At
<1>11. RunStands'
  BY <1>1, <1>10, StepGoesOn
<1> QED
  BY <1>6, <1>8, <1>9, <1>11 DEF BookInv

\* What RowsSayWhatWasWalked says of the build a row is filed under.
FiledRight(row) ==
    \/ row.filed = row.capture.build
    \/ /\ row.filed.observes /\ row.capture.build.observes
       /\ row.capture.after < row.filed.number

\* A walk is filed under the build of this run, which is the one every session of it was
\* captured on or a later one; the toggles of a row are those that parse found.
LEMMA RecordWalkKeeps == ASSUME BookInv, RecordWalk PROVE BookInv'
<1> DEFINE w == TheWalk
<1>1. /\ Executes("record") /\ UNCHANGED <<outDir, phone, captures, built>>
      /\ runAt \in 1..(Finished - 1) /\ Finished \in Nat /\ At(runAt)
  BY AtHand DEF RecordWalk
<1>2. w \in EachWalk /\ runAt = 6 + PhoneWalks + w
  BY <1>1, StepsArePlaced DEF StepPlaces, Executes, TheWalk
<1>3. PICK n \in WalkSessions :
        /\ \A s \in 1..n : MayAppend(w, s)
        /\ sessionRows' = [sessionRows EXCEPT ![w] =
                              [s \in WalkSessions |->
                                 IF s <= n THEN {RowOf(w, s)} ELSE sessionRows[w][s]]]
        /\ GoesOn \/ Halts
  BY <1>2 DEF RecordWalk, BookInv, BookTypes
<1>4. Walked(w) = WalkSessions
  <2>1. runAt > 6 + w
    BY <1>2, BookConstants DEF EachWalk
  <2> QED
    BY <1>1, <1>2, <2>1 DEF At
<1> HIDE DEF w
<1>5. BookTypes' /\ OutDirShape'
  BY <1>1, <1>2, <1>3 DEF BookInv, BookTypes, OutDirShape, Observing
<1>6. CapturesAreOfOurBuilds'
  BY <1>1 DEF BookInv, CapturesAreOfOurBuilds, Observing
<1>11. outDir.signed = outDir.apk /\ outDir.apk # NoBuild
  <2>1. runAt >= 5
    BY <1>1, <1>2, BookConstants DEF EachWalk
  <2> QED
    BY <1>1, <2>1 DEF At, BookInv, OutDirShape
<1>7. ASSUME NEW s \in WalkSessions, s <= n, NEW row, row = RowOf(w, s)
      PROVE  /\ FiledRight(row)
             /\ \A i \in DOMAIN row.capture.log :
                  row.capture.log[i].says = "count" => row.capture.log[i].under = row.toggles
  <2>1. PICK c : c = TheCapture(w, s)
    OBVIOUS
  <2>2. c \in captures[w][s]
    BY <1>4, <2>1 DEF Walked, TheCapture
  <2>3. /\ c.build.observes /\ outDir.apk.observes /\ LogShape(c.log)
        /\ c.build = outDir.apk \/ c.after < outDir.apk.number
    BY <1>2, <1>11, <2>2 DEF BookInv, CapturesAreOfOurBuilds, OutDirShape, Observing
  <2>4. s \in 1..n
    BY <1>7, BookConstants
  <2>5. Parseable(c.log)
    BY <1>3, <2>1, <2>4 DEF MayAppend
  <2>6. row = [filed |-> outDir.apk, capture |-> c,
               toggles |-> IF c.log = <<>> THEN Unstated
                           ELSE CHOOSE t \in TogglesStated(c.log) : TRUE]
    BY <1>7, <1>11, <2>1 DEF RowOf
  <2>7. ASSUME NEW i \in DOMAIN c.log, c.log[i].says = "count"
        PROVE  c.log # <<>> /\ c.log[i].under = CHOOSE t \in TogglesStated(c.log) : TRUE
    BY <2>3, <2>5, <2>7, ParsedIsUnderOne
  <2> QED
    BY <2>3, <2>6, <2>7 DEF FiledRight
<1>8. RowsSayWhatWasWalked'
  <2> SUFFICES ASSUME NEW v \in EachWalk, NEW s \in WalkSessions, NEW row \in sessionRows'[v][s]
               PROVE  /\ FiledRight(row)
                      /\ \A i \in DOMAIN row.capture.log :
                           row.capture.log[i].says = "count" =>
                             row.capture.log[i].under = row.toggles
    BY DEF RowsSayWhatWasWalked, FiledRight
  <2>1. CASE row \in sessionRows[v][s]
    BY <2>1 DEF BookInv, RowsSayWhatWasWalked, FiledRight
  <2>2. CASE row \notin sessionRows[v][s]
    <3>1. v = w /\ s <= n /\ row = RowOf(w, s)
      BY <1>2, <1>3, <2>2 DEF BookInv, BookTypes
    <3> QED
      BY <1>7, <3>1
  <2> QED
    BY <2>1, <2>2
<1>9. CASE GoesOn
  BY <1>1, <1>5, <1>6, <1>8, <1>9, StandsStill DEF BookInv
<1>10. CASE Halts
  BY <1>5, <1>6, <1>8, <1>10, HaltStands DEF BookInv, Halts
<1> QED
  BY <1>3, <1>9, <1>10

\* A run is started anew: it stands at the first step that is not done.
LEMMA StartKeeps ==
  ASSUME BookInv, NEW given, StartRunbook(given)
  PROVE  BookInv'
<1>1. /\ UNCHANGED <<outDir, phone, captures, sessionRows, built>> /\ runAt' = Reaches(1)'
  BY DEF StartRunbook
<1>2. 1 \in 1..Finished
  BY StepsAreListed, BookConstants DEF StepsListed, Finished
<1>3. At(1)'
  BY BookConstants DEF At, EachWalk
<1>4. RunStands'
  BY <1>1, <1>2, <1>3, GoesOnRight
<1> QED
  BY <1>1, <1>4, RecordUntouched DEF BookInv, BookTypes

\* Between two runs: a walk that is discarded takes its rows with it, a build that is
\* dropped leaves the captures that were made on it.
LEMMA PeopleKeep ==
  ASSUME BookInv, runAt' = Stopped, UNCHANGED built,
         \/ outDir' = outDir /\ UNCHANGED <<captures, sessionRows>>
         \/ \E w \in EachWalk : DiscardWalk(w)
         \/ DropObserving
  PROVE  BookInv'
<1>1. RunStands'
  BY HaltStands
<1>2. CASE outDir' = outDir /\ UNCHANGED <<captures, sessionRows>>
  BY <1>1, <1>2, RecordUntouched DEF BookInv, BookTypes
<1>3. ASSUME NEW w \in EachWalk, DiscardWalk(w) PROVE BookInv'
  <2>1. /\ outDir' = outDir
        /\ \A v \in EachWalk : DOMAIN captures'[v] = WalkSessions
             /\ DOMAIN sessionRows'[v] = WalkSessions
        /\ \A v \in EachWalk, s \in WalkSessions :
             /\ captures'[v][s] \in {captures[v][s], {}}
             /\ sessionRows'[v][s] \in {sessionRows[v][s], {}}
    BY <1>3 DEF DiscardWalk, NoneOfAny, BookInv, BookTypes
  <2>2. BookTypes' /\ OutDirShape'
    BY <1>3, <2>1 DEF DiscardWalk, BookInv, BookTypes, OutDirShape, Observing
  <2>3. CapturesAreOfOurBuilds'
    BY <2>1 DEF BookInv, CapturesAreOfOurBuilds, Observing
  <2>4. RowsSayWhatWasWalked'
    BY <2>1 DEF BookInv, RowsSayWhatWasWalked
  <2> QED
    BY <1>1, <2>2, <2>3, <2>4 DEF BookInv
<1>4. CASE DropObserving
  BY <1>1, <1>4 DEF DropObserving, EmptyOut, BookInv, BookTypes, OutDirShape, Observing,
                    CapturesAreOfOurBuilds, RowsSayWhatWasWalked
<1> QED
  BY <1>2, <1>3, <1>4

\* Every step of the runbook, and of the people beside it.
LEMMA BookKeepsInv == BookInv /\ [RunbookNext]_runbookVars => BookInv'
<1> SUFFICES ASSUME BookInv, [RunbookNext]_runbookVars PROVE BookInv'
  OBVIOUS
<1>1. ASSUME NEW given \in BOOLEAN, StartRunbook(given) PROVE BookInv'
  BY <1>1, StartKeeps
<1>2. CASE RunbookStops
  BY <1>2, PeopleKeep DEF RunbookStops, Halts
<1>3. CASE IndexSurface
  BY <1>3, QuietStep DEF IndexSurface
<1>4. CASE WatchCandidates
  BY <1>4, QuietStep DEF WatchCandidates
<1>5. CASE ObserveBuild
  BY <1>5, ObserveBuildKeeps
<1>6. CASE SignObserving
  BY <1>6, SignObservingKeeps
<1>7. CASE InstallObserving
  BY <1>7, InstallObservingKeeps
<1>8. CASE WarmPhone \/ RaiseGate
  BY <1>8, MarkerKeeps
<1>9. CASE WalkSession
  BY <1>9, WalkSessionKeeps
<1>10. CASE RecordWalk
  BY <1>10, RecordWalkKeeps
<1>11. CASE RecordAssessment
  BY <1>11, QuietStep DEF RecordAssessment
<1>12. CASE ShipBuild
  <2>1. /\ Executes("ship-build") /\ outDir' = outDir
        /\ UNCHANGED <<phone, captures, sessionRows>> /\ (GoesOn \/ Halts)
        /\ built' \in {built, built + 1}
    BY <1>12 DEF ShipBuild
  <2> QED
    BY <2>1, QuietStep
<1>13. CASE ShipSign
  BY <1>13, QuietStep DEF ShipSign
<1>14. CASE ShipInstall
  BY <1>14, ShipInstallKeeps
<1>15. ASSUME NEW c \in Raisable, RaiseCandidate(c) \/ RuleOn(c) PROVE BookInv'
  BY <1>15, PeopleKeep DEF RaiseCandidate, RuleOn
<1>16. ASSUME NEW w \in EachWalk, DiscardWalk(w) PROVE BookInv'
  <2>1. runAt' = Stopped /\ UNCHANGED built
    BY <1>16 DEF DiscardWalk
  <2> QED
    BY <1>16, <2>1, PeopleKeep
<1>17. CASE DropObserving
  <2>1. runAt' = Stopped /\ UNCHANGED built
    BY <1>17 DEF DropObserving
  <2> QED
    BY <1>17, <2>1, PeopleKeep
<1>18. CASE DropShip
  BY <1>18, PeopleKeep DEF DropShip
<1>19. ASSUME NEW build, ReinstallByHand(build) PROVE BookInv'
  BY <1>19, PeopleKeep DEF ReinstallByHand
<1>20. CASE UNCHANGED runbookVars
  <2>1. outDir' = outDir
        /\ UNCHANGED <<phone, captures, sessionRows, runAt, indexed, raised, watched, ruledOn,
                        gateGiven, assessed, shipDir, built>>
    BY <1>20 DEF runbookVars
  <2>2. BookTypes' /\ OutDirShape' /\ CapturesAreOfOurBuilds' /\ RowsSayWhatWasWalked'
    BY <2>1, RecordUntouched DEF BookInv, BookTypes
  <2>3. \A i : At(i)' = At(i)
    BY <2>1 DEF At, Walked
  <2>4. \A i : Passes(i)' = Passes(i)
    BY <2>1 DEF Passes, Done, Blocked, Unruled, Walked, SessionsFor, OnDeviceIs
  <2>5. RunStands'
    BY <2>1, <2>3, <2>4 DEF RunStands, BookInv
  <2> QED
    BY <2>2, <2>5 DEF BookInv
<1> QED
  BY <1>1, <1>2, <1>3, <1>4, <1>5, <1>6, <1>7, <1>8, <1>9, <1>10, <1>11, <1>12, <1>13, <1>14,
     <1>15, <1>16, <1>17, <1>18, <1>19, <1>20 DEF RunbookNext

\* Every request that a row on record counts was made under the toggles it states, and the
\* row is filed under the build its session was walked on, or under one that observes and
\* was made in that one's place after it (port.py, the walk and record steps), for any number of
\* walks, sessions and builds, with runs that are killed, artefacts that are dropped while
\* their captures stay and other builds installed by hand in between.
THEOREM RowsAreWhatWasWalked == RunbookSpec => []RowsSayWhatWasWalked
<1>1. BookInv => RowsSayWhatWasWalked
  BY DEF BookInv
<1> QED
  BY <1>1, BookStarts, BookKeepsInv, PTL DEF RunbookSpec

-----------------------------------------------------------------------------
(*****************************************************************************)
(* TreeCapture: what an accepted walk recorded was there when it ended.      *)
(*****************************************************************************)

Trees == {"source", "copy"}

\* Nothing on disk changed later than now; the root of the source stays.
DiskShape ==
  /\ now \in Nat /\ disk = [source |-> disk.source, copy |-> disk.copy]
  /\ <<>> \in DOMAIN disk.source
  /\ \A t \in Trees : \A p \in DOMAIN disk[t] :
       /\ p \in Seq(Names)
       /\ disk[t][p] = [kind |-> disk[t][p].kind, bytes |-> disk[t][p].bytes,
                        changed |-> disk[t][p].changed]
       /\ disk[t][p].changed \in 0..now

OpenFrames == [dir : Seq(Names), names : SUBSET Names, changed : Nat]

\* Where the walk is: the root is the outermost directory open, and a file's status was
\* read of one entry at most.
WalkShape ==
  /\ walk \in {"called", "scanning", "sweeping", "captured", "materializing", "done", "failed"}
  /\ walk = "called" => manifest = <<>> /\ seen = <<>>
  /\ DOMAIN manifest \subseteq Seq(Names)
  /\ walk \in {"scanning", "sweeping"} => DOMAIN seen \subseteq Seq(Names)
  /\ walk \in {"scanning", "materializing"} => <<>> \in DOMAIN disk[Tree]
  /\ walk \in {"called", "sweeping", "captured", "materializing", "done"} => pending = <<>>
  /\ walk = "scanning" =>
       /\ DOMAIN pending \subseteq Seq(Names)
       /\ \A p, q \in DOMAIN pending : p = q
       /\ frames \in Seq(OpenFrames) /\ frames # <<>>
       /\ frames[1].dir = <<>> /\ frames[1].changed <= now
       /\ \A k \in 2..Len(frames) : frames[k].dir # <<>>

\* An entry with the status it was read with is the entry that was read, and was there
\* when the walk ended.
ReadIsDated ==
  /\ walk \in {"scanning", "sweeping", "captured", "done"} =>
       \A p \in DOMAIN seen : seen[p].changed \in 0..now
  /\ walk \in {"scanning", "sweeping"} =>
       \A p \in DOMAIN seen :
         p \in DOMAIN disk[Tree] /\ Stat(p) = seen[p].changed => disk[Tree][p] = seen[p]
  /\ walk = "sweeping" =>
       \A p \in DOMAIN seen :
         p \in DOMAIN disk[Tree] /\ Stat(p) = seen[p].changed =>
           p \in DOMAIN scanned /\ scanned[p] = seen[p]

\* While the root is what it was, its entries are those listed and not yet come to, and
\* those read.
RootIsRead ==
  walk = "scanning" /\ Stat(<<>>) = frames[1].changed =>
    \A n \in Names : <<n>> \in DOMAIN disk[Tree] <=>
                       n \in frames[1].names \/ <<n>> \in DOMAIN seen \/ <<n>> \in DOMAIN pending

\* What was swept was there when the walk ended, and so were just the root's entries, where
\* a tick stands for one change.
SweptWasThere ==
  /\ walk \in {"sweeping", "captured", "done"} =>
       /\ scanned[<<>>].changed \in 0..now
       /\ Lone(scanned[<<>>].changed) =>
            {p \in DOMAIN scanned : Len(p) = 1} = {p \in DOMAIN seen : Len(p) = 1}
  /\ walk = "sweeping" =>
       \A p \in DOMAIN seen :
         seen[p].kind = "file" /\ p \notin sweep /\ Lone(seen[p].changed) =>
           p \in DOMAIN scanned /\ scanned[p] = seen[p]
  /\ walk \in {"captured", "done"} =>
       \A p \in DOMAIN seen :
         seen[p].kind = "file" /\ Lone(seen[p].changed) =>
           p \in DOMAIN scanned /\ scanned[p] = seen[p]

CaptureInv == DiskShape /\ WalkShape /\ ReadIsDated /\ RootIsRead /\ SweptWasThere

\* The invariant says what a finished walk recorded.
LEMMA RecordFollows == CaptureInv => RecordedWasThere
BY DEF CaptureInv, SweptWasThere, RecordedWasThere, Read, IsFile

\* The trees are as they were found, and no capture is at work.
LEMMA CaptureStarts == CaptureInit => CaptureInv
<1> SUFFICES ASSUME CaptureInit PROVE CaptureInv
  OBVIOUS
<1>1. PICK shape \in Shapes :
        disk = [source |-> [p \in DOMAIN shape |-> [kind |-> shape[p].kind,
                              bytes |-> shape[p].bytes, changed |-> 0]], copy |-> <<>>]
  BY DEF CaptureInit
<1>2. <<>> \in DOMAIN shape /\ DOMAIN shape \subseteq Seq(Names)
  BY CaptureAssumption DEF CaptureAssumption
<1>3. DiskShape
  BY <1>1, <1>2 DEF CaptureInit, DiskShape, Trees
<1> QED
  BY <1>3 DEF CaptureInit, CaptureInv, WalkShape, ReadIsDated, RootIsRead, SweptWasThere

-----------------------------------------------------------------------------
(* The other process.                                                       *)

\* What another process may do to the tree that is walked: what it touches is dated now,
\* and the root with it when its entries are not what they were.
Touched ==
  /\ now' = now + 1
  /\ \A n \in 0..now : tick'[n] = tick[n]
  /\ \A p \in DOMAIN disk'[Tree] :
       \/ p \in DOMAIN disk[Tree] /\ disk'[Tree][p] = disk[Tree][p]
       \/ disk'[Tree][p].changed = now + 1
  /\ <<>> \in DOMAIN disk[Tree] =>
       /\ <<>> \in DOMAIN disk'[Tree]
       /\ disk'[Tree][<<>>].changed = disk[Tree][<<>>].changed =>
            \A n \in Names : <<n>> \in DOMAIN disk'[Tree] <=> <<n>> \in DOMAIN disk[Tree]

\* The root is the outermost directory for as long as the walk is scanning.
LEMMA Outermost ==
  ASSUME WalkShape, walk = "scanning"
  PROVE  /\ Len(frames) \in Nat /\ Len(frames) >= 1
         /\ \A k \in 1..Len(frames) : frames[k] \in OpenFrames
         /\ frames[1].dir = <<>> /\ frames[1].names \subseteq Names /\ frames[1].changed \in Nat
<1>1. frames \in Seq(OpenFrames) /\ frames # <<>> /\ frames[1].dir = <<>>
  BY DEF WalkShape
<1>2. /\ Len(frames) \in Nat /\ Len(frames) >= 1
      /\ \A k \in 1..Len(frames) : frames[k] \in OpenFrames
  BY <1>1
<1>3. frames[1] \in OpenFrames
  BY <1>2
<1> QED
  BY <1>1, <1>2, <1>3 DEF OpenFrames

\* An entry that was touched is newer than every status that was read of it.
LEMMA TouchedKeeps ==
  ASSUME CaptureInv, DiskShape', Touched, Walking
  PROVE  CaptureInv'
<1>1. Tree' = Tree /\ Tree \in Trees
  BY DEF Walking, Tree, Trees
<1>2. WalkShape'
  <2>1. UNCHANGED <<walk, frames, pending, seen, manifest>> /\ now' = now + 1 /\ now \in Nat
    BY DEF Walking, Touched, CaptureInv, DiskShape
  <2>2. <<>> \in DOMAIN disk[Tree] => <<>> \in DOMAIN disk'[Tree]
    BY DEF Touched
  <2>3. walk = "scanning" => frames[1].changed <= now'
    <3>1. walk = "scanning" => frames[1].changed \in Nat /\ frames[1].changed <= now
      BY Outermost DEF CaptureInv, WalkShape
    <3> QED
      BY <2>1, <3>1
  <2> QED
    BY <1>1, <2>1, <2>2, <2>3 DEF CaptureInv, WalkShape
<1>3. ReadIsDated'
  BY <1>1 DEF CaptureInv, ReadIsDated, DiskShape, Touched, Walking, Stat
<1>4. RootIsRead'
  <2> SUFFICES ASSUME walk = "scanning", Stat(<<>>)' = frames[1].changed
               PROVE  \A n \in Names :
                        <<n>> \in DOMAIN disk'[Tree] <=>
                          n \in frames[1].names \/ <<n>> \in DOMAIN seen \/ <<n>> \in DOMAIN pending
    BY <1>1 DEF RootIsRead, Walking
  <2>1. frames[1].changed <= now /\ frames[1].changed \in Nat /\ now \in Nat
          /\ <<>> \in DOMAIN disk[Tree]
    BY Outermost DEF CaptureInv, WalkShape, DiskShape
  <2>2. disk'[Tree][<<>>].changed = frames[1].changed
    BY <1>1 DEF Stat
  <2>3. disk'[Tree][<<>>].changed = disk[Tree][<<>>].changed
    BY <2>1, <2>2 DEF Touched
  <2> QED
    BY <2>1, <2>2, <2>3 DEF Touched, CaptureInv, RootIsRead, Stat
<1>5. SweptWasThere'
  <2>1. now' = now + 1 /\ now \in Nat
    BY DEF Touched, CaptureInv, DiskShape
  <2>2. ASSUME NEW c \in 0..now, Lone(c)' PROVE Lone(c)
    <3> SUFFICES ASSUME NEW n \in 0..now, tick[n] = tick[c] PROVE n = c
      BY DEF Lone
    <3>1. n \in 0..now' /\ tick'[n] = tick'[c]
      BY <2>1 DEF Touched
    <3> QED
      BY <2>2, <3>1 DEF Lone
  <2>3. \A c \in 0..now : c \in 0..now'
    BY <2>1
  <2>4. UNCHANGED <<walk, seen, sweep, scanned>>
    BY DEF Walking
  <2> QED
    BY <2>2, <2>3, <2>4 DEF CaptureInv, SweptWasThere, ReadIsDated
<1> QED
  BY <1>2, <1>3, <1>4, <1>5 DEF CaptureInv

\* Where a tick stands for one change, the same status is the same change.
LEMMA SameStatIsSame ==
  ASSUME CaptureInv, NEW p, NEW kind, NEW c, SameStat(p, kind, c), Lone(c)
  PROVE  p \in DOMAIN disk[Tree] /\ Stat(p) = c
<1>1. Tree \in Trees
  BY DEF Tree, Trees
<1>2. p \in DOMAIN disk[Tree] /\ tick[Stat(p)] = tick[c]
  BY DEF SameStat
<1>3. Stat(p) \in 0..now
  BY <1>1, <1>2 DEF CaptureInv, DiskShape, Stat
<1> QED
  BY <1>2, <1>3 DEF Lone

\* A name on its own is in the root.
LEMMA ParentOfName == ASSUME NEW n \in Names PROVE Parent(<<n>>) = <<>>
BY DEF Parent, DirectoryOf

\* A path is a sequence of names, with one at least.
LEMMA NameOfPath ==
  ASSUME NEW p \in Paths
  PROVE  p \in Seq(Names) /\ p # <<>>
<1>1. PICK n \in 1..MaxDepth : p \in [1..n -> Names]
  BY DEF Paths
<1>2. n \in Nat /\ n >= 1
  BY CaptureAssumption DEF CaptureAssumption
<1>3. p \in Seq(Names)
  BY <1>1, <1>2, SeqDef
<1> QED
  BY <1>1, <1>2, <1>3

\* What is done to the one tree leaves the other one.
LEMMA ChangeShape ==
  ASSUME CaptureInv, NEW t \in Trees, NEW entries, Changes(t, entries),
         t = "source" => <<>> \in DOMAIN entries,
         \A p \in DOMAIN entries :
           \/ p \in DOMAIN disk[t] /\ entries[p] = disk[t][p]
           \/ /\ p \in Seq(Names)
              /\ entries[p] = [kind |-> entries[p].kind, bytes |-> entries[p].bytes,
                               changed |-> now + 1],
         <<>> \in DOMAIN disk[t] =>
           /\ <<>> \in DOMAIN entries
           /\ \/ entries[<<>>].changed = now + 1
              \/ \A n \in Names : <<n>> \in DOMAIN entries <=> <<n>> \in DOMAIN disk[t],
         Walking
  PROVE  DiskShape' /\ Touched
<1>1. /\ now' = now + 1 /\ now \in Nat /\ disk = [source |-> disk.source, copy |-> disk.copy]
      /\ disk' = [disk EXCEPT ![t] = entries]
  BY DEF Changes, CaptureInv, DiskShape
<1>3. \A n \in 0..now : tick'[n] = tick[n]
  BY <1>1 DEF Changes
<1>2. /\ disk' = [source |-> disk'.source, copy |-> disk'.copy] /\ disk'[t] = entries
      /\ \A u \in Trees : u # t => disk'[u] = disk[u]
  BY <1>1 DEF Trees
<1>4. DiskShape'
  <2>1. <<>> \in DOMAIN disk'.source
    BY <1>2 DEF CaptureInv, DiskShape, Trees
  <2>2. ASSUME NEW u \in Trees, NEW p \in DOMAIN disk'[u]
        PROVE  /\ p \in Seq(Names)
               /\ disk'[u][p] = [kind |-> disk'[u][p].kind, bytes |-> disk'[u][p].bytes,
                                 changed |-> disk'[u][p].changed]
               /\ disk'[u][p].changed \in 0..now'
    <3>1. CASE u # t
      <4>1. disk'[u] = disk[u]
        BY <1>2, <3>1
      <4>2. disk[u][p].changed \in 0..now' /\ now' \in Nat
        <5>1. disk[u][p].changed \in 0..now
          BY <4>1 DEF CaptureInv, DiskShape
        <5> QED
          BY <1>1, <5>1
      <4> QED
        BY <4>1, <4>2 DEF CaptureInv, DiskShape
    <3>2. CASE u = t /\ p \in DOMAIN disk[t] /\ entries[p] = disk[t][p]
      BY <1>1, <1>2, <3>2 DEF CaptureInv, DiskShape
    <3>3. CASE /\ u = t /\ p \in Seq(Names)
               /\ entries[p] = [kind |-> entries[p].kind, bytes |-> entries[p].bytes,
                                changed |-> now + 1]
      BY <1>1, <1>2, <3>3
    <3> QED
      BY <1>2, <3>1, <3>2, <3>3
  <2> QED
    BY <1>1, <1>2, <2>1, <2>2 DEF DiskShape
<1>5. Touched
  <2>1. CASE Tree # t
    <3>1. disk'[Tree] = disk[Tree]
      BY <1>2, <2>1 DEF Tree, Trees
    <3> QED
      BY <1>1, <1>3, <3>1 DEF Touched
  <2>2. CASE Tree = t
    <3>1. \A p \in DOMAIN entries :
            \/ p \in DOMAIN disk[t] /\ entries[p] = disk[t][p]
            \/ entries[p].changed = now + 1
      OBVIOUS
    <3>2. <<>> \in DOMAIN disk[t] => disk[t][<<>>].changed # now + 1
      <4>1. <<>> \in DOMAIN disk[t] => disk[t][<<>>].changed \in 0..now
        BY DEF CaptureInv, DiskShape
      <4> QED
        BY <1>1, <4>1
    <3> QED
      BY <1>1, <1>2, <1>3, <2>2, <3>1, <3>2 DEF Touched
  <2> QED
    BY <2>1, <2>2
<1> QED
  BY <1>4, <1>5

\* An entry of a tree has a kind, bytes and a date that is not in the future.
LEMMA EntryShape ==
  ASSUME CaptureInv, NEW t \in Trees, NEW p \in DOMAIN disk[t]
  PROVE  /\ p \in Seq(Names) /\ disk[t][p].changed \in 0..now
         /\ \E k, b, c : disk[t][p] = [kind |-> k, bytes |-> b, changed |-> c]
<1>1. /\ p \in Seq(Names) /\ disk[t][p].changed \in 0..now
      /\ disk[t][p] = [kind |-> disk[t][p].kind, bytes |-> disk[t][p].bytes,
                       changed |-> disk[t][p].changed]
  BY DEF CaptureInv, DiskShape
<1> QED
  BY <1>1, Zenon

\* Dating an entry changes its date and nothing else.
LEMMA EntryRedated ==
  ASSUME NEW k, NEW b, NEW c, NEW d
  PROVE  [[kind |-> k, bytes |-> b, changed |-> c] EXCEPT !.changed = d]
            = [kind |-> k, bytes |-> b, changed |-> d]
OBVIOUS

\* Rewriting an entry changes its bytes and nothing else.
LEMMA EntryRewritten ==
  ASSUME NEW k, NEW b, NEW c, NEW e
  PROVE  [[kind |-> k, bytes |-> b, changed |-> c] EXCEPT !.bytes = e]
            = [kind |-> k, bytes |-> e, changed |-> c]
OBVIOUS

\* A file's bytes and its time change together.
LEMMA WriteFileKeeps ==
  ASSUME CaptureInv, NEW t \in Trees, NEW p \in Paths, NEW b \in Bytes, WriteFile(t, p, b)
  PROVE  CaptureInv'
<1> DEFINE entries == [disk[t] EXCEPT ![p].bytes = b, ![p].changed = now + 1]
<1>1. Changes(t, entries) /\ Walking /\ p \in DOMAIN disk[t] /\ p # <<>>
  BY NameOfPath DEF WriteFile, IsFile
<1>2. DOMAIN entries = DOMAIN disk[t]
  OBVIOUS
<1>3. \A q \in DOMAIN disk[t] \ {p} : entries[q] = disk[t][q]
  OBVIOUS
<1>4. /\ p \in Seq(Names)
      /\ entries[p] = [kind |-> entries[p].kind, bytes |-> entries[p].bytes, changed |-> now + 1]
  <2>1. PICK k, bytes, c : disk[t][p] = [kind |-> k, bytes |-> bytes, changed |-> c]
    BY <1>1, EntryShape
  <2>2. PICK written : written = [disk[t][p] EXCEPT !.bytes = b]
    OBVIOUS
  <2>3. written = [kind |-> k, bytes |-> b, changed |-> c]
    BY <2>1, <2>2, EntryRewritten, SMT
  <2>4. entries[p] = [disk[t][p] EXCEPT !.bytes = b, !.changed = now + 1]
    BY <1>1
  <2>5. entries[p] = [written EXCEPT !.changed = now + 1]
    BY <2>2, <2>4
  <2>6. entries[p] = [kind |-> k, bytes |-> b, changed |-> now + 1]
    BY <2>3, <2>5, EntryRedated, SMT
  <2> QED
    BY <1>1, <2>6, EntryShape
<1>5. t = "source" => <<>> \in DOMAIN entries
  BY <1>2 DEF CaptureInv, DiskShape
<1> HIDE DEF entries
<1> QED
  BY <1>1, <1>2, <1>3, <1>4, <1>5, ChangeShape, TouchedKeeps

\* An entry below the root comes or goes: the root is dated now, or its names stay.
LEMMA MakeEntryKeeps ==
  ASSUME CaptureInv, NEW t \in Trees, NEW p \in Paths, NEW kind, NEW b, MakeEntry(t, p, kind, b)
  PROVE  CaptureInv'
<1> DEFINE touched == [disk[t] EXCEPT ![Parent(p)].changed = now + 1]
           entries == [q \in DOMAIN touched \cup {p} |->
                         IF q = p THEN [kind |-> kind, bytes |-> b, changed |-> now + 1]
                         ELSE touched[q]]
<1>1. /\ Changes(t, entries) /\ Walking /\ p \notin DOMAIN disk[t]
      /\ Parent(p) \in DOMAIN disk[t] /\ p \in Seq(Names) /\ p # <<>>
  BY NameOfPath DEF MakeEntry, IsDirectory
<1>2. DOMAIN touched = DOMAIN disk[t] /\ DOMAIN entries = DOMAIN disk[t] \cup {p}
  OBVIOUS
<1>3. \A q \in DOMAIN disk[t] \ {Parent(p)} : entries[q] = disk[t][q]
  BY <1>1
<1>4. entries[Parent(p)] = [kind |-> entries[Parent(p)].kind, bytes |-> entries[Parent(p)].bytes,
                            changed |-> now + 1]
  <2>1. PICK k, bytes, c : disk[t][Parent(p)] = [kind |-> k, bytes |-> bytes, changed |-> c]
    BY <1>1, EntryShape
  <2>2. entries[Parent(p)] = [disk[t][Parent(p)] EXCEPT !.changed = now + 1]
    BY <1>1
  <2>3. entries[Parent(p)] = [kind |-> k, bytes |-> bytes, changed |-> now + 1]
    BY <2>1, <2>2
  <2> QED
    BY <2>3
<1>5. entries[p] = [kind |-> kind, bytes |-> b, changed |-> now + 1]
  OBVIOUS
<1>6. Parent(p) \in Seq(Names)
  BY <1>1 DEF CaptureInv, DiskShape
<1>7. \A n \in Names : p = <<n>> => Parent(p) = <<>>
  BY ParentOfName
<1> HIDE DEF entries
<1>8. t = "source" => <<>> \in DOMAIN entries
  BY <1>2 DEF CaptureInv, DiskShape
<1>9. <<>> \in DOMAIN disk[t] =>
           /\ <<>> \in DOMAIN entries
           /\ \/ entries[<<>>].changed = now + 1
              \/ \A n \in Names : <<n>> \in DOMAIN entries <=> <<n>> \in DOMAIN disk[t]
  <2>1. CASE Parent(p) = <<>>
    BY <1>2, <1>4, <2>1
  <2>2. CASE Parent(p) # <<>>
    BY <1>2, <1>7, <2>2
  <2> QED
    BY <2>1, <2>2
<1>10. \A q \in DOMAIN entries :
           \/ q \in DOMAIN disk[t] /\ entries[q] = disk[t][q]
           \/ /\ q \in Seq(Names)
              /\ entries[q] = [kind |-> entries[q].kind, bytes |-> entries[q].bytes,
                               changed |-> now + 1]
  BY <1>1, <1>2, <1>3, <1>4, <1>5, <1>6
<1> QED
  BY <1>1, <1>8, <1>9, <1>10, ChangeShape, TouchedKeeps

\* A removed entry is not there, and its directory is touched.
LEMMA RemoveEntryKeeps ==
  ASSUME CaptureInv, NEW t \in Trees, NEW p \in Paths, RemoveEntry(t, p)
  PROVE  CaptureInv'
<1> DEFINE touched == [disk[t] EXCEPT ![Parent(p)].changed = now + 1]
           entries == [q \in DOMAIN touched \ {p} |-> touched[q]]
<1>1. Changes(t, entries) /\ Walking /\ p \in DOMAIN disk[t] /\ p # <<>>
  BY DEF RemoveEntry
<1>2. DOMAIN touched = DOMAIN disk[t] /\ DOMAIN entries = DOMAIN disk[t] \ {p}
  OBVIOUS
<1>3. \A q \in DOMAIN entries \ {Parent(p)} : entries[q] = disk[t][q]
  OBVIOUS
<1>4. Parent(p) \in DOMAIN entries =>
        entries[Parent(p)] = [kind |-> entries[Parent(p)].kind, bytes |-> entries[Parent(p)].bytes,
                              changed |-> now + 1]
  <2> SUFFICES ASSUME Parent(p) \in DOMAIN disk[t], Parent(p) # p
               PROVE  entries[Parent(p)] = [kind |-> entries[Parent(p)].kind,
                                            bytes |-> entries[Parent(p)].bytes,
                                            changed |-> now + 1]
    BY <1>2
  <2>1. PICK k, bytes, c : disk[t][Parent(p)] = [kind |-> k, bytes |-> bytes, changed |-> c]
    BY EntryShape
  <2>2. entries[Parent(p)] = [disk[t][Parent(p)] EXCEPT !.changed = now + 1]
    OBVIOUS
  <2>3. entries[Parent(p)] = [kind |-> k, bytes |-> bytes, changed |-> now + 1]
    BY <2>1, <2>2
  <2> QED
    BY <2>3
<1>5. \A n \in Names : p = <<n>> => Parent(p) = <<>>
  BY ParentOfName
<1> HIDE DEF entries
<1>6. t = "source" => <<>> \in DOMAIN entries
  BY <1>1, <1>2 DEF CaptureInv, DiskShape
<1>7. <<>> \in DOMAIN disk[t] =>
           /\ <<>> \in DOMAIN entries
           /\ \/ entries[<<>>].changed = now + 1
              \/ \A n \in Names : <<n>> \in DOMAIN entries <=> <<n>> \in DOMAIN disk[t]
  <2>1. CASE Parent(p) = <<>>
    BY <1>1, <1>2, <1>4, <2>1
  <2>2. CASE Parent(p) # <<>>
    BY <1>1, <1>2, <1>5, <2>2
  <2> QED
    BY <2>1, <2>2
<1>8. \A q \in DOMAIN entries :
           \/ q \in DOMAIN disk[t] /\ entries[q] = disk[t][q]
           \/ /\ q \in Seq(Names)
              /\ entries[q] = [kind |-> entries[q].kind, bytes |-> entries[q].bytes,
                               changed |-> now + 1]
  BY <1>2, <1>3, <1>4 DEF CaptureInv, DiskShape
<1> QED
  BY <1>1, <1>6, <1>7, <1>8, ChangeShape, TouchedKeeps

-----------------------------------------------------------------------------
(* The walk.                                                                *)

\* A capture that fails keeps the invariant.
LEMMA FailKeeps == ASSUME CaptureInv, DiskShape', Fail PROVE CaptureInv'
BY DEF Fail, CaptureInv, WalkShape, ReadIsDated, RootIsRead, SweptWasThere

\* A step that writes nothing leaves the trees in shape.
LEMMA StillShape == ASSUME CaptureInv, Still PROVE DiskShape'
BY DEF Still, CaptureInv, DiskShape

\* A walk begins at the root, with nothing read.
LEMMA RootOpens ==
  ASSUME CaptureInv, Still, UNCHANGED <<pending, manifest>>, pending = <<>>, seen' = <<>>,
         walk' = "scanning", frames' = <<Frame(<<>>)>>, <<>> \in DOMAIN disk[Tree]
  PROVE  CaptureInv'
<1>1. DiskShape' /\ Tree' = Tree /\ disk' = disk /\ now' = now /\ Tree \in Trees
  BY StillShape DEF Tree, Still, Trees
<1>2. Stat(<<>>) \in 0..now /\ now \in Nat
  BY <1>1, EntryShape DEF Stat, CaptureInv, DiskShape
<1>3. Frame(<<>>) = [dir |-> <<>>, names |-> NamesIn(disk[Tree], <<>>), changed |-> Stat(<<>>)]
  BY DEF Frame
<1>4. \A n \in Names : n \in NamesIn(disk[Tree], <<>>) <=> <<n>> \in DOMAIN disk[Tree]
  BY DEF NamesIn
<1>5. /\ frames'[1].dir = <<>> /\ frames'[1].changed = Stat(<<>>) /\ Len(frames') = 1
      /\ frames'[1].names = NamesIn(disk[Tree], <<>>) /\ frames' # <<>>
  BY <1>3
<1>6. frames' \in Seq(OpenFrames)
  <2>1. NamesIn(disk[Tree], <<>>) \in SUBSET Names /\ Stat(<<>>) \in Nat /\ <<>> \in Seq(Names)
    BY <1>2 DEF NamesIn
  <2>2. \A root \in Seq(Names), names \in SUBSET Names, at \in Nat :
          [dir |-> root, names |-> names, changed |-> at] \in OpenFrames
    BY DEF OpenFrames
  <2>3. Frame(<<>>) \in OpenFrames
    BY <1>3, <2>1, <2>2, Zenon
  <2> QED
    BY <2>3
<1>7. WalkShape'
  BY <1>1, <1>2, <1>5, <1>6 DEF CaptureInv, WalkShape
<1>8. RootIsRead'
  <2>1. DOMAIN seen' = {} /\ DOMAIN pending' = {}
    OBVIOUS
  <2>2. Stat(<<>>)' = Stat(<<>>) /\ disk'[Tree'] = disk[Tree]
    BY <1>1 DEF Stat
  <2> QED
    BY <1>4, <1>5, <2>1, <2>2 DEF RootIsRead
<1>9. ReadIsDated' /\ SweptWasThere'
  BY DEF ReadIsDated, SweptWasThere
<1> QED
  BY <1>1, <1>7, <1>8, <1>9 DEF CaptureInv

\* Beginning a walk keeps the invariant.
LEMMA BeginWalkKeeps == ASSUME CaptureInv, BeginWalk PROVE CaptureInv'
<1>1. manifest = <<>> /\ seen = <<>> /\ pending = <<>> /\ <<>> \in DOMAIN disk[Tree]
  BY DEF BeginWalk, CaptureInv, WalkShape, DiskShape, Tree
<1> QED
  BY <1>1, RootOpens DEF BeginWalk

\* Beginning to verify keeps the invariant.
LEMMA BeginVerifyKeeps == ASSUME CaptureInv, BeginVerify PROVE CaptureInv'
<1>1. pending = <<>> /\ <<>> \in DOMAIN disk[Tree]
  BY DEF BeginVerify, CaptureInv, WalkShape
<1> QED
  BY <1>1, RootOpens DEF BeginVerify

\* What has just been read of the disk is as the disk has it.
LEMMA EntryIsRead ==
  ASSUME CaptureInv, walk = "scanning", UNCHANGED <<walk, manifest>>, Still,
         NEW p \in DOMAIN disk[Tree],
         seen' = [q \in DOMAIN seen \cup {p} |-> IF q = p THEN disk[Tree][p] ELSE seen[q]]
  PROVE  ReadIsDated' /\ p \in Seq(Names)
<1>1. Tree' = Tree /\ disk' = disk /\ now' = now /\ Tree \in Trees
  BY DEF Tree, Still, Trees
<1>2. p \in Seq(Names) /\ disk[Tree][p].changed \in 0..now
  BY <1>1, EntryShape
<1> QED
  BY <1>1, <1>2 DEF CaptureInv, ReadIsDated, Stat

\* The inner frame is that of the root just when it is the outermost.
LEMMA InnerShape ==
  ASSUME WalkShape, walk = "scanning"
  PROVE  /\ Inner \in OpenFrames /\ Len(frames) \in Nat /\ Len(frames) >= 1
         /\ Inner.dir \in Seq(Names) /\ Inner.names \subseteq Names /\ Inner.changed \in Nat
         /\ Len(frames) = 1 => Inner = frames[1]
         /\ Len(frames) > 1 => Inner.dir # <<>>
<1>1. Len(frames) \in Nat /\ Len(frames) >= 1 /\ Inner \in OpenFrames
  BY Outermost DEF Inner
<1> QED
  BY <1>1 DEF WalkShape, Inner, OpenFrames

\* The least name of a directory that has any is one of them.
LEMMA LeastIsThere ==
  ASSUME NEW S \in SUBSET Names, S # {}
  PROVE  Least(S) \in S
<1>1. S \in SUBSET Nat
  BY CaptureAssumption DEF CaptureAssumption
<1>2. PICK x \in S : \A y \in S : x <= y
  BY <1>1, Smallest
<1> QED
  BY <1>2 DEF Least

\* The status of one entry is read, and is as old as the entry.
LEMMA StatEntryKeeps == ASSUME CaptureInv, StatEntry PROVE CaptureInv'
<1> DEFINE n == Least(Inner.names)
           p == Append(Inner.dir, n)
           rest == [frames EXCEPT ![Len(frames)].names = @ \ {Least(@)}]
<1>1. /\ walk = "scanning" /\ pending = <<>> /\ Inner.names # {} /\ Still
      /\ DiskShape' /\ disk' = disk /\ now' = now /\ Tree \in Trees
  BY StillShape DEF StatEntry, Still, Tree, Trees
<1>2. CASE Fail
  BY <1>1, <1>2, FailKeeps
<1>3. CASE /\ p \in DOMAIN disk[Tree]
           /\ \/ /\ IsDirectory(disk[Tree], p) /\ frames' = Append(rest, Frame(p))
                 /\ seen' = [q \in DOMAIN seen \cup {p} |->
                                   IF q = p THEN disk[Tree][p] ELSE seen[q]]
                 /\ UNCHANGED pending
              \/ frames' = rest /\ pending' = [q \in {p} |-> disk[Tree][p]] /\ UNCHANGED seen
           /\ UNCHANGED <<walk, sweep, manifest, scanned>>
  <2>1. /\ Inner \in OpenFrames /\ Len(frames) \in Nat /\ Len(frames) >= 1
        /\ Inner.dir \in Seq(Names) /\ Inner.names \subseteq Names
        /\ Len(frames) = 1 => Inner = frames[1]
        /\ Len(frames) > 1 => Inner.dir # <<>>
    BY <1>1, InnerShape DEF CaptureInv
  <2>2. n \in Inner.names /\ n \in Names
    BY <1>1, <2>1, LeastIsThere
  <2>3. /\ p \in Seq(Names) /\ p # <<>> /\ (Len(frames) = 1 => p = <<n>>)
        /\ \A m \in Names : Len(frames) > 1 => p # <<m>>
    <3>1. p \in Seq(Names) /\ Len(p) = Len(Inner.dir) + 1 /\ Len(Inner.dir) \in Nat
      BY <2>1, <2>2
    <3>2. Len(frames) > 1 => Len(Inner.dir) > 0
      BY <2>1
    <3>3. Len(frames) = 1 => Inner.dir = <<>>
      BY <1>1, <2>1, Outermost DEF CaptureInv
    <3>4. ASSUME Len(frames) = 1 PROVE p = <<n>>
      <4>1. p = Append(<<>>, n)
        BY <3>3, <3>4
      <4> QED
        BY <4>1
    <3> HIDE DEF p
    <3>5. p # <<>>
      BY <3>1
    <3>6. ASSUME NEW m \in Names, Len(frames) > 1, p = <<m>> PROVE FALSE
      <4>1. Len(p) = 1
        BY <3>6
      <4> QED
        BY <3>1, <3>2, <3>6, <4>1
    <3> QED
      BY <3>1, <3>4, <3>5, <3>6
  <2>4. /\ rest \in Seq(OpenFrames) /\ Len(rest) = Len(frames)
        /\ \A k \in 1..Len(frames) : rest[k].dir = frames[k].dir
             /\ rest[k].changed = frames[k].changed
        /\ Len(frames) = 1 => rest[1].names = frames[1].names \ {n}
        /\ Len(frames) > 1 => rest[1].names = frames[1].names
    <3>1. PICK inner : inner = [Inner EXCEPT !.names = @ \ {n}]
      OBVIOUS
    <3>2. /\ inner \in OpenFrames /\ inner.dir = Inner.dir /\ inner.changed = Inner.changed
          /\ inner.names = Inner.names \ {n}
      BY <2>1, <3>1 DEF OpenFrames
    <3>3. rest = [frames EXCEPT ![Len(frames)] = inner]
      BY <3>1 DEF Inner
    <3>4. frames \in Seq(OpenFrames)
      BY <1>1 DEF CaptureInv, WalkShape
    <3> HIDE DEF rest, n
    <3>5. rest \in Seq(OpenFrames) /\ Len(rest) = Len(frames)
      BY <2>1, <3>2, <3>3, <3>4
    <3>6. rest[Len(frames)] = inner
            /\ \A k \in 1..Len(frames) : k # Len(frames) => rest[k] = frames[k]
      BY <2>1, <3>3, <3>4
    <3> QED
      BY <2>1, <3>2, <3>5, <3>6 DEF Inner
  <2> HIDE DEF rest, n, p
  <2>5. p \in Seq(Names) /\ Tree' = Tree
    BY <1>1, <1>3, EntryShape DEF Tree
  <2>6. CASE /\ frames' = Append(rest, Frame(p))
             /\ seen' = [q \in DOMAIN seen \cup {p} |-> IF q = p THEN disk[Tree][p] ELSE seen[q]]
             /\ UNCHANGED pending
    <3>1. ReadIsDated'
      BY <1>1, <1>3, <2>6, EntryIsRead
    <3>2. Frame(p) \in OpenFrames /\ Frame(p).dir = p
      <4>1. Stat(p) \in Nat /\ NamesIn(disk[Tree], p) \in SUBSET Names
        BY <1>1, <1>3, EntryShape DEF Stat, NamesIn, CaptureInv, DiskShape
      <4> QED
        BY <2>5, <4>1 DEF OpenFrames, Frame
    <3>3. /\ frames' \in Seq(OpenFrames) /\ Len(frames') = Len(frames) + 1
          /\ frames'[Len(frames')] = Frame(p)
          /\ \A k \in 1..Len(frames) : frames'[k] = rest[k]
      BY <2>1, <2>4, <2>6, <3>2
    <3>4. frames'[1].dir = <<>> /\ frames'[1].changed = frames[1].changed /\ frames' # <<>>
      BY <1>1, <2>1, <2>4, <3>3, Outermost DEF CaptureInv
    <3>5. \A k \in 2..Len(frames') : frames'[k].dir # <<>>
      <4>1. \A k \in 2..Len(frames) : frames[k].dir # <<>>
        BY <1>1 DEF CaptureInv, WalkShape
      <4>2. \A k \in 2..Len(frames) : frames'[k].dir = frames[k].dir
        BY <2>1, <2>4, <3>3
      <4> QED
        BY <2>1, <2>3, <3>2, <3>3, <4>1, <4>2
    <3>6. DOMAIN seen' = DOMAIN seen \cup {p}
      BY <2>6
    <3>7. WalkShape'
      BY <1>1, <1>3, <2>5, <2>6, <3>3, <3>4, <3>5, <3>6 DEF CaptureInv, WalkShape
    <3>8. RootIsRead'
      <4>1. ASSUME NEW m \in Names
            PROVE  m \in frames'[1].names \/ <<m>> \in DOMAIN seen' <=>
                     m \in frames[1].names \/ <<m>> \in DOMAIN seen
        BY <2>1, <2>2, <2>3, <2>4, <3>3, <3>6
      <4>2. /\ Stat(<<>>)' = Stat(<<>>) /\ disk'[Tree'] = disk[Tree] /\ walk = "scanning"
            /\ frames'[1].changed = frames[1].changed /\ DOMAIN pending' = DOMAIN pending
        BY <1>1, <1>3, <2>5, <2>6, <3>4 DEF Stat
      <4> QED
        BY <4>1, <4>2 DEF CaptureInv, RootIsRead
    <3>9. SweptWasThere'
      BY <1>1, <1>3 DEF SweptWasThere
    <3> QED
      BY <1>1, <3>1, <3>7, <3>8, <3>9 DEF CaptureInv
  <2>7. CASE frames' = rest /\ pending' = [q \in {p} |-> disk[Tree][p]] /\ UNCHANGED seen
    <3>1. DOMAIN pending' = {p} /\ DOMAIN pending = {}
      BY <1>1, <2>7
    <3>2. ReadIsDated' /\ SweptWasThere'
      BY <1>1, <1>3, <2>5, <2>7 DEF CaptureInv, ReadIsDated, SweptWasThere, Stat
    <3>3. frames'[1].dir = <<>> /\ frames'[1].changed = frames[1].changed /\ frames' # <<>>
      BY <1>1, <2>1, <2>4, <2>7, Outermost DEF CaptureInv
    <3>4. \A k \in 2..Len(frames') : frames'[k].dir # <<>>
      BY <1>1, <2>1, <2>4, <2>7 DEF CaptureInv, WalkShape
    <3>5. WalkShape'
      BY <1>1, <1>3, <2>4, <2>5, <2>7, <3>1, <3>3, <3>4 DEF CaptureInv, WalkShape
    <3>6. RootIsRead'
      <4>1. ASSUME NEW m \in Names
            PROVE  m \in frames'[1].names \/ <<m>> \in DOMAIN pending' <=>
                     m \in frames[1].names \/ <<m>> \in DOMAIN pending
        BY <2>1, <2>2, <2>3, <2>4, <2>7, <3>1
      <4> QED
        BY <1>1, <1>3, <2>5, <2>7, <3>3, <4>1 DEF CaptureInv, RootIsRead, Stat
    <3> QED
      BY <1>1, <3>2, <3>5, <3>6 DEF CaptureInv
  <2> QED
    BY <1>3, <2>6, <2>7
<1> QED
  BY <1>2, <1>3 DEF StatEntry, IsFile, IsDirectory

\* A file's bytes are read between two equal statuses.
LEMMA ReadFileKeeps == ASSUME CaptureInv, ReadStableFile PROVE CaptureInv'
<1>1. walk = "scanning" /\ Still /\ DiskShape'
  BY StillShape DEF ReadStableFile
<1>2. PICK p \in DOMAIN pending :
        \/ Fail
        \/ /\ SameStat(p, "file", pending[p].changed) /\ pending' = <<>>
           /\ seen' = [q \in DOMAIN seen \cup {p} |-> IF q = p THEN disk[Tree][p] ELSE seen[q]]
           /\ UNCHANGED <<walk, frames, sweep, manifest, scanned>>
  BY DEF ReadStableFile
<1>3. CASE Fail
  BY <1>1, <1>3, FailKeeps
<1>4. CASE /\ SameStat(p, "file", pending[p].changed) /\ pending' = <<>>
           /\ seen' = [q \in DOMAIN seen \cup {p} |-> IF q = p THEN disk[Tree][p] ELSE seen[q]]
           /\ UNCHANGED <<walk, frames, sweep, manifest, scanned>>
  <2>1. Tree' = Tree /\ disk' = disk /\ now' = now /\ p \in DOMAIN disk[Tree]
    BY <1>1, <1>4 DEF Tree, Still, SameStat
  <2>2. ReadIsDated' /\ p \in Seq(Names)
    BY <1>1, <1>4, <2>1, EntryIsRead
  <2>3. DOMAIN pending = {p} /\ DOMAIN pending' = {} /\ DOMAIN seen' = DOMAIN seen \cup {p}
    <3>1. \A q \in DOMAIN pending : q = p
      BY <1>1 DEF CaptureInv, WalkShape
    <3>2. DOMAIN pending' = {}
      BY <1>4
    <3>3. DOMAIN seen' = DOMAIN seen \cup {p}
      BY <1>4
    <3> QED
      BY <3>1, <3>2, <3>3
  <2>4. WalkShape'
    BY <1>1, <1>4, <2>1, <2>2, <2>3 DEF CaptureInv, WalkShape
  <2>5. RootIsRead'
    <3>1. /\ Stat(<<>>)' = Stat(<<>>) /\ disk'[Tree'] = disk[Tree] /\ walk = "scanning"
          /\ frames' = frames
      BY <1>1, <1>4, <2>1 DEF Stat
    <3> QED
      BY <2>3, <3>1 DEF CaptureInv, RootIsRead
  <2>6. SweptWasThere'
    BY <1>1, <1>4 DEF SweptWasThere
  <2> QED
    BY <1>1, <2>2, <2>4, <2>5, <2>6 DEF CaptureInv
<1> QED
  BY <1>2, <1>3, <1>4

\* A path of one name is what the root lists.
LEMMA OneName ==
  ASSUME NEW p \in Seq(Names), Len(p) = 1
  PROVE  \E n \in Names : p = <<n>>
<1>1. PICK n \in Names : n = p[1]
  OBVIOUS
<1>2. <<n>> \in Seq(Names) /\ Len(<<n>>) = 1 /\ <<n>>[1] = n
  OBVIOUS
<1>3. p = <<n>>
  BY <1>1, <1>2, SeqEqual
<1> QED
  BY <1>3

\* A directory is closed with the time it was opened with: nothing came or went in it.
LEMMA CloseDirectoryKeeps == ASSUME CaptureInv, CloseDirectory PROVE CaptureInv'
<1>1. /\ walk = "scanning" /\ pending = <<>> /\ Inner.names = {} /\ Still
      /\ DiskShape' /\ disk' = disk /\ now' = now /\ Tree \in Trees
  BY StillShape DEF CloseDirectory, Still, Tree, Trees
<1>2. /\ Len(frames) \in Nat /\ Len(frames) >= 1
      /\ Len(frames) = 1 => Inner = frames[1]
      /\ frames[1].dir = <<>> /\ frames \in Seq(OpenFrames)
  BY <1>1, InnerShape DEF CaptureInv, WalkShape
<1>3. CASE Fail
  BY <1>1, <1>3, FailKeeps
<1>4. CASE /\ frames' = DirectoryOf(frames) /\ Len(frames) > 1
           /\ UNCHANGED <<walk, sweep, scanned, pending, seen, manifest>>
  <2>1. /\ frames' \in Seq(OpenFrames) /\ Len(frames') = Len(frames) - 1
        /\ \A k \in 1..(Len(frames) - 1) : frames'[k] = frames[k]
    BY <1>2, <1>4 DEF DirectoryOf
  <2>2. frames' # <<>> /\ frames'[1] = frames[1]
    BY <1>2, <1>4, <2>1
  <2>3. \A k \in 2..Len(frames') : frames'[k].dir # <<>>
    BY <1>1, <1>2, <2>1 DEF CaptureInv, WalkShape
  <2>4. Tree' = Tree
    BY <1>4 DEF Tree
  <2>5. WalkShape'
    BY <1>1, <1>4, <2>1, <2>2, <2>3, <2>4 DEF CaptureInv, WalkShape
  <2>6. ReadIsDated' /\ SweptWasThere'
    BY <1>1, <1>4, <2>4 DEF CaptureInv, ReadIsDated, SweptWasThere, Stat
  <2>7. RootIsRead'
    <3>1. Stat(<<>>)' = Stat(<<>>) /\ disk'[Tree'] = disk[Tree]
      BY <1>1, <2>4 DEF Stat
    <3> QED
      BY <1>4, <2>2, <3>1 DEF CaptureInv, RootIsRead
  <2> QED
    BY <1>1, <2>5, <2>6, <2>7 DEF CaptureInv
<1>5. CASE /\ SameStat(Inner.dir, "directory", Inner.changed) /\ Len(frames) = 1
           /\ walk' = "sweeping" /\ scanned' = disk[Tree]
           /\ sweep' = {p \in DOMAIN seen : seen[p].kind = "file"}
           /\ UNCHANGED <<pending, seen, manifest>>
  <2>1. Tree' = Tree
    BY <1>5 DEF Tree
  <2>2. WalkShape'
    BY <1>1, <1>5 DEF CaptureInv, WalkShape
  <2>3. ReadIsDated'
    BY <1>1, <1>5, <2>1 DEF CaptureInv, ReadIsDated, Stat
  <2>4. RootIsRead'
    BY <1>5 DEF RootIsRead
  <2>5. /\ <<>> \in DOMAIN disk[Tree] /\ Stat(<<>>) \in 0..now
        /\ scanned'[<<>>].changed = Stat(<<>>)
    <3>1. <<>> \in DOMAIN disk[Tree]
      BY <1>1 DEF CaptureInv, WalkShape
    <3> QED
      BY <1>1, <1>5, <3>1, EntryShape DEF Stat
  <2>8. ASSUME Lone(Stat(<<>>))
        PROVE  \A n \in Names : <<n>> \in DOMAIN disk[Tree] <=> <<n>> \in DOMAIN seen
    <3>1. tick[Stat(<<>>)] = tick[frames[1].changed] /\ frames[1].changed \in 0..now
      <4>1. frames[1].changed \in Nat /\ frames[1].changed <= now /\ now \in Nat
        BY <1>1, Outermost DEF CaptureInv, WalkShape, DiskShape
      <4> QED
        BY <1>1, <1>2, <1>5, <4>1 DEF SameStat
    <3>2. Stat(<<>>) = frames[1].changed /\ frames[1].names = {} /\ DOMAIN pending = {}
      <4>1. Stat(<<>>) = frames[1].changed
        BY <2>8, <3>1 DEF Lone
      <4>2. Len(frames) = 1
        BY <1>5
      <4>3. frames[1].names = {}
        BY <1>1, <1>2, <4>2
      <4> QED
        BY <1>1, <4>1, <4>3
    <3> QED
      BY <1>1, <3>2 DEF CaptureInv, RootIsRead
  <2>6. Lone(Stat(<<>>)) =>
          {p \in DOMAIN scanned' : Len(p) = 1} = {p \in DOMAIN seen : Len(p) = 1}
    <3>1. \A p \in DOMAIN disk[Tree] : p \in Seq(Names)
      BY <1>1, EntryShape
    <3>2. \A p \in DOMAIN seen : p \in Seq(Names)
      BY <1>1 DEF CaptureInv, WalkShape
    <3> QED
      BY <1>5, <2>8, <3>1, <3>2, OneName
  <2>7. SweptWasThere'
    BY <1>1, <1>5, <2>5, <2>6 DEF SweptWasThere, Lone, Still
  <2> QED
    BY <1>1, <2>2, <2>3, <2>4, <2>7 DEF CaptureInv
<1>6. \/ Fail
      \/ /\ SameStat(Inner.dir, "directory", Inner.changed) /\ frames' = DirectoryOf(frames)
         /\ UNCHANGED <<pending, seen, manifest>>
         /\ IF Len(frames) > 1
            THEN UNCHANGED <<walk, sweep, scanned>>
            ELSE /\ walk' = "sweeping" /\ scanned' = disk[Tree]
                 /\ sweep' = {p \in DOMAIN seen : seen[p].kind = "file"}
  BY DEF CloseDirectory
<1>7. Len(frames) > 1 \/ (Len(frames) = 1 /\ ~(Len(frames) > 1))
  BY <1>2
<1> QED
  BY <1>3, <1>4, <1>5, <1>6, <1>7

\* A file whose status is still the one that was read still is what was read.
LEMMA SweepFileKeeps == ASSUME CaptureInv, SweepFile PROVE CaptureInv'
<1>1. walk = "sweeping" /\ Still /\ DiskShape' /\ disk' = disk /\ now' = now
  BY StillShape DEF SweepFile, Still
<1>2. PICK p \in First(sweep) :
        IF SameStat(p, "file", seen[p].changed)
        THEN sweep' = sweep \ {p} /\ UNCHANGED <<walk, frames, pending, seen, manifest, scanned>>
        ELSE Fail
  BY DEF SweepFile
<1>3. CASE Fail
  BY <1>1, <1>3, FailKeeps
<1>4. CASE /\ SameStat(p, "file", seen[p].changed) /\ sweep' = sweep \ {p}
           /\ UNCHANGED <<walk, frames, pending, seen, manifest, scanned>>
  <2>1. Tree' = Tree
    BY <1>4 DEF Tree
  <2>2. p \in DOMAIN seen /\ Lone(seen[p].changed) => p \in DOMAIN scanned /\ scanned[p] = seen[p]
    BY <1>1, <1>4, SameStatIsSame DEF CaptureInv, ReadIsDated
  <2>3. WalkShape' /\ ReadIsDated' /\ RootIsRead'
    BY <1>1, <1>4, <2>1 DEF CaptureInv, WalkShape, ReadIsDated, RootIsRead, Stat
  <2>4. SweptWasThere'
    BY <1>1, <1>4, <2>2 DEF CaptureInv, SweptWasThere, Lone, Still
  <2> QED
    BY <1>1, <2>3, <2>4 DEF CaptureInv
<1> QED
  BY <1>2, <1>3, <1>4

\* The walk that ends well has swept every file.
LEMMA WalkEnds ==
  ASSUME CaptureInv, Still, walk = "sweeping", sweep = {}, UNCHANGED <<pending, seen, scanned>>,
         walk' \in {"captured", "done"}, manifest' = manifest \/ manifest' = Read
  PROVE  CaptureInv'
<1>1. DiskShape' /\ ReadIsDated' /\ RootIsRead'
  BY StillShape DEF CaptureInv, ReadIsDated, RootIsRead, Still
<1>2. WalkShape'
  <2>1. DOMAIN Read = DOMAIN seen
    BY DEF Read
  <2>2. DOMAIN manifest' \subseteq Seq(Names)
    BY <2>1 DEF CaptureInv, WalkShape
  <2> QED
    BY <2>2 DEF CaptureInv, WalkShape
<1>3. SweptWasThere'
  BY DEF CaptureInv, SweptWasThere, Lone, Still
<1> QED
  BY <1>1, <1>2, <1>3 DEF CaptureInv

\* Publishing the manifest keeps the invariant.
LEMMA PublishKeeps == ASSUME CaptureInv, PublishManifest PROVE CaptureInv'
<1>1. CASE Fail
  BY <1>1, FailKeeps, StillShape DEF PublishManifest
<1>2. CASE ~Fail
  BY <1>2, WalkEnds DEF PublishManifest
<1> QED
  BY <1>1, <1>2

\* Accepting the copy keeps the invariant.
LEMMA AcceptCopyKeeps == ASSUME CaptureInv, AcceptCopy PROVE CaptureInv'
<1>1. CASE Fail
  BY <1>1, FailKeeps, StillShape DEF AcceptCopy
<1>2. CASE ~Fail
  BY <1>2, WalkEnds DEF AcceptCopy
<1> QED
  BY <1>1, <1>2

\* A copy that is being written is not walked yet.
LEMMA WritingKeeps ==
  ASSUME CaptureInv, DiskShape', walk' = "materializing", UNCHANGED <<pending, manifest>>,
         pending = <<>>,
         <<>> \in DOMAIN disk'[Tree]
  PROVE  CaptureInv'
<1>1. Tree' = Tree
  BY DEF Tree
<1> QED
  BY <1>1 DEF CaptureInv, WalkShape, ReadIsDated, RootIsRead, SweptWasThere

\* What is written to the copy is dated now.
LEMMA CopyShape ==
  ASSUME CaptureInv, UNCHANGED now, NEW entries, disk' = [disk EXCEPT !.copy = entries],
         \A q \in DOMAIN entries :
           \/ q \in DOMAIN disk.copy /\ entries[q] = disk.copy[q]
           \/ /\ q \in Seq(Names)
              /\ entries[q] = [kind |-> entries[q].kind, bytes |-> entries[q].bytes,
                 changed |-> now]
  PROVE  DiskShape'
<1>1. /\ now \in Nat /\ disk = [source |-> disk.source, copy |-> disk.copy]
      /\ <<>> \in DOMAIN disk.source
  BY DEF CaptureInv, DiskShape
<1>2. /\ disk' = [source |-> disk'.source, copy |-> disk'.copy]
      /\ disk'.source = disk.source /\ disk'.copy = entries
  BY <1>1
<1>3. ASSUME NEW q \in DOMAIN entries
      PROVE  /\ q \in Seq(Names) /\ entries[q].changed \in 0..now
             /\ entries[q] = [kind |-> entries[q].kind, bytes |-> entries[q].bytes,
                              changed |-> entries[q].changed]
  <2>1. CASE q \in DOMAIN disk.copy /\ entries[q] = disk.copy[q]
    BY <2>1 DEF CaptureInv, DiskShape, Trees
  <2>2. CASE /\ q \in Seq(Names)
             /\ entries[q] = [kind |-> entries[q].kind, bytes |-> entries[q].bytes, changed |-> now]
    BY <1>1, <2>2
  <2> QED
    BY <2>1, <2>2
<1>4. \A q \in DOMAIN disk.source :
        /\ q \in Seq(Names) /\ disk.source[q].changed \in 0..now
        /\ disk.source[q] = [kind |-> disk.source[q].kind, bytes |-> disk.source[q].bytes,
                             changed |-> disk.source[q].changed]
  BY DEF CaptureInv, DiskShape, Trees
<1> QED
  BY <1>1, <1>2, <1>3, <1>4 DEF DiskShape, Trees

\* Making the root of the copy keeps the invariant.
LEMMA MakeRootKeeps == ASSUME CaptureInv, MakeRoot PROVE CaptureInv'
<1> DEFINE root == [p \in {<<>>} |->
                [kind |-> "directory", bytes |-> CHOOSE b \in Bytes : TRUE, changed |-> now]]
<1>1. disk' = [disk EXCEPT !.copy = root] /\ UNCHANGED <<now, pending, manifest>> /\ pending = <<>>
  BY DEF MakeRoot, CaptureInv, WalkShape
<1>2. \A q \in DOMAIN root :
        /\ q \in Seq(Names)
        /\ root[q] = [kind |-> root[q].kind, bytes |-> root[q].bytes, changed |-> now]
  OBVIOUS
<1>3. <<>> \in DOMAIN root
  OBVIOUS
<1> HIDE DEF root
<1>4. DiskShape'
  BY <1>1, <1>2, CopyShape
<1>5. <<>> \in DOMAIN disk'[Tree]
  BY <1>1, <1>3 DEF CaptureInv, DiskShape, Tree
<1> QED
  BY <1>1, <1>4, <1>5, WritingKeeps DEF MakeRoot

\* Writing an entry of the copy keeps the invariant.
LEMMA WriteEntryKeeps == ASSUME CaptureInv, WriteEntry PROVE CaptureInv'
<1>1. walk = "materializing" /\ UNCHANGED now
  BY DEF WriteEntry
<1>2. PICK p \in First(Unwritten) :
        \/ Fail /\ UNCHANGED disk
        \/ /\ disk' = [disk EXCEPT !.copy = [q \in DOMAIN @ \cup {p} |->
                           IF q = p THEN [kind |-> manifest[p].kind,
                                          bytes |-> manifest[p].bytes, changed |-> now]
                           ELSE @[q]]]
           /\ UNCHANGED <<walk, pending, manifest>>
  BY DEF WriteEntry
<1>3. CASE Fail /\ UNCHANGED disk
  <2>1. DiskShape'
    BY <1>1, <1>3 DEF CaptureInv, DiskShape
  <2> QED
    BY <1>3, <2>1, FailKeeps
<1> DEFINE entries == [q \in DOMAIN disk.copy \cup {p} |->
                           IF q = p THEN [kind |-> manifest[p].kind,
                                          bytes |-> manifest[p].bytes, changed |-> now]
                           ELSE disk.copy[q]]
<1>4. CASE disk' = [disk EXCEPT !.copy = entries] /\ UNCHANGED <<walk, pending, manifest>>
  <2>1. p \in Seq(Names)
    BY DEF First, Unwritten, CaptureInv, WalkShape
  <2>2. \A q \in DOMAIN entries :
           \/ q \in DOMAIN disk.copy /\ entries[q] = disk.copy[q]
           \/ /\ q \in Seq(Names)
              /\ entries[q] = [kind |-> entries[q].kind, bytes |-> entries[q].bytes,
                 changed |-> now]
    BY <2>1
  <2>3. DOMAIN disk.copy \subseteq DOMAIN entries
    OBVIOUS
  <2> HIDE DEF entries
  <2>4. DiskShape'
    BY <1>1, <1>4, <2>2, CopyShape
  <2>5. disk'.source = disk.source /\ disk'.copy = entries
    BY <1>4 DEF CaptureInv, DiskShape
  <2>6. <<>> \in DOMAIN disk'[Tree]
    BY <1>1, <2>3, <2>5 DEF CaptureInv, DiskShape, WalkShape, Tree
  <2>7. pending = <<>>
    BY <1>1 DEF CaptureInv, WalkShape
  <2> QED
    BY <1>1, <1>4, <2>4, <2>6, <2>7, WritingKeeps
<1> QED
  BY <1>2, <1>3, <1>4

\* Every step of the walk, and of the writer beside it.
LEMMA CaptureKeepsInv == CaptureInv /\ [CaptureNext]_captureVars => CaptureInv'
<1> SUFFICES ASSUME CaptureInv, [CaptureNext]_captureVars PROVE CaptureInv'
  OBVIOUS
<1>1. ASSUME NEW t \in {"source", "copy"}, NEW p \in Paths, NEW b \in Bytes,
             WriteFile(t, p, b) \/ MakeEntry(t, p, "file", b)
      PROVE  CaptureInv'
  BY <1>1, WriteFileKeeps, MakeEntryKeeps DEF Trees
<1>2. ASSUME NEW t \in {"source", "copy"}, NEW p \in Paths,
             \/ \E kind \in {"directory", "special"} :
                  MakeEntry(t, p, kind, CHOOSE b \in Bytes : TRUE)
             \/ RemoveEntry(t, p)
      PROVE  CaptureInv'
  BY <1>2, MakeEntryKeeps, RemoveEntryKeeps DEF Trees
<1>3. CASE BeginWalk
  BY <1>3, BeginWalkKeeps
<1>4. CASE StatEntry
  BY <1>4, StatEntryKeeps
<1>5. CASE ReadStableFile
  BY <1>5, ReadFileKeeps
<1>6. CASE CloseDirectory
  BY <1>6, CloseDirectoryKeeps
<1>7. CASE SweepFile
  BY <1>7, SweepFileKeeps
<1>8. CASE PublishManifest
  BY <1>8, PublishKeeps
<1>9. CASE MakeRoot
  BY <1>9, MakeRootKeeps
<1>10. CASE WriteEntry
  BY <1>10, WriteEntryKeeps
<1>11. CASE BeginVerify
  BY <1>11, BeginVerifyKeeps
<1>12. CASE AcceptCopy
  BY <1>12, AcceptCopyKeeps
<1>13. CASE UNCHANGED captureVars
  BY <1>13 DEF captureVars, CaptureInv, DiskShape, WalkShape, ReadIsDated, RootIsRead,
               SweptWasThere, Stat, Tree, Lone
<1> QED
  BY <1>1, <1>2, <1>3, <1>4, <1>5, <1>6, <1>7, <1>8, <1>9, <1>10, <1>11, <1>12, <1>13
     DEF CaptureNext

\* What a capture or a verification that succeeds recorded was there when its walk ended,
\* but for changes that share a tick (decoded_artifact.py), for trees of any shape and any
\* writer.
THEOREM CaptureRecordsWhatWasThere == CaptureSpec => []RecordedWasThere
BY RecordFollows, CaptureStarts, CaptureKeepsInv, PTL DEF CaptureSpec

-----------------------------------------------------------------------------
(*****************************************************************************)
(* SourceAdmission: the destination is the whole admitted manifest.          *)
(*****************************************************************************)

\* A tree made of files of the manifest.
PartOfManifest(tree) ==
  /\ DOMAIN tree \subseteq DOMAIN SourceManifest
  /\ tree = [f \in DOMAIN tree |-> SourceManifest[f]]

AdmissionShape ==
  /\ DOMAIN admitting = Admitters
  /\ DOMAIN preflight = Admitters
  /\ DOMAIN temporary = Admitters

\* What was checked is of the manifest, and what is written is what was checked.
CheckedIsWritten ==
  \A a \in Admitters :
    /\ PartOfManifest(preflight[a])
    /\ admitting[a] = "writing" =>
         DOMAIN preflight[a] = DOMAIN SourceManifest /\ PartOfManifest(temporary[a])
    /\ admitting[a] = "synced" => temporary[a] = SourceManifest

\* What stands under the destination's name is whole and was synced before it
\* got there; who is past the sync of the name still finds it.
DestinationStands ==
  /\ destination # NoTree => destination = SourceManifest /\ "tree" \in synced
  /\ \A a \in Admitters :
       /\ admitting[a] \in {"published", "reported", "verified"} => destination # NoTree
       /\ admitting[a] \in {"reported", "verified"} => "name" \in synced

AdmissionInv == AdmissionShape /\ CheckedIsWritten /\ DestinationStands

-----------------------------------------------------------------------------
\* An empty tree holds part of the manifest.
LEMMA EmptyIsPart == PartOfManifest(EmptyTree)
  BY DEF PartOfManifest, EmptyTree

\* So does a tree that comes to hold one more of its files.
LEMMA HoldingIsPart ==
  ASSUME NEW tree, PartOfManifest(tree), NEW f \in DOMAIN SourceManifest
  PROVE  PartOfManifest(Holding(tree, f, SourceManifest[f]))
  BY DEF PartOfManifest, Holding

\* A part that holds every file is the manifest.
LEMMA WholeIsManifest ==
  ASSUME NEW tree, PartOfManifest(tree), DOMAIN tree = DOMAIN SourceManifest
  PROVE  tree = SourceManifest
  BY AdmissionAssumption DEF PartOfManifest, AdmissionAssumption

\* No worker has begun to admit a source.
LEMMA AdmissionStarts == AdmissionInit => AdmissionInv
  BY EmptyIsPart
  DEF AdmissionInit, AdmissionInv, AdmissionShape, CheckedIsWritten, DestinationStands

\* Every step of a worker or of the disk keeps the invariant.
LEMMA AdmissionKeeps == AdmissionInv /\ [AdmissionNext]_admissionVars => AdmissionInv'
<1> SUFFICES ASSUME AdmissionInv, [AdmissionNext]_admissionVars
             PROVE  AdmissionInv'
  OBVIOUS
<1> USE DEF AdmissionInv, AdmissionShape
<1>1. CASE RecordAdmission
  BY <1>1 DEF RecordAdmission, CheckedIsWritten, DestinationStands, PartOfManifest
<1>2. CASE PowerCut
  <2>1. AdmissionShape' /\ CheckedIsWritten'
    BY <1>2 DEF PowerCut, CheckedIsWritten, PartOfManifest, Ended
  <2>2. destination' # NoTree => destination' = SourceManifest /\ "tree" \in synced'
    BY <1>2 DEF PowerCut, DestinationStands
  <2>3. ASSUME NEW a \in Admitters,
               admitting'[a] \in {"published", "reported", "verified"}
        PROVE  destination' # NoTree /\ "name" \in synced'
    <3>1. admitting[a] = "verified"
      BY <1>2, <2>3 DEF PowerCut, Ended
    <3>2. destination # NoTree /\ {"name", "tree"} \subseteq synced
      BY <3>1 DEF DestinationStands
    <3> QED
      BY <1>2, <3>2 DEF PowerCut
  <2> QED
    BY <2>1, <2>2, <2>3 DEF DestinationStands
<1>3. ASSUME NEW f \in SourceFiles, EditSource(f)
      PROVE  AdmissionInv'
  BY <1>3 DEF EditSource, CheckedIsWritten, DestinationStands, PartOfManifest
<1>4. ASSUME NEW a \in Admitters, BeginAdmission(a)
      PROVE  AdmissionInv'
  BY <1>4 DEF BeginAdmission, MoveTo, CheckedIsWritten, DestinationStands, PartOfManifest
<1>5. ASSUME NEW a \in Admitters, ReadSource(a)
      PROVE  AdmissionInv'
  <2>1. PICK f \in DOMAIN SourceManifest \ DOMAIN preflight[a] :
          IF f \in DOMAIN sourceRoot /\ sourceRoot[f] = SourceManifest[f]
          THEN /\ preflight' = [preflight EXCEPT ![a] = Holding(@, f, sourceRoot[f])]
               /\ UNCHANGED admitting
          ELSE MoveTo(a, "failed") /\ UNCHANGED preflight
    BY <1>5 DEF ReadSource
  <2>2. CASE f \in DOMAIN sourceRoot /\ sourceRoot[f] = SourceManifest[f]
    <3>1. preflight' = [preflight EXCEPT ![a] = Holding(@, f, SourceManifest[f])]
          /\ UNCHANGED admitting
      BY <2>1, <2>2
    <3>2. PartOfManifest(preflight'[a])
      BY <3>1, HoldingIsPart DEF CheckedIsWritten
    <3>3. CheckedIsWritten'
      BY <1>5, <3>1, <3>2 DEF ReadSource, CheckedIsWritten, PartOfManifest
    <3> QED
      BY <1>5, <3>1, <3>3 DEF ReadSource, DestinationStands
  <2>3. CASE ~(f \in DOMAIN sourceRoot /\ sourceRoot[f] = SourceManifest[f])
    BY <1>5, <2>1, <2>3
    DEF ReadSource, MoveTo, CheckedIsWritten, DestinationStands, PartOfManifest
  <2> QED
    BY <2>2, <2>3
<1>6. ASSUME NEW a \in Admitters, MakeTemporary(a)
      PROVE  AdmissionInv'
  <2>1. CheckedIsWritten'
    BY <1>6, EmptyIsPart DEF MakeTemporary, MoveTo, CheckedIsWritten, PartOfManifest
  <2> QED
    BY <1>6, <2>1 DEF MakeTemporary, MoveTo, DestinationStands
<1>7. ASSUME NEW a \in Admitters, WriteSource(a)
      PROVE  AdmissionInv'
  <2>1. PICK f \in DOMAIN preflight[a] \ DOMAIN temporary[a] :
          temporary' = [temporary EXCEPT ![a] = Holding(@, f, preflight[a][f])]
    BY <1>7 DEF WriteSource
  <2>2. f \in DOMAIN SourceManifest /\ preflight[a][f] = SourceManifest[f]
    BY <2>1 DEF CheckedIsWritten, PartOfManifest
  <2>3. PartOfManifest(temporary'[a])
    BY <1>7, <2>1, <2>2, HoldingIsPart DEF WriteSource, CheckedIsWritten
  <2>4. CheckedIsWritten'
    BY <1>7, <2>1, <2>3 DEF WriteSource, CheckedIsWritten, PartOfManifest
  <2> QED
    BY <1>7, <2>1, <2>4 DEF WriteSource, DestinationStands
<1>8. ASSUME NEW a \in Admitters, SyncTemporary(a)
      PROVE  AdmissionInv'
  <2>1. temporary[a] = SourceManifest
    BY <1>8, WholeIsManifest DEF SyncTemporary, CheckedIsWritten
  <2> QED
    BY <1>8, <2>1 DEF SyncTemporary, MoveTo, CheckedIsWritten, DestinationStands, PartOfManifest
<1>9. ASSUME NEW a \in Admitters, PublishWithoutOverwrite(a)
      PROVE  AdmissionInv'
  <2>1. CheckedIsWritten'
    BY <1>9 DEF PublishWithoutOverwrite, Rename, MoveTo, CheckedIsWritten, PartOfManifest
  <2>2. DestinationStands'
    <3>1. temporary[a] = SourceManifest /\ SourceManifest # NoTree
      BY <1>9, AdmissionAssumption
      DEF PublishWithoutOverwrite, CheckedIsWritten, AdmissionAssumption
    <3> QED
      BY <1>9, <3>1 DEF PublishWithoutOverwrite, Rename, MoveTo, DestinationStands
  <2> QED
    BY <1>9, <2>1, <2>2 DEF PublishWithoutOverwrite, Rename, MoveTo
<1>10. ASSUME NEW a \in Admitters, RemoveTemporary(a)
       PROVE  AdmissionInv'
  BY <1>10 DEF RemoveTemporary, MoveTo, CheckedIsWritten, DestinationStands, PartOfManifest
<1>11. ASSUME NEW a \in Admitters, SyncAttempt(a)
       PROVE  AdmissionInv'
  BY <1>11 DEF SyncAttempt, MoveTo, CheckedIsWritten, DestinationStands, PartOfManifest
<1>12. ASSUME NEW a \in Admitters, VerifyStaged(a)
       PROVE  AdmissionInv'
  BY <1>12 DEF VerifyStaged, MoveTo, CheckedIsWritten, DestinationStands, PartOfManifest
<1>13. ASSUME NEW a \in Admitters, KillAdmitter(a)
       PROVE  AdmissionInv'
  BY <1>13 DEF KillAdmitter, MoveTo, CheckedIsWritten, DestinationStands, PartOfManifest
<1>14. CASE UNCHANGED admissionVars
  BY <1>14 DEF admissionVars, CheckedIsWritten, DestinationStands, PartOfManifest
<1> QED
  BY <1>1, <1>2, <1>3, <1>4, <1>5, <1>6, <1>7, <1>8, <1>9, <1>10, <1>11, <1>12, <1>13, <1>14
  DEF AdmissionNext

\* What stands at the destination of a source admission is the admitted manifest,
\* whole, and what was verified there survives a power cut
\* (source_admission.py, _admit and _publish_without_overwrite).
THEOREM DestinationHolds == AdmissionSpec => []DestinationIsTheManifest
<1>1. AdmissionInv => DestinationIsTheManifest
  BY DEF AdmissionInv, DestinationStands, DestinationIsTheManifest
<1> QED
  BY <1>1, AdmissionStarts, AdmissionKeeps, PTL DEF AdmissionSpec

=============================================================================
