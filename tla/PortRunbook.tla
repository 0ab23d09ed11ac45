------------------------------ MODULE PortRunbook ------------------------------
(***************************************************************************)
(* The runbook of a port (tools/port.py): the steps from a stock APK to a  *)
(* patched build on the phone, each with a predicate on the artefacts that  *)
(* says whether it is already done.  Every run starts at the top, passes    *)
(* over what is done and executes the rest.  With it the walks of the phone *)
(* (run_corpus.py, device_session.py), the recording of what they captured  *)
(* (record_corpus.py, observation.py) and the people who rule, discard,     *)
(* start over or pick up the phone between two runs.                        *)
(*                                                                         *)
(* A step that fails, a phone that is not there, a predicate that cannot    *)
(* answer and a killed process all end the run where it stands.             *)
(***************************************************************************)
EXTENDS Integers, Sequences, FiniteSets

CONSTANTS
    PhoneWalks,     \* number of walks (WALKS)
    WalkLength,     \* number of sessions of a walk, each under toggles of its own
    ToggleStates,   \* the toggle states a phone can be in
    MaxRequests,    \* bound: watched requests in one session
    Raisable,       \* the endpoints that may become candidates
    MaxBuilds,      \* bound: builds made
    Unstated        \* the toggle state of a capture that states none

ASSUME RunbookAssumption ==
    /\ PhoneWalks \in Nat /\ WalkLength \in Nat /\ MaxRequests \in Nat /\ MaxBuilds \in Nat
    /\ Unstated \notin ToggleStates

WalkSessions == 1..WalkLength
EachWalk == 1..PhoneWalks

\* STEPS; beside the name, the walk the step is about.
PortSteps ==
    <<<<"index", 0>>, <<"watch", 0>>, <<"observe-build", 0>>, <<"sign", 0>>,
      <<"install", 0>>, <<"warm", 0>>>>
    \o [w \in EachWalk |-> <<"walk", w>>] \o [w \in EachWalk |-> <<"record", w>>]
    \o <<<<"assess", 0>>, <<"raise-gate", 0>>, <<"ship-build", 0>>, <<"ship-sign", 0>>,
         <<"ship-install", 0>>>>

Stopped  == 0
Finished == Len(PortSteps) + 1

\* A build, for its digest; number 0 is no build, and Instagram's own on the phone.
NoBuild == [number |-> 0, observes |-> FALSE]

VARIABLES
    runAt,       \* where the run stands
    gateGiven,   \* the run was given the gate's options
    indexed,     \* the index is complete
    raised,      \* the candidates that index and manifest raise
    watched,     \* observe_watch
    ruledOn,     \* the candidates with a row in rulings.jsonl
    outDir,      \* the run directory: APK, signed APK, warm and gate markers
    shipDir,     \* the shippable build's, with the rulings it was rendered after
    phone,       \* the build that is installed
    captures,    \* of each walk and session, the log taken, of which build and when
    sessionRows, \* manifest/observations, by walk and session
    assessed,    \* the ledger has this run's assessment
    built        \* number of builds so far

runbookVars == <<runAt, gateGiven, indexed, raised, watched, ruledOn, outDir, shipDir,
                 phone, captures, sessionRows, assessed, built>>

EmptyOut  == [apk |-> NoBuild, signed |-> NoBuild, warm |-> FALSE, gate |-> FALSE]
EmptyShip == [apk |-> NoBuild, signed |-> NoBuild, ruled |-> {}]
NoneOfAny == [w \in EachWalk |-> [s \in WalkSessions |-> {}]]

RunbookInit ==
    /\ runAt = Stopped /\ gateGiven = FALSE /\ indexed = FALSE
    /\ raised = {} /\ watched = {} /\ ruledOn = {}
    /\ outDir = EmptyOut /\ shipDir = EmptyShip /\ phone = NoBuild
    /\ captures = NoneOfAny /\ sessionRows = NoneOfAny /\ assessed = FALSE /\ built = 0

-----------------------------------------------------------------------------
(* What a phone logs, and what is read of it.                               *)

\* The settings dialog a session sets its toggles in exists in our builds only.
DialogOpens(build) == build # NoBuild

\* A build that observes states its toggles on every request, ahead of its count.
RequestLog(states) ==
    [i \in 1..(2 * Len(states)) |->
       [says |-> IF i % 2 = 1 THEN "toggles" ELSE "count", under |-> states[(i + 1) \div 2]]]

\* logcat -d at the end of a session.  Its requests need not all be under the toggles
\* that were read back before it: somebody may flip one since, and the result of
\* logcat -c is not looked at, so that lines from before the session may be left.  The
\* buffer drops its oldest lines, and of a phone that is gone there is none at all.
LogsOf(build) ==
    IF ~build.observes THEN {<<>>}
    ELSE LET states == UNION {[1..n -> ToggleStates] : n \in 0..MaxRequests}
         IN UNION {{SubSeq(RequestLog(r), k, 2 * Len(r)) : k \in 1..(2 * Len(r) + 1)} :
                     r \in states}

TogglesStated(log) == {log[i].under : i \in {j \in DOMAIN log : log[j].says = "toggles"}}

\* parse refuses two statements that differ and a count ahead of any statement.
Parseable(log) ==
    /\ Cardinality(TogglesStated(log)) <= 1
    /\ \A i \in DOMAIN log :
         log[i].says = "count" => \E j \in 1..(i - 1) : log[j].says = "toggles"

TheCapture(w, s) == CHOOSE c \in captures[w][s] : TRUE

\* The row observation.py makes of a capture: the build is what the caller says, the
\* toggles are what the capture says.
RowOf(w, s) ==
    LET c == TheCapture(w, s)
    IN [filed |-> outDir.signed, capture |-> c,
        toggles |-> IF c.log = <<>> THEN Unstated
                    ELSE CHOOSE t \in TogglesStated(c.log) : TRUE]

\* append: one row to a session, and none that counts without its toggles.
MayAppend(w, s) ==
    /\ Parseable(TheCapture(w, s).log)
    /\ sessionRows[w][s] = {}

-----------------------------------------------------------------------------
(* Which steps are done, and which may not run.                             *)

\* Mutant: the version the phone reports, which all our builds share.
OnDeviceIsVersion(apk) == apk # NoBuild /\ phone # NoBuild

\* _on_device_is compares the digest of what is installed.
OnDeviceIs(apk) == apk # NoBuild /\ phone = apk

Walked(w) == {s \in WalkSessions : captures[w][s] # {}}

\* sessions_for: the rows of a walk that are filed under the build of this run.
SessionsFor(w) ==
    {s \in WalkSessions : \E row \in sessionRows[w][s] : row.filed = outDir.signed}

\* _unruled_candidates
Unruled == IF indexed THEN raised \ ruledOn ELSE {}

\* The predicates of STEPS.
Done(name, w) ==
    \/ name = "index" /\ indexed
    \/ name = "watch" /\ indexed /\ raised \subseteq watched
    \/ name = "observe-build" /\ outDir.apk # NoBuild
    \/ name = "sign" /\ outDir.signed # NoBuild
    \/ name = "install" /\ OnDeviceIs(outDir.signed)
    \/ name = "warm" /\ (outDir.warm \/ Walked(1) # {})
    \/ name = "walk" /\ Walked(w) = WalkSessions
    \/ name = "record" /\ SessionsFor(w) = WalkSessions
    \/ name = "assess" /\ (Unruled = {} \/ (gateGiven /\ assessed))
    \/ name = "raise-gate" /\ (Unruled = {} \/ outDir.gate)
    \/ name = "ship-build" /\ shipDir.apk # NoBuild
    \/ name = "ship-sign" /\ shipDir.signed # NoBuild
    \/ name = "ship-install" /\ OnDeviceIs(shipDir.signed)

\* blocked_by: the two gate steps without the gate's options, and the shippable build.
Blocked(name) ==
    /\ Unruled # {}
    /\ \/ name = "ship-build"
       \/ name \in {"assess", "raise-gate"} /\ ~gateGiven

Passes(i) == Done(PortSteps[i][1], PortSteps[i][2]) /\ ~Blocked(PortSteps[i][1])

\* Where a run that is at step i stands once it has passed over what is done.
Reaches(i) ==
    CHOOSE j \in i..Finished :
        (j = Finished \/ ~Passes(j)) /\ \A k \in i..(j - 1) : Passes(k)

Executes(name) ==
    /\ runAt \in DOMAIN PortSteps /\ PortSteps[runAt][1] = name
    /\ ~Blocked(name)

TheWalk == PortSteps[runAt][2]
GoesOn == UNCHANGED gateGiven /\ \E i \in {runAt} : runAt' = Reaches(i)'
Halts == runAt' = Stopped /\ gateGiven' = FALSE

-----------------------------------------------------------------------------
(* A run.                                                                   *)

StartRunbook(given) ==
    /\ runAt = Stopped
    /\ gateGiven' = given
    /\ UNCHANGED <<indexed, raised, watched, ruledOn, outDir, shipDir, phone, captures,
                   sessionRows, assessed, built>>
    /\ runAt' = Reaches(1)'

\* Blocked, failed, killed, or at the end.
RunbookStops ==
    /\ runAt # Stopped
    /\ Halts
    /\ UNCHANGED <<indexed, raised, watched, ruledOn, outDir, shipDir, phone, captures,
                   sessionRows, assessed, built>>

IndexSurface ==
    /\ Executes("index")
    /\ indexed' = TRUE
    /\ UNCHANGED <<raised, watched, ruledOn, outDir, shipDir, phone, captures,
                   sessionRows, assessed, built>>
    /\ GoesOn

WatchCandidates ==
    /\ Executes("watch")
    /\ watched' = watched \cup raised
    /\ UNCHANGED <<indexed, raised, ruledOn, outDir, shipDir, phone, captures,
                   sessionRows, assessed, built>>
    /\ GoesOn

\* _build_leavings: everything in the run directory but decode, index and framework
\* is removed before the build, the markers of earlier runs with it.
ObserveBuild ==
    /\ Executes("observe-build")
    /\ UNCHANGED <<indexed, raised, watched, ruledOn, shipDir, phone, captures,
                   sessionRows, assessed>>
    /\ \/ /\ built < MaxBuilds
          /\ built' = built + 1
          /\ outDir' = [EmptyOut EXCEPT !.apk = [number |-> built', observes |-> TRUE]]
          /\ GoesOn
       \/ outDir' = EmptyOut /\ Halts /\ UNCHANGED built

SignObserving ==
    /\ Executes("sign")
    /\ outDir' = [outDir EXCEPT !.signed = outDir.apk]
    /\ UNCHANGED <<indexed, raised, watched, ruledOn, shipDir, phone, captures,
                   sessionRows, assessed, built>>
    /\ GoesOn

InstallObserving ==
    /\ Executes("install")
    /\ phone' = outDir.signed
    /\ UNCHANGED <<indexed, raised, watched, ruledOn, outDir, shipDir, captures,
                   sessionRows, assessed, built>>
    /\ GoesOn

WarmPhone ==
    /\ Executes("warm")
    /\ outDir' = [outDir EXCEPT !.warm = TRUE]
    /\ UNCHANGED <<indexed, raised, watched, ruledOn, shipDir, phone, captures,
                   sessionRows, assessed, built>>
    /\ GoesOn

\* run_corpus: the first session without a capture, on whatever build is installed.
WalkSession ==
    /\ Executes("walk") /\ DialogOpens(phone)
    /\ \E s \in WalkSessions \ Walked(TheWalk) :
         /\ \A t \in 1..(s - 1) : t \in Walked(TheWalk)
         /\ \E log \in LogsOf(phone) :
              captures' = [captures EXCEPT ![TheWalk][s] =
                             {[build |-> phone, log |-> log, after |-> built]}]
    /\ UNCHANGED <<indexed, raised, watched, ruledOn, outDir, shipDir, phone,
                   sessionRows, assessed, built>>
    /\ GoesOn

\* record_corpus files the captures in their order, from the first one, and ends at
\* the first that is refused; or it dies after any of them.
RecordWalk ==
    /\ Executes("record")
    /\ \E n \in WalkSessions :
         /\ \A s \in 1..n : MayAppend(TheWalk, s)
         /\ sessionRows' = [sessionRows EXCEPT ![TheWalk] =
                              [s \in WalkSessions |->
                                 IF s <= n THEN {RowOf(TheWalk, s)} ELSE @[s]]]
         /\ UNCHANGED <<indexed, raised, watched, ruledOn, outDir, shipDir, phone,
                        captures, assessed, built>>
         /\ IF n = WalkLength THEN GoesOn ELSE Halts

RecordAssessment ==
    /\ Executes("assess")
    /\ assessed' = TRUE
    /\ UNCHANGED <<indexed, raised, watched, ruledOn, outDir, shipDir, phone, captures,
                   sessionRows, built>>
    /\ GoesOn

RaiseGate ==
    /\ Executes("raise-gate")
    /\ outDir' = [outDir EXCEPT !.gate = TRUE]
    /\ UNCHANGED <<indexed, raised, watched, ruledOn, shipDir, phone, captures,
                   sessionRows, assessed, built>>
    /\ GoesOn

\* Renders url_block_rules as the rulings left them; _ship_leavings go first.
ShipBuild ==
    /\ Executes("ship-build")
    /\ UNCHANGED <<indexed, raised, watched, ruledOn, outDir, phone, captures,
                   sessionRows, assessed>>
    /\ \/ /\ built < MaxBuilds
          /\ built' = built + 1
          /\ shipDir' = [EmptyShip EXCEPT !.apk = [number |-> built', observes |-> FALSE],
                                          !.ruled = ruledOn]
          /\ GoesOn
       \/ shipDir' = EmptyShip /\ Halts /\ UNCHANGED built

ShipSign ==
    /\ Executes("ship-sign")
    /\ shipDir' = [shipDir EXCEPT !.signed = shipDir.apk]
    /\ UNCHANGED <<indexed, raised, watched, ruledOn, outDir, phone, captures,
                   sessionRows, assessed, built>>
    /\ GoesOn

ShipInstall ==
    /\ Executes("ship-install")
    /\ phone' = shipDir.signed
    /\ UNCHANGED <<indexed, raised, watched, ruledOn, outDir, shipDir, captures,
                   sessionRows, assessed, built>>
    /\ GoesOn

-----------------------------------------------------------------------------
(* Between two runs.                                                        *)

\* An edit of the manifest makes an endpoint a candidate.
RaiseCandidate(c) ==
    /\ runAt = Stopped /\ c \notin raised
    /\ raised' = raised \cup {c}
    /\ UNCHANGED <<runAt, gateGiven, indexed, watched, ruledOn, outDir, shipDir, phone,
                   captures, sessionRows, assessed, built>>

\* A human rules, at the gate or by hand, and the rulings are applied.
RuleOn(c) ==
    /\ runAt = Stopped /\ c \in raised \ ruledOn
    /\ ruledOn' = ruledOn \cup {c}
    /\ UNCHANGED <<runAt, gateGiven, indexed, raised, watched, outDir, shipDir, phone,
                   captures, sessionRows, assessed, built>>

\* A walk is discarded, what is on record of it too, to be walked again.
DiscardWalk(w) ==
    /\ runAt = Stopped
    /\ captures' = [captures EXCEPT ![w] = NoneOfAny[w]]
    /\ sessionRows' = [sessionRows EXCEPT ![w] = NoneOfAny[w]]
    /\ UNCHANGED <<runAt, gateGiven, indexed, raised, watched, ruledOn, outDir, shipDir,
                   phone, assessed, built>>

\* The observing build is dropped, or the next run is given another run directory and
\* this one's index.
\* The captures have a directory of their own, named for the version, and stay.
DropObserving ==
    /\ runAt = Stopped
    /\ outDir' = EmptyOut
    /\ UNCHANGED <<runAt, gateGiven, indexed, raised, watched, ruledOn, shipDir, phone,
                   captures, sessionRows, assessed, built>>

DropShip ==
    /\ runAt = Stopped
    /\ shipDir' = EmptyShip
    /\ UNCHANGED <<runAt, gateGiven, indexed, raised, watched, ruledOn, outDir, phone,
                   captures, sessionRows, assessed, built>>

\* Somebody installs another build by hand.
ReinstallByHand(build) ==
    /\ runAt = Stopped
    /\ phone' = build
    /\ UNCHANGED <<runAt, gateGiven, indexed, raised, watched, ruledOn, outDir, shipDir,
                   captures, sessionRows, assessed, built>>

RunbookNext ==
    \/ \E given \in BOOLEAN : StartRunbook(given)
    \/ RunbookStops
    \/ IndexSurface \/ WatchCandidates \/ ObserveBuild \/ SignObserving \/ InstallObserving
    \/ WarmPhone \/ WalkSession \/ RecordWalk \/ RecordAssessment \/ RaiseGate
    \/ ShipBuild \/ ShipSign \/ ShipInstall
    \/ \E c \in Raisable : RaiseCandidate(c) \/ RuleOn(c)
    \/ \E w \in EachWalk : DiscardWalk(w)
    \/ DropObserving \/ DropShip
    \/ \E build \in {NoBuild, outDir.signed, shipDir.signed} : ReinstallByHand(build)

RunbookSpec == RunbookInit /\ [][RunbookNext]_runbookVars

-----------------------------------------------------------------------------
\* Of a row that is on record every request it counts was made under the toggles it
\* states, and it is filed under the build its session was walked on: otherwise a later
\* comparison reads a silence of another build, or another configuration, as a zero.
\* The exception is a capture that outlived its observing build.  It is filed under the
\* build made in that one's place, never under one that was there when it was taken and
\* never under one that does not observe.
RowsSayWhatWasWalked ==
    \A w \in EachWalk, s \in WalkSessions : \A row \in sessionRows[w][s] :
        /\ \/ row.filed = row.capture.build
           \/ /\ row.filed.observes /\ row.capture.build.observes
              /\ row.capture.after < row.filed.number
        /\ \A i \in DOMAIN row.capture.log :
             row.capture.log[i].says = "count" => row.capture.log[i].under = row.toggles

\* port.py:833: an artefact left by an earlier run must not let the run end as
\* finished with a build that predates a ruling.
FinishedBuildCarriesTheRulings ==
    runAt = Finished => ruledOn \subseteq shipDir.ruled

=============================================================================
