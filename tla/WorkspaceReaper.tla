---------------------------- MODULE WorkspaceReaper ----------------------------
(***************************************************************************)
(* The workspace reaper (reaper.py) against live stage attempts: a survey     *)
(* reads the claims and then walks the attempts root; later everything it     *)
(* found reapable is removed without another look.                            *)
(*                                                                         *)
(* The claims are those of module OperationLedger, changed by its methods.    *)
(* An attempt is one owner; its workspace is the leaf its token names, or the *)
(* validation workspace of an attempt that adopts a recorded output.          *)
(***************************************************************************)
EXTENDS OperationLedger

CONSTANTS
    Floor,      \* MIN_AGE_FLOOR_SECONDS, in days of the model
    LastDay,    \* bound on the clock
    OneInput    \* every attempt of an operation derives the same input

ASSUME ReaperAssumption ==
    /\ Floor \in Nat \ {0} /\ LastDay \in Nat
    /\ OneInput \in Inputs

VARIABLES
    day,      \* the clock
    attempt,  \* the stage attempts: the operation, and the day of the workspace
    keyDirs,  \* operation directories under the attempts root
    made,     \* for every operation, when each existing workspace was made
    reaper    \* the reaper process

reaperVars == <<ledgerVars, day, attempt, keyDirs, made, reaper>>

Leaf(k, o)  == <<k, o>>
Leaves      == Keys \X Owners
NoClaims    == [k \in Keys |-> [status |-> "absent", owner |-> Nobody]]
Resting     == [pc |-> "away", claims |-> NoClaims, moment |-> 0, flags |-> {}, found |-> {}]
NotStarted  == [pc |-> "idle", key |-> CHOOSE k \in Keys : TRUE, since |-> 0]

ReaperInit ==
    /\ history = [k \in Keys |-> <<>>]
    /\ claim = [k \in Keys |-> Backfill(<<>>)]
    /\ day = 1 /\ attempt = [o \in Owners |-> NotStarted]
    /\ keyDirs = {} /\ made = [l \in {} |-> 0] /\ reaper = Resting

-----------------------------------------------------------------------------
(* The stages.                                                              *)

Using(o) == attempt[o].pc \in {"working", "validating"}

\* A stage that was cancelled, or whose worker lost its lease, may work on.
NewDay ==
    /\ day < LastDay
    /\ day' = day + 1
    /\ UNCHANGED <<ledgerVars, attempt, keyDirs, made, reaper>>

Goes(o, from, to) ==
    /\ attempt[o].pc = from
    /\ attempt' = [attempt EXCEPT ![o].pc = to]

StageClaims(o, k) ==
    /\ o # LegacyOwner /\ attempt[o].pc = "idle" /\ Granted(k, OneInput, o, FALSE)
    /\ BeginOperation(k, OneInput, o, FALSE)
    /\ attempt' = [attempt EXCEPT ![o] = [pc |-> "claimed", key |-> k, since |-> 0]]
    /\ UNCHANGED <<day, keyDirs, made, reaper>>

\* A recorded output is adopted after it was validated in a workspace of its own.
StageAdopts(o, k) ==
    /\ o # LegacyOwner /\ attempt[o].pc = "idle" /\ Adoptable(k, OneInput)
    /\ attempt' = [attempt EXCEPT ![o] = [pc |-> "adopting", key |-> k, since |-> 0]]
    /\ UNCHANGED <<ledgerVars, day, keyDirs, made, reaper>>

\* mkdir of the operation's directory, FileExistsError passed over
MakeKeyDir(o) ==
    /\ \/ Goes(o, "claimed", "keyed") \/ Goes(o, "adopting", "readopting")
    /\ keyDirs' = keyDirs \cup {attempt[o].key}
    /\ UNCHANGED <<ledgerVars, day, made, reaper>>

\* The leaf needs the directory to be there still.
MakeLeaf(o) ==
    LET l == Leaf(attempt[o].key, o) IN
    /\ attempt[o].pc \in {"keyed", "readopting"}
    /\ attempt' = [attempt EXCEPT ![o] =
                     [pc |-> IF attempt[o].pc = "keyed" THEN "working" ELSE "validating",
                      key |-> attempt[o].key, since |-> day]]
    /\ attempt[o].key \in keyDirs
    /\ made' = [m \in DOMAIN made \cup {l} |-> IF m = l THEN day ELSE made[m]]
    /\ UNCHANGED <<ledgerVars, day, keyDirs, reaper>>

StagePublishes(o) ==
    LET out == [producer |-> attempt[o].key, content |-> CHOOSE c \in Contents : TRUE] IN
    /\ Goes(o, "working", "published")
    /\ RecordEffect(attempt[o].key, o, out)
    /\ UNCHANGED <<day, keyDirs, made, reaper>>

StageCompletes(o) ==
    /\ \/ Goes(o, "published", "over") \/ Goes(o, "validating", "over")
    /\ CompleteOperation(attempt[o].key, claim[attempt[o].key].output)
    /\ UNCHANGED <<day, keyDirs, made, reaper>>

\* The handler releases or quarantines the claim, or the worker is lost with it.
StageFails(o) ==
    /\ attempt[o].pc \notin {"idle", "over"}
    /\ attempt' = [attempt EXCEPT ![o].pc = "over"]
    /\ \/ ReleasePending(attempt[o].key, o)
       \/ QuarantineOperation(attempt[o].key, o)
       \/ UNCHANGED ledgerVars
    /\ UNCHANGED <<day, keyDirs, made, reaper>>

\* claims --release: the operator takes the owner for dead, and may be wrong.
OperatorReleases(k) ==
    /\ ReleasePending(k, claim[k].owner) /\ claim[k].owner # Nobody
    /\ UNCHANGED <<day, attempt, keyDirs, made, reaper>>

-----------------------------------------------------------------------------
(* The reaper.                                                              *)

Flag == {"--include-quarantined", "--include-orphans"}

\* Mutant: a banked workspace goes whatever its age.
MayReapBanked(claims, moment, flags, k, o) ==
    \/ claims[k].status \in {"effect", "completed"}
    \/ /\ moment - made[Leaf(k, o)] >= Floor
       /\ \/ claims[k].status = "absent" /\ "--include-orphans" \in flags
          \/ claims[k].status = "quarantined" /\ "--include-quarantined" \in flags
          \/ claims[k].status = "pending" /\ claims[k].owner # o

\* _refusal returns None.  The age is that of the workspace and its direct
\* children, which work deeper down does not touch.
MayReap(claims, moment, flags, k, o) ==
    /\ moment - made[Leaf(k, o)] >= Floor
    /\ \/ claims[k].status = "absent" /\ "--include-orphans" \in flags
       \/ claims[k].status = "quarantined" /\ "--include-quarantined" \in flags
       \/ claims[k].status = "pending" /\ claims[k].owner # o
       \/ claims[k].status \in {"effect", "completed"}

ReaperOnly == UNCHANGED <<ledgerVars, day, attempt>>

\* The moment is taken first, then the claims.
ReadClaims(flags) ==
    /\ reaper.pc = "away"
    /\ reaper' = [Resting EXCEPT !.pc = "read", !.moment = day, !.flags = flags,
                    !.claims = [k \in Keys |-> [status |-> claim[k].status,
                                                owner  |-> claim[k].owner]]]
    /\ UNCHANGED <<keyDirs, made>> /\ ReaperOnly

WalkRoot ==
    /\ reaper.pc = "read"
    /\ reaper' = [reaper EXCEPT !.pc = "surveyed",
                    !.found = {l \in DOMAIN made :
                                 MayReap(reaper.claims, reaper.moment, reaper.flags,
                                         l[1], l[2])}]
    /\ UNCHANGED <<keyDirs, made>> /\ ReaperOnly

\* remove_attempt_workspace, one after the other, with no second look at the claims
RemoveLeaf(l) ==
    /\ reaper.pc = "surveyed" /\ l \in reaper.found
    /\ made' = [m \in DOMAIN made \ {l} |-> made[m]]
    /\ reaper' = [reaper EXCEPT !.found = @ \ {l}]
    /\ UNCHANGED keyDirs /\ ReaperOnly

\* An operation's directory goes when it has become empty; rmdir of one that a
\* stage has just filled fails and ends the sweep.
RemoveKeyDir(k) ==
    /\ reaper.pc = "surveyed" /\ \A o \in Owners : Leaf(k, o) \notin reaper.found
    /\ k \in keyDirs /\ \A o \in Owners : Leaf(k, o) \notin DOMAIN made
    /\ keyDirs' = keyDirs \ {k}
    /\ UNCHANGED <<made, reaper>> /\ ReaperOnly

\* Done, unconfirmed, refused or killed: what was removed stays removed.
ReaperEnds ==
    /\ reaper.pc # "away" /\ reaper' = Resting
    /\ UNCHANGED <<keyDirs, made>> /\ ReaperOnly

-----------------------------------------------------------------------------
ReaperNext ==
    \/ NewDay
    \/ \E o \in Owners, k \in Keys : StageClaims(o, k) \/ StageAdopts(o, k)
    \/ \E o \in Owners : \/ MakeKeyDir(o) \/ MakeLeaf(o) \/ StagePublishes(o)
                         \/ StageCompletes(o) \/ StageFails(o)
    \/ \E k \in Keys : OperatorReleases(k) \/ RemoveKeyDir(k)
    \/ \E flags \in SUBSET Flag : ReadClaims(flags)
    \/ WalkRoot \/ ReaperEnds
    \/ \E l \in Leaves : RemoveLeaf(l)

ReaperSpec == ReaperInit /\ [][ReaperNext]_reaperVars

-----------------------------------------------------------------------------
\* No workspace younger than the floor disappears under an attempt that is working
\* or validating in it: not when its operation was banked by another, when an
\* operator released its claim too early, or when claims and directories changed
\* between the survey's two reads and the removal (reaper.py, survey and reap).
LiveWorkspaceSurvives ==
    \A o \in Owners :
        Using(o) /\ day - attempt[o].since < Floor => Leaf(attempt[o].key, o) \in DOMAIN made

=============================================================================
