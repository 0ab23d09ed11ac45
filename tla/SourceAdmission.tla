--------------------------- MODULE SourceAdmission ---------------------------
(***************************************************************************)
(* The admission of a source bundle into an attempt (source_admission.py). *)
(* An admitter reads the files the admitted manifest names, checks each    *)
(* against its digest, writes them to a temporary tree beside the          *)
(* destination, syncs it and renames it there, never over anything.  The   *)
(* source root may be edited meanwhile, several admitters may work on one  *)
(* attempt, any of them may be killed, and the power may be cut.           *)
(*                                                                         *)
(* A tree is a function from the files it has to their bytes; equal bytes  *)
(* stand for equal digests.                                                *)
(***************************************************************************)
EXTENDS Naturals, FiniteSets

CONSTANTS Admitters,     \* calls of admit_source_bundle(_v2) and their verifications
          SourceFiles,   \* the files that may be in the source root
          FileBytes,     \* what they may contain
          SourceManifest,\* the admitted manifest: file -> bytes
          MaxSourceEdits, MaxDeaths, \* bounds on edits of the source, deaths and power cuts
          NoTree

ASSUME AdmissionAssumption ==
  /\ DOMAIN SourceManifest \subseteq SourceFiles
  /\ SourceManifest \in [DOMAIN SourceManifest -> FileBytes] /\ SourceManifest # NoTree
  /\ MaxSourceEdits \in Nat /\ MaxDeaths \in Nat

VARIABLES
  sourceRoot,  \* the tree being admitted
  recorded,    \* the ledger has the admission
  admitting,   \* where each admitter stands
  preflight,   \* the records an admitter has read and checked
  temporary,   \* its temporary tree, or NoTree
  destination, \* the tree under the destination's name, or NoTree
  synced,      \* which of "tree" and "name" of the destination are synced
  sourceEdits, deaths

admissionVars == <<sourceRoot, recorded, admitting, preflight, temporary, destination,
                   synced, sourceEdits, deaths>>

TreesOver(files) == UNION {[fs -> FileBytes] : fs \in SUBSET files}
EmptyTree == [f \in {} |-> CHOOSE b \in FileBytes : TRUE]
Holding(tree, f, b) == [g \in DOMAIN tree \cup {f} |-> IF g = f THEN b ELSE tree[g]]

AdmissionInit ==
  /\ sourceRoot \in TreesOver(SourceFiles)
  /\ recorded = FALSE
  /\ admitting = [a \in Admitters |-> "called"]
  /\ preflight = [a \in Admitters |-> EmptyTree]
  /\ temporary = [a \in Admitters |-> NoTree]
  /\ destination = NoTree /\ synced = {}
  /\ sourceEdits = 0 /\ deaths = 0

MoveTo(a, place) == admitting' = [admitting EXCEPT ![a] = place]

-----------------------------------------------------------------------------
RecordAdmission ==
  /\ ~recorded /\ recorded' = TRUE
  /\ UNCHANGED <<sourceRoot, admitting, preflight, temporary, destination, synced, sourceEdits, deaths>>

EditSource(f) ==
  /\ sourceEdits < MaxSourceEdits /\ sourceEdits' = sourceEdits + 1
  /\ sourceRoot' \in {Holding(sourceRoot, f, b) : b \in FileBytes}
                       \cup {[g \in DOMAIN sourceRoot \ {f} |-> sourceRoot[g]]}
  /\ UNCHANGED <<recorded, admitting, preflight, temporary, destination, synced, deaths>>

\* the authority, the runtime, and a destination that is still free
BeginAdmission(a) ==
  /\ admitting[a] = "called"
  /\ MoveTo(a, IF recorded /\ destination = NoTree THEN "reading" ELSE "failed")
  /\ UNCHANGED <<sourceRoot, recorded, preflight, temporary, destination, synced, sourceEdits, deaths>>

\* a file of the manifest is read once, and its bytes are checked
ReadSource(a) ==
  /\ admitting[a] = "reading"
  /\ \E f \in DOMAIN SourceManifest \ DOMAIN preflight[a] :
       IF f \in DOMAIN sourceRoot /\ sourceRoot[f] = SourceManifest[f]
       THEN /\ preflight' = [preflight EXCEPT ![a] = Holding(@, f, sourceRoot[f])]
            /\ UNCHANGED admitting
       ELSE MoveTo(a, "failed") /\ UNCHANGED preflight
  /\ UNCHANGED <<sourceRoot, recorded, temporary, destination, synced, sourceEdits, deaths>>

MakeTemporary(a) ==
  /\ admitting[a] = "reading" /\ DOMAIN preflight[a] = DOMAIN SourceManifest
  /\ IF destination = NoTree
     THEN /\ MoveTo(a, "writing")
          /\ temporary' = [temporary EXCEPT ![a] = EmptyTree]
     ELSE MoveTo(a, "failed") /\ UNCHANGED temporary
  /\ UNCHANGED <<sourceRoot, recorded, preflight, destination, synced, sourceEdits, deaths>>

\* the bytes that were checked are the bytes that are written
WriteSource(a) ==
  /\ admitting[a] = "writing"
  /\ \E f \in DOMAIN preflight[a] \ DOMAIN temporary[a] :
       temporary' = [temporary EXCEPT ![a] = Holding(@, f, preflight[a][f])]
  /\ UNCHANGED <<sourceRoot, recorded, admitting, preflight, destination, synced, sourceEdits, deaths>>

\* directories are sealed and synced, innermost first
SyncTemporary(a) ==
  /\ admitting[a] = "writing" /\ DOMAIN temporary[a] = DOMAIN preflight[a]
  /\ MoveTo(a, "synced")
  /\ UNCHANGED <<sourceRoot, recorded, preflight, temporary, destination, synced, sourceEdits, deaths>>

Rename(a, what) ==
  /\ IF destination = NoTree
     THEN /\ destination' = temporary[a] /\ synced' = what
          /\ temporary' = [temporary EXCEPT ![a] = NoTree]
          /\ MoveTo(a, "published")
     ELSE MoveTo(a, "removing") /\ UNCHANGED <<temporary, destination, synced>>
  /\ UNCHANGED <<sourceRoot, recorded, preflight, sourceEdits, deaths>>

\* mutant: the tree is renamed before its directories are synced
PublishUnsynced(a) ==
  /\ admitting[a] = "writing" /\ DOMAIN temporary[a] = DOMAIN preflight[a]
  /\ Rename(a, {})

\* renameat2 with RENAME_NOREPLACE
PublishWithoutOverwrite(a) == admitting[a] = "synced" /\ Rename(a, {"tree"})

RemoveTemporary(a) ==
  /\ admitting[a] = "removing"
  /\ temporary' = [temporary EXCEPT ![a] = NoTree]
  /\ MoveTo(a, "failed")
  /\ UNCHANGED <<sourceRoot, recorded, preflight, destination, synced, sourceEdits, deaths>>

\* the attempt directory is synced, and the report is returned
SyncAttempt(a) ==
  /\ admitting[a] = "published"
  /\ synced' = synced \cup {"name"}
  /\ MoveTo(a, "reported")
  /\ UNCHANGED <<sourceRoot, recorded, preflight, temporary, destination, sourceEdits, deaths>>

\* verify_staged_source: the destination is read again before it is used
VerifyStaged(a) ==
  /\ admitting[a] = "reported"
  /\ MoveTo(a, IF destination = SourceManifest THEN "verified" ELSE "failed")
  /\ UNCHANGED <<sourceRoot, recorded, preflight, temporary, destination, synced, sourceEdits, deaths>>

Ended == {"called", "failed", "killed", "verified"}

KillAdmitter(a) ==
  /\ deaths < MaxDeaths /\ admitting[a] \notin Ended
  /\ deaths' = deaths + 1
  /\ MoveTo(a, "killed")
  /\ UNCHANGED <<sourceRoot, recorded, preflight, temporary, destination, synced, sourceEdits>>

\* what a tree may be found to be when its directories were not synced
Remains(tree) == {[f \in fs |-> tree[f]] : fs \in SUBSET DOMAIN tree}

\* everyone dies; what was not synced may be lost.  Nothing reads the
\* temporary trees of the dead again, so they are left as they were.
PowerCut ==
  /\ deaths < MaxDeaths /\ deaths' = deaths + 1
  /\ admitting' = [a \in Admitters |-> IF admitting[a] \in Ended THEN admitting[a] ELSE "killed"]
  /\ IF destination = NoTree THEN UNCHANGED destination
     ELSE \/ "name" \notin synced /\ destination' = NoTree
          \/ destination' \in IF "tree" \in synced THEN {destination} ELSE Remains(destination)
  /\ synced' = IF destination' = NoTree THEN {} ELSE {"tree", "name"}
  /\ UNCHANGED <<sourceRoot, recorded, preflight, temporary, sourceEdits>>

AdmissionNext ==
  \/ RecordAdmission \/ PowerCut
  \/ \E f \in SourceFiles : EditSource(f)
  \/ \E a \in Admitters :
       \/ BeginAdmission(a) \/ ReadSource(a) \/ MakeTemporary(a) \/ WriteSource(a)
       \/ SyncTemporary(a) \/ PublishWithoutOverwrite(a) \/ RemoveTemporary(a)
       \/ SyncAttempt(a) \/ VerifyStaged(a) \/ KillAdmitter(a)

AdmissionSpec == AdmissionInit /\ [][AdmissionNext]_admissionVars
-----------------------------------------------------------------------------
(* The destination never holds anything but the whole admitted manifest:   *)
(* not a file edited after it was checked, not a tree half written by an   *)
(* admitter that was killed or that another overtook, and not what a power *)
(* cut left of one; and the tree a verified report vouches for is still    *)
(* there after a power cut (source_admission.py:101-212, 310-335,          *)
(* 403-463).                                                               *)
DestinationIsTheManifest ==
  /\ destination # NoTree => destination = SourceManifest
  /\ \A a \in Admitters : admitting[a] = "verified" => destination # NoTree
=============================================================================
