----------------------------- MODULE TreeCapture -----------------------------
(***************************************************************************)
(* Decoded trees in and out of the content store (decoded_artifact.py): a  *)
(* capture walks a directory, stores the bytes of every file and publishes *)
(* a manifest; a materialisation loads the manifest, writes a fresh copy   *)
(* and walks the copy to verify it.  Both walks run over a file system     *)
(* that another process may be writing: they compare the status of every   *)
(* file and directory before and after they read it, and sweep the files   *)
(* once more when the walk is done.                                        *)
(*                                                                         *)
(* A path is the sequence of its names, and names are numbers in the order *)
(* of their bytes.  Changes are numbered, but what a status shows of one   *)
(* is the tick of the file system's clock it fell in: two changes of one   *)
(* tick that leave the size alone cannot be told apart.                    *)
(***************************************************************************)
EXTENDS Naturals, Sequences, FiniteSets

CONSTANTS Names,     \* the names an entry may have
          Bytes,     \* the contents a file may have
          MaxDepth,  \* bound on the depth of a path (MAX_DEPTH)
          MaxWrites, \* bound on what the other process does
          Shapes     \* the trees that may be captured

ASSUME CaptureAssumption ==
  /\ Names \subseteq Nat /\ MaxDepth \in Nat /\ MaxWrites \in Nat
  /\ \A shape \in Shapes : <<>> \in DOMAIN shape /\ DOMAIN shape \subseteq Seq(Names)

VARIABLES
  disk,     \* "source" and "copy": path -> [kind, bytes, changed]
  now,      \* the number of the last change
  tick,     \* number of a change -> the clock's tick it fell in
  walk,     \* what is being done
  frames,   \* the directories open, outermost first: [dir, names, changed]
  pending,  \* the entries whose status was just read: path -> entry, at most one
  seen,     \* the entries read: path -> [kind, bytes, changed]
  sweep,    \* the files still to be swept
  manifest, \* the manifest published: path -> [kind, bytes]
  scanned   \* history: the tree when the walk of it ended

captureVars == <<disk, now, tick, walk, frames, pending, seen, sweep, manifest, scanned>>

\* the copy is the tree of a walk once there is a manifest
Tree == IF manifest = <<>> THEN "source" ELSE "copy"

DirectoryOf(s) == SubSeq(s, 1, Len(s) - 1)
Parent(p) == DirectoryOf(p)
Least(S) == CHOOSE x \in S : \A y \in S : x <= y
IsFile(tree, p) == p \in DOMAIN tree /\ tree[p].kind = "file"
IsDirectory(tree, p) == p \in DOMAIN tree /\ tree[p].kind = "directory"
NamesIn(tree, dir) ==
  {n \in Names : Append(dir, n) \in DOMAIN tree}

\* byte order of paths, and of a set of them the least
Precedes(p, q) ==
  \/ Len(p) <= Len(q) /\ SubSeq(q, 1, Len(p)) = p
  \/ \E i \in 1..Len(p) : /\ i <= Len(q) /\ p[i] < q[i]
                          /\ SubSeq(p, 1, i - 1) = SubSeq(q, 1, i - 1)
First(S) == {p \in S : \A q \in S : Precedes(p, q)}

\* DecodedTreeManifestV1: every entry's parent is listed and is a directory
ManifestHolds(m) ==
  \A p \in DOMAIN m :
    Len(p) > 1 => Parent(p) \in DOMAIN m /\ m[Parent(p)].kind = "directory"

Stat(p) == disk[Tree][p].changed

\* _same_stat: the mode and the times of the entry, the size being the same
SameStat(p, kind, changed) ==
  p \in DOMAIN disk[Tree] /\ disk[Tree][p].kind = kind /\ tick[Stat(p)] = tick[changed]

\* no other change fell in the tick of that one
Lone(change) == \A n \in 0..now : tick[n] = tick[change] => n = change

CaptureInit ==
  /\ disk \in {[source |-> [p \in DOMAIN shape |-> [kind |-> shape[p].kind,
                              bytes |-> shape[p].bytes, changed |-> 0]],
                copy |-> <<>>] : shape \in Shapes}
  /\ now = 0 /\ tick = [n \in {0} |-> 0]
  /\ walk = "called"
  /\ frames = <<>> /\ pending = <<>> /\ seen = <<>> /\ sweep = {}
  /\ manifest = <<>> /\ scanned = <<>>

-----------------------------------------------------------------------------
(* The other process: an entry written, made or removed.  A change of the  *)
(* entries of a directory changes the directory.  A special entry is a     *)
(* symlink, a device, or a file of two links.                              *)

Changes(t, entries) ==
  /\ disk' = [disk EXCEPT ![t] = entries]
  /\ now' = now + 1
  /\ \E gone \in {0, 1} :
       tick' = [n \in 0..(now + 1) |-> IF n <= now THEN tick[n] ELSE tick[now] + gone]

Walking == UNCHANGED <<walk, frames, pending, seen, sweep, manifest, scanned>>

WriteFile(t, p, b) ==
  /\ now < MaxWrites /\ walk \notin {"done", "failed"}
  /\ IsFile(disk[t], p) /\ disk[t][p].bytes # b
  /\ Changes(t, [disk[t] EXCEPT ![p].bytes = b, ![p].changed = now + 1])
  /\ Walking

MakeEntry(t, p, kind, b) ==
  /\ now < MaxWrites /\ walk \notin {"done", "failed"}
  /\ p \notin DOMAIN disk[t] /\ IsDirectory(disk[t], Parent(p))
  /\ LET touched == [disk[t] EXCEPT ![Parent(p)].changed = now + 1]
     IN Changes(t, [q \in DOMAIN touched \cup {p} |->
                      IF q = p THEN [kind |-> kind, bytes |-> b, changed |-> now + 1]
                      ELSE touched[q]])
  /\ Walking

RemoveEntry(t, p) ==
  /\ now < MaxWrites /\ walk \notin {"done", "failed"}
  /\ p \in DOMAIN disk[t] /\ p # <<>> /\ NamesIn(disk[t], p) = {}
  /\ LET touched == [disk[t] EXCEPT ![Parent(p)].changed = now + 1]
     IN Changes(t, [q \in DOMAIN touched \ {p} |-> touched[q]])
  /\ Walking

-----------------------------------------------------------------------------
(* The walk.                                                               *)

Still == UNCHANGED <<disk, now, tick>>

Frame(dir) == [dir |-> dir, names |-> NamesIn(disk[Tree], dir), changed |-> Stat(dir)]
Inner == frames[Len(frames)]

Fail ==
  /\ walk' = "failed"
  /\ frames' = <<>> /\ pending' = <<>> /\ sweep' = {}
  /\ UNCHANGED <<seen, manifest, scanned>>

\* capture_decoded_tree opens the root and lists it
BeginWalk ==
  /\ walk = "called"
  /\ walk' = "scanning"
  /\ frames' = <<Frame(<<>>)>>
  /\ UNCHANGED <<pending, seen, sweep, manifest, scanned>> /\ Still

\* the status of the next name listed; a directory is opened and listed
StatEntry ==
  /\ walk = "scanning" /\ pending = <<>> /\ Inner.names # {}
  /\ LET p    == Append(Inner.dir, Least(Inner.names))
         rest == [frames EXCEPT ![Len(frames)].names = @ \ {Least(@)}]
     IN IF ~(IsFile(disk[Tree], p) \/ IsDirectory(disk[Tree], p)) \/ Len(p) > MaxDepth
        THEN Fail
        ELSE /\ IF IsDirectory(disk[Tree], p)
                THEN /\ frames' = Append(rest, Frame(p))
                     /\ seen' = [q \in DOMAIN seen \cup {p} |->
                                   IF q = p THEN disk[Tree][p] ELSE seen[q]]
                     /\ UNCHANGED pending
                ELSE /\ frames' = rest
                     /\ pending' = [q \in {p} |-> disk[Tree][p]]
                     /\ UNCHANGED seen
             /\ UNCHANGED <<walk, sweep, manifest, scanned>>
  /\ Still

\* a file is read whole, and its status is what it was
ReadStableFile ==
  /\ walk = "scanning"
  /\ \E p \in DOMAIN pending :
       IF SameStat(p, "file", pending[p].changed)
       THEN /\ seen' = [q \in DOMAIN seen \cup {p} |->
                          IF q = p THEN disk[Tree][p] ELSE seen[q]]
            /\ pending' = <<>>
            /\ UNCHANGED <<walk, frames, sweep, manifest, scanned>>
       ELSE Fail
  /\ Still

\* a directory read through is still what it was when it was opened
CloseDirectory ==
  /\ walk = "scanning" /\ pending = <<>> /\ Inner.names = {}
  /\ IF ~SameStat(Inner.dir, "directory", Inner.changed) THEN Fail
     ELSE /\ frames' = DirectoryOf(frames)
          /\ IF Len(frames) > 1
             THEN UNCHANGED <<walk, sweep, scanned>>
             ELSE /\ walk' = "sweeping"
                  /\ sweep' = {p \in DOMAIN seen : seen[p].kind = "file"}
                  /\ scanned' = disk[Tree]
          /\ UNCHANGED <<pending, seen, manifest>>
  /\ Still

\* mutant: the sweep only asks that the file is there
SweepFileExists ==
  /\ walk = "sweeping" /\ sweep # {}
  /\ \E p \in First(sweep) :
        IF IsFile(disk[Tree], p)
        THEN sweep' = sweep \ {p} /\ UNCHANGED <<walk, frames, pending, seen, manifest, scanned>>
        ELSE Fail
  /\ Still

\* every file read still has the status it was read with
SweepFile ==
  /\ walk = "sweeping" /\ sweep # {}
  /\ \E p \in First(sweep) :
        IF SameStat(p, "file", seen[p].changed)
        THEN sweep' = sweep \ {p} /\ UNCHANGED <<walk, frames, pending, seen, manifest, scanned>>
        ELSE Fail
  /\ Still

RootIsUnchanged == SameStat(<<>>, "directory", scanned[<<>>].changed)

Read == [p \in DOMAIN seen |-> [kind |-> seen[p].kind, bytes |-> seen[p].bytes]]

\* the capture publishes its manifest; an empty tree has an empty one
PublishManifest ==
  /\ walk = "sweeping" /\ sweep = {} /\ Tree = "source"
  /\ IF RootIsUnchanged /\ ManifestHolds(Read)
     THEN /\ manifest' = Read
          /\ walk' = IF Read = <<>> THEN "done" ELSE "captured"
          /\ UNCHANGED <<frames, pending, seen, sweep, scanned>>
     ELSE Fail
  /\ Still

\* materialize_decoded_tree makes the root of the copy
MakeRoot ==
  /\ walk = "captured"
  /\ walk' = "materializing"
  /\ disk' = [disk EXCEPT !.copy = [p \in {<<>>} |->
                [kind |-> "directory", bytes |-> CHOOSE b \in Bytes : TRUE, changed |-> now]]]
  /\ seen' = <<>> /\ scanned' = <<>>
  /\ UNCHANGED <<now, tick, frames, pending, sweep, manifest>>

\* the entries still to be written; they are written in the manifest's order
Unwritten == DOMAIN manifest \ DOMAIN seen

WriteEntry ==
  /\ walk = "materializing" /\ Unwritten # {}
  /\ \E p \in First(Unwritten) :
        IF p \notin DOMAIN disk.copy /\ IsDirectory(disk.copy, Parent(p))
        THEN /\ disk' = [disk EXCEPT !.copy = [q \in DOMAIN @ \cup {p} |->
                           IF q = p THEN [kind |-> manifest[p].kind,
                                          bytes |-> manifest[p].bytes, changed |-> now]
                           ELSE @[q]]]
             /\ seen' = [q \in DOMAIN seen \cup {p} |-> IF q = p THEN manifest[p] ELSE seen[q]]
             /\ UNCHANGED <<walk, frames, pending, sweep, manifest, scanned>>
        ELSE Fail /\ UNCHANGED disk
  /\ UNCHANGED <<now, tick>>

\* the copy is complete: _verify_manifest_fd walks it
BeginVerify ==
  /\ walk = "materializing" /\ Unwritten = {}
  /\ walk' = "scanning"
  /\ frames' = <<Frame(<<>>)>>
  /\ seen' = <<>>
  /\ UNCHANGED <<pending, sweep, manifest, scanned>> /\ Still

\* the walk of the copy found the manifest's entries and no others
AcceptCopy ==
  /\ walk = "sweeping" /\ sweep = {} /\ Tree = "copy"
  /\ IF RootIsUnchanged /\ Read = manifest
     THEN walk' = "done" /\ UNCHANGED <<frames, pending, seen, sweep, manifest, scanned>>
     ELSE Fail
  /\ Still

Paths == UNION {[1..n -> Names] : n \in 1..MaxDepth}

CaptureNext ==
  \/ \E t \in {"source", "copy"}, p \in Paths, b \in Bytes :
       \/ WriteFile(t, p, b)
       \/ MakeEntry(t, p, "file", b)
  \/ \E t \in {"source", "copy"}, p \in Paths :
       \/ \E kind \in {"directory", "special"} :
            MakeEntry(t, p, kind, CHOOSE b \in Bytes : TRUE)
       \/ RemoveEntry(t, p)
  \/ BeginWalk \/ StatEntry \/ ReadStableFile \/ CloseDirectory \/ SweepFile
  \/ PublishManifest \/ MakeRoot \/ WriteEntry \/ BeginVerify \/ AcceptCopy

CaptureSpec == CaptureInit /\ [][CaptureNext]_captureVars

-----------------------------------------------------------------------------
(* A capture is no atomic snapshot of a tree that is being written         *)
(* (decoded_artifact.py:3-5): what it records was read entry after entry,  *)
(* and a rewrite that keeps the size and falls in the tick of the change   *)
(* that was read passes every comparison.  What the comparisons and the    *)
(* sweep do give is that nothing else does: when the walk of an accepted   *)
(* tree ended, every file held just the bytes recorded, unless another     *)
(* change fell in the tick of the file's own, and the root had just the    *)
(* entries recorded, unless one fell in the tick of the root's             *)
(* (_same_stat 291-308, 380-457, 590-601, 628-772).                        *)
RecordedWasThere ==
  walk \in {"captured", "done"} =>
    /\ \A p \in DOMAIN Read : Read[p].kind = "file" /\ Lone(seen[p].changed) =>
         IsFile(scanned, p) /\ scanned[p].bytes = Read[p].bytes
    /\ Lone(scanned[<<>>].changed) =>
         {p \in DOMAIN scanned : Len(p) = 1} = {p \in DOMAIN Read : Len(p) = 1}
=============================================================================
