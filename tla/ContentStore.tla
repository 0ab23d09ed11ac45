------------------------------ MODULE ContentStore -----------------------------
(***************************************************************************)
(* The content-addressed store (store.py): one blob, the writers that put    *)
(* its bytes and the readers that want them, over a directory whose entries  *)
(* outlive a process that is killed, and a power cut only once synced.  The  *)
(* directory itself is made by the first writer, which then syncs its parent.*)
(*                                                                         *)
(* Every writer has the same bytes, since the name is their hash.  It writes *)
(* a temporary file of its own, links it under the digest, or adopts what is *)
(* there, and unlinks the temporary name.  A blob has settled when it has    *)
(* one link; whoever sees two waits for the publisher to unlink.            *)
(***************************************************************************)
EXTENDS Naturals, FiniteSets

CONSTANTS
    Writers, Readers, \* calls of put_blob and of read_blob
    MaxKills,         \* bound on processes that are killed
    MaxCuts,          \* bound on power cuts
    NoFile

ASSUME StoreAssumption ==
    /\ NoFile \notin Writers /\ Writers \cap Readers = {}
    /\ MaxKills \in Nat /\ MaxCuts \in Nat

VARIABLES
    pc,      \* where each call stands
    blob,    \* the writer whose file has the digest for a name, or NoFile
    temp,    \* the writers whose temporary name is there
    whole,   \* the writers whose file is complete and synced
    place,   \* the directory: "missing", "made", or "rooted" once its parent is synced
    synced,  \* at its last sync: the blob and the temporary names kept; and the
             \* temporary names it has seen from then on
    owed,    \* history: the writers that returned, until a power cut takes the directory
    kills, cuts

vars == <<pc, blob, temp, whole, place, synced, owed, kills, cuts>>

StoreInit ==
    /\ pc = [c \in Writers \cup Readers |-> "called"]
    /\ blob = NoFile /\ temp = {} /\ whole = {}
    /\ place = "missing" /\ synced = [blob |-> NoFile, kept |-> {}, seen |-> {}]
    /\ owed = {}
    /\ kills = 0 /\ cuts = 0

Goto(c, label) == pc' = [pc EXCEPT ![c] = label]

Links(w) == (IF blob = w THEN 1 ELSE 0) + (IF w \in temp THEN 1 ELSE 0)

Kept == UNCHANGED <<place, synced, owed, kills, cuts>>

Working == {"rooting", "writing", "written", "linked", "adopting", "unlinked", "verifying",
            "colliding", "erring"}

-----------------------------------------------------------------------------
(* put_blob                                                                 *)

\* mkdir.  (The two directories of a digest are made alike, and are one here.)
MakeDirectory(w) ==
    /\ pc[w] = "called" /\ place = "missing"
    /\ Goto(w, "rooting")
    /\ place' = "made"
    /\ UNCHANGED <<blob, temp, whole, synced, owed, kills, cuts>>

SyncParent(w) ==
    /\ pc[w] = "rooting"
    /\ Goto(w, "called")
    /\ place' = "rooted"
    /\ UNCHANGED <<blob, temp, whole, synced, owed, kills, cuts>>

\* Who finds the directory made goes on at once: only its maker syncs the parent.
CreateTemporary(w) ==
    /\ pc[w] = "called" /\ place # "missing"
    /\ Goto(w, "writing")
    /\ temp' = temp \cup {w}
    /\ synced' = [synced EXCEPT !.seen = @ \cup {w}]
    /\ UNCHANGED <<blob, whole, place, owed, kills, cuts>>

\* Write everything, make it read-only, sync the file.
WriteTemporary(w) ==
    /\ pc[w] = "writing"
    /\ Goto(w, "written")
    /\ whole' = whole \cup {w}
    /\ UNCHANGED <<blob, temp>> /\ Kept

Link(w) ==
    /\ pc[w] = "written"
    /\ IF blob = NoFile
       THEN Goto(w, "linked") /\ blob' = w
       ELSE Goto(w, "adopting") /\ UNCHANGED blob
    /\ UNCHANGED <<temp, whole>> /\ Kept

\* The published file has one link, and its bytes are these bytes.
Adopt(w) ==
    /\ pc[w] = "adopting" /\ Links(blob) = 1 /\ blob \in whole
    /\ Goto(w, "linked")
    /\ UNCHANGED <<blob, temp, whole>> /\ Kept

\* Mutant: the wait for a second link to go has no limit.
PublisherAwaited == FALSE

\* A hundred looks, five milliseconds apart, outlast the few calls a live
\* publisher makes between its link and its unlink.
PublisherStuck == blob # NoFile /\ Links(blob) = 2 /\ pc[blob] \notin Working

Collide(w) ==
    /\ pc[w] = "adopting" /\ PublisherStuck
    /\ Goto(w, "colliding")
    /\ UNCHANGED <<blob, temp, whole>> /\ Kept

Unlink(w) ==
    /\ pc[w] = "linked"
    /\ Goto(w, "unlinked")
    /\ temp' = temp \ {w}
    /\ UNCHANGED <<blob, whole>> /\ Kept

\* Mutant: the directory is not synced.
SyncNothing(w) ==
    /\ pc[w] = "unlinked"
    /\ Goto(w, "verifying")
    /\ UNCHANGED <<blob, temp, whole>> /\ Kept

SyncDirectory(w) ==
    /\ pc[w] = "unlinked"
    /\ Goto(w, "verifying")
    /\ synced' = [blob |-> blob, kept |-> temp, seen |-> temp]
    /\ UNCHANGED <<blob, temp, whole, place, owed, kills, cuts>>

Verify(w) ==
    /\ pc[w] = "verifying"
    /\ LET good == Links(blob) = 1 /\ blob \in whole
       IN /\ Goto(w, IF good THEN "returned" ELSE "erring")
          /\ owed' = IF good THEN owed \cup {w} ELSE owed
    /\ UNCHANGED <<blob, temp, whole, place, synced, kills, cuts>>

\* A system call fails.
SystemError(w) ==
    /\ pc[w] \in (Working \ {"colliding", "erring"}) \cup {"called"}
    /\ Goto(w, "erring")
    /\ UNCHANGED <<blob, temp, whole>> /\ Kept

\* Mutant: the temporary name is left behind on a failure.
CleanUpNothing(w) ==
    /\ pc[w] \in {"colliding", "erring"}
    /\ Goto(w, IF pc[w] = "colliding" THEN "collided" ELSE "failed")
    /\ UNCHANGED <<temp, blob, whole>> /\ Kept

\* The finally block: whatever failed, the temporary name goes; an error of this
\* last unlink is swallowed, and the name stays.
CleanUp(w) ==
    /\ pc[w] \in {"colliding", "erring"}
    /\ \/ /\ Goto(w, IF pc[w] = "colliding" THEN "collided" ELSE "failed")
          /\ temp' = temp \ {w}
       \/ w \in temp /\ Goto(w, "stranded") /\ UNCHANGED temp
    /\ UNCHANGED <<blob, whole>> /\ Kept

-----------------------------------------------------------------------------
(* read_blob                                                                *)

\* Mutant: a blob that has not settled is reported as missing.
ReadImpatient(r) ==
    /\ pc[r] = "called"
    /\ \/ blob = NoFile /\ Goto(r, "absent")
       \/ /\ blob # NoFile
          /\ Goto(r, IF Links(blob) = 2 THEN "absent"
                     ELSE IF blob \in whole THEN "returned" ELSE "corrupt")
    /\ UNCHANGED <<blob, temp, whole>> /\ Kept

Read(r) ==
    /\ pc[r] = "called"
    /\ \/ blob = NoFile /\ Goto(r, "absent")
       \/ /\ blob # NoFile /\ Links(blob) = 1
          /\ Goto(r, IF blob \in whole THEN "returned" ELSE "corrupt")
       \/ PublisherStuck /\ Goto(r, "unstable")
       \/ Goto(r, "failed") \* a system call fails
    /\ UNCHANGED <<blob, temp, whole>> /\ Kept

-----------------------------------------------------------------------------
(* Failures of the environment.                                             *)

Kill(w) ==
    /\ pc[w] \in Working /\ kills < MaxKills
    /\ Goto(w, "killed")
    /\ kills' = kills + 1
    /\ UNCHANGED <<blob, temp, whole, place, synced, owed, cuts>>

\* A power cut that finds the directory: each of its entries is as it was when
\* last synced or as it was at some time since.
EntriesSurvive ==
    /\ blob' \in {blob, synced.blob}
    /\ temp' \in {names \in SUBSET synced.seen : synced.kept \cap temp \subseteq names}
    /\ place' = IF place = "made" THEN "rooted" ELSE place
    /\ synced' = [blob |-> blob', kept |-> temp', seen |-> temp']
    /\ UNCHANGED owed

\* A directory whose parent was not synced may be gone, with all it held.
DirectoryLost ==
    /\ place = "made" /\ place' = "missing"
    /\ blob' = NoFile /\ temp' = {}
    /\ synced' = [blob |-> NoFile, kept |-> {}, seen |-> {}]
    /\ owed' = {}

\* Every process dies.
PowerCut ==
    /\ cuts < MaxCuts
    /\ cuts' = cuts + 1
    /\ pc' = [c \in Writers \cup Readers |-> IF pc[c] \in Working THEN "killed" ELSE pc[c]]
    /\ EntriesSurvive \/ DirectoryLost
    /\ UNCHANGED <<whole, kills>>

WriterStep(w) ==
    \/ MakeDirectory(w) \/ SyncParent(w)
    \/ CreateTemporary(w) \/ WriteTemporary(w) \/ Link(w) \/ Adopt(w) \/ Collide(w)
    \/ Unlink(w) \/ SyncDirectory(w) \/ Verify(w) \/ CleanUp(w)

StoreNext ==
    \/ \E w \in Writers : WriterStep(w) \/ SystemError(w) \/ Kill(w)
    \/ \E r \in Readers : Read(r)
    \/ PowerCut

StoreSpec == StoreInit /\ [][StoreNext]_vars

\* A process that is not killed runs on.
FairStoreSpec ==
    /\ StoreSpec
    /\ \A w \in Writers : WF_vars(WriterStep(w))
    /\ \A r \in Readers : WF_vars(Read(r))

-----------------------------------------------------------------------------
(* Properties.                                                             *)

Ended == {"returned", "absent", "corrupt", "unstable", "collided", "failed", "stranded",
          "killed"}

StoreTypeOK ==
    /\ pc \in [Writers \cup Readers -> Working \cup Ended \cup {"called"}]
    /\ blob \in Writers \cup {NoFile} /\ temp \subseteq Writers /\ whole \subseteq Writers
    /\ place \in {"missing", "made", "rooted"} /\ owed \subseteq Writers
    /\ synced \in [blob : Writers \cup {NoFile}, kept : SUBSET Writers, seen : SUBSET Writers]
    /\ kills \in 0..MaxKills /\ cuts \in 0..MaxCuts

\* The digest never names a file that is not complete, whoever is killed or
\* loses power at any point.
BlobIsWhole == blob # NoFile => blob \in whole

\* What put_blob has returned can be read from then on, through any later kill,
\* failed call or power cut, although the publisher it adopted from may not have
\* synced: only a power cut that takes the whole directory, whose maker never
\* came to sync the parent, takes a returned blob.
ReturnedStaysReadable == owed # {} => blob # NoFile /\ Links(blob) = 1

\* A second link, which makes the blob unreadable, always has a publisher that is
\* under way, was killed, or could not unlink its temporary name: a call that
\* failed otherwise leaves none, unless a power cut undoes its unlink.
SecondLinkHasAReason ==
    blob # NoFile /\ Links(blob) = 2 =>
      \/ pc[blob] \in Working \cup {"killed", "stranded"}
      \/ pc[blob] = "failed" /\ cuts > 0

\* Identical bytes are never refused as a collision: a publication that was cut
\* short leaves nothing, or a blob that the next attempt adopts.
NoFalseCollision == \A w \in Writers : pc[w] # "collided"

\* Nobody waits for ever for a publisher that is gone.
CallsEnd == \A c \in Writers \cup Readers : <>(pc[c] \in Ended)

-----------------------------------------------------------------------------
(* The abstraction of the directory: the one cell it implements.            *)

AnswerOf(label) ==
    IF label \in {"returned", "absent", "corrupt"} THEN label
    ELSE IF label \in {"collided", "failed", "stranded", "unstable"} THEN "error" ELSE "none"

storeAnswer == [c \in Writers \cup Readers |-> AnswerOf(pc[c])]

Cell == INSTANCE DurableBlob WITH full <- blob # NoFile, answer <- storeAnswer,
                                  rooted <- place = "rooted",
                                  Putters <- Writers, Getters <- Readers

\* The directory with its temporary names, links, syncs, kills and power cuts
\* implements one durable cell: no reader is told that a blob is absent while it
\* is there but still has a second link, none is ever served or refused a torn one
\* (BlobIsWhole is what this takes of the directory), nobody
\* sees a blob that no unfinished put published, and once the directory's parent
\* is synced none that was returned is lost.
ImplementsDurableBlob == Cell!Spec

=============================================================================
