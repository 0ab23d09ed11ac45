--------------------------- MODULE ContentStoreProofs --------------------------
(***************************************************************************)
(* What the content store guarantees for any number of writers, readers,    *)
(* kills and power cuts.                                                    *)
(*                                                                         *)
(* The three invariants are not inductive: a call that is about to return    *)
(* must already be known to have left the blob with one link, and what a     *)
(* power cut would bring back must be as good as what is there now.         *)
(***************************************************************************)
EXTENDS ContentStore, TLAPS

\* A file that is written, published or would be found after a power cut is
\* complete.
WholeInv ==
    /\ BlobIsWhole
    /\ synced.blob # NoFile => synced.blob \in whole
    /\ \A w \in Writers : pc[w] = "written" => w \in whole

\* Only a writer that came to its link, and did not find another's, is a publisher.
NoPublisher == {"called", "rooting", "writing", "written", "adopting", "colliding", "collided",
                "absent", "corrupt", "unstable"}

BegunInv ==
    /\ blob # NoFile => pc[blob] \notin NoPublisher
    /\ synced.blob # NoFile => pc[synced.blob] \notin NoPublisher

\* The blob would be found with one link after a power cut that finds the directory.
Settled == blob # NoFile /\ synced.blob = blob /\ blob \notin synced.seen

\* A writer past its link sees a blob with no second link but its own.
LinkedInv ==
    /\ owed # {} => Settled
    /\ blob # NoFile /\ pc[blob] = "returned" => owed # {}
    /\ \A w \in Writers :
         /\ pc[w] = "linked" => blob # NoFile /\ (blob = w \/ blob \notin temp)
         /\ pc[w] = "unlinked" => blob # NoFile /\ blob \notin temp
         /\ pc[w] = "verifying" => Settled

\* Short of a power cut, a name is there only for a writer that did not remove it.
CleanInv ==
    \A w \in temp :
      cuts = 0 => pc[w] \in (Working \ {"rooting", "unlinked", "verifying"})
                              \cup {"killed", "stranded"}

\* What a power cut would bring back is there.
SyncedInv ==
    /\ synced.blob # NoFile => synced.blob = blob
    /\ synced.kept \subseteq synced.seen /\ temp \subseteq synced.seen

\* Nothing is where there is no directory.
PlaceInv ==
    /\ place = "missing" => blob = NoFile
    /\ \A w \in Writers : pc[w] \in {"writing", "written"} => place # "missing"

StoreInv ==
    /\ StoreTypeOK /\ WholeInv /\ BegunInv /\ LinkedInv /\ CleanInv /\ SyncedInv
    /\ PlaceInv

\* A blob has exactly one link when its file has no temporary name left.
LEMMA OneLink ==
  ASSUME StoreTypeOK, blob # NoFile
  PROVE  Links(blob) = 1 <=> blob \notin temp
  BY DEF Links

LEMMA InvInit == StoreInit => StoreInv
  BY StoreAssumption
  DEF StoreInit, StoreInv, StoreTypeOK, WholeInv, BegunInv, LinkedInv, CleanInv, SyncedInv,
      PlaceInv, BlobIsWhole, Working, Ended

LEMMA TypeStep == StoreTypeOK /\ [StoreNext]_vars => StoreTypeOK'
  <1> SUFFICES ASSUME StoreTypeOK, [StoreNext]_vars
               PROVE  StoreTypeOK'
    OBVIOUS
  <1> USE StoreAssumption DEF StoreTypeOK, Kept, Goto, Working, Ended
  <1>1. ASSUME NEW w \in Writers, WriterStep(w)
        PROVE  StoreTypeOK'
    <2>1. CASE MakeDirectory(w)
      BY <2>1 DEF MakeDirectory
    <2>2. CASE SyncParent(w)
      BY <2>2 DEF SyncParent
    <2>3. CASE CreateTemporary(w)
      BY <2>3 DEF CreateTemporary
    <2>4. CASE WriteTemporary(w)
      BY <2>4 DEF WriteTemporary
    <2>5. CASE Link(w)
      BY <2>5 DEF Link
    <2>6. CASE Adopt(w)
      BY <2>6 DEF Adopt
    <2>7. CASE Collide(w)
      BY <2>7 DEF Collide
    <2>8. CASE Unlink(w)
      BY <2>8 DEF Unlink
    <2>9. CASE SyncDirectory(w)
      BY <2>9 DEF SyncDirectory
    <2>10. CASE Verify(w)
      BY <2>10 DEF Verify
    <2>11. CASE CleanUp(w)
      BY <2>11 DEF CleanUp
    <2> QED
      BY <1>1, <2>1, <2>2, <2>3, <2>4, <2>5, <2>6, <2>7, <2>8, <2>9, <2>10, <2>11
      DEF WriterStep
  <1>2. ASSUME NEW w \in Writers, SystemError(w)
        PROVE  StoreTypeOK'
    BY <1>2 DEF SystemError
  <1>3. ASSUME NEW w \in Writers, Kill(w)
        PROVE  StoreTypeOK'
    BY <1>3 DEF Kill
  <1>4. ASSUME NEW r \in Readers, Read(r)
        PROVE  StoreTypeOK'
    BY <1>4 DEF Read
  <1>5. CASE PowerCut
    <2>1. CASE EntriesSurvive
      BY <1>5, <2>1 DEF PowerCut, EntriesSurvive
    <2>2. CASE DirectoryLost
      BY <1>5, <2>2 DEF PowerCut, DirectoryLost
    <2> QED
      BY <1>5, <2>1, <2>2 DEF PowerCut
  <1>6. CASE UNCHANGED vars
    BY <1>6 DEF vars
  <1> QED
    BY <1>1, <1>2, <1>3, <1>4, <1>5, <1>6 DEF StoreNext

LEMMA WholeStep == StoreInv /\ [StoreNext]_vars => WholeInv'
  <1> SUFFICES ASSUME StoreInv, [StoreNext]_vars
               PROVE  WholeInv'
    OBVIOUS
  <1> USE StoreAssumption DEF StoreInv, StoreTypeOK, WholeInv, BlobIsWhole, Kept, Goto
  <1>1. ASSUME NEW w \in Writers, WriterStep(w)
        PROVE  WholeInv'
    <2>1. CASE MakeDirectory(w)
      BY <2>1 DEF MakeDirectory
    <2>2. CASE SyncParent(w)
      BY <2>2 DEF SyncParent
    <2>3. CASE CreateTemporary(w)
      BY <2>3 DEF CreateTemporary
    <2>4. CASE WriteTemporary(w)
      BY <2>4 DEF WriteTemporary
    <2>5. CASE Link(w)
      BY <2>5 DEF Link
    <2>6. CASE Adopt(w)
      BY <2>6 DEF Adopt
    <2>7. CASE Collide(w)
      BY <2>7 DEF Collide
    <2>8. CASE Unlink(w)
      BY <2>8 DEF Unlink
    <2>9. CASE SyncDirectory(w)
      BY <2>9 DEF SyncDirectory
    <2>10. CASE Verify(w)
      BY <2>10 DEF Verify
    <2>11. CASE CleanUp(w)
      BY <2>11 DEF CleanUp
    <2> QED
      BY <1>1, <2>1, <2>2, <2>3, <2>4, <2>5, <2>6, <2>7, <2>8, <2>9, <2>10, <2>11
      DEF WriterStep
  <1>2. ASSUME NEW w \in Writers, SystemError(w)
        PROVE  WholeInv'
    BY <1>2 DEF SystemError
  <1>3. ASSUME NEW w \in Writers, Kill(w)
        PROVE  WholeInv'
    BY <1>3 DEF Kill
  <1>4. ASSUME NEW r \in Readers, Read(r)
        PROVE  WholeInv'
    BY <1>4 DEF Read
  <1>5. CASE PowerCut
    <2>1. CASE EntriesSurvive
      BY <1>5, <2>1 DEF PowerCut, EntriesSurvive
    <2>2. CASE DirectoryLost
      BY <1>5, <2>2 DEF PowerCut, DirectoryLost
    <2> QED
      BY <1>5, <2>1, <2>2 DEF PowerCut
  <1>6. CASE UNCHANGED vars
    BY <1>6 DEF vars
  <1> QED
    BY <1>1, <1>2, <1>3, <1>4, <1>5, <1>6 DEF StoreNext

LEMMA BegunStep == StoreInv /\ [StoreNext]_vars => BegunInv'
  <1> SUFFICES ASSUME StoreInv, [StoreNext]_vars
               PROVE  BegunInv'
    OBVIOUS
  <1> USE StoreAssumption DEF StoreInv, StoreTypeOK, BegunInv, NoPublisher, Kept, Goto
  <1>1. ASSUME NEW w \in Writers, WriterStep(w)
        PROVE  BegunInv'
    <2>1. CASE MakeDirectory(w)
      BY <2>1 DEF MakeDirectory
    <2>2. CASE SyncParent(w)
      BY <2>2 DEF SyncParent
    <2>3. CASE CreateTemporary(w)
      BY <2>3 DEF CreateTemporary
    <2>4. CASE WriteTemporary(w)
      BY <2>4 DEF WriteTemporary
    <2>5. CASE Link(w)
      BY <2>5 DEF Link
    <2>6. CASE Adopt(w)
      BY <2>6 DEF Adopt
    <2>7. CASE Collide(w)
      BY <2>7 DEF Collide
    <2>8. CASE Unlink(w)
      BY <2>8 DEF Unlink
    <2>9. CASE SyncDirectory(w)
      BY <2>9 DEF SyncDirectory
    <2>10. CASE Verify(w)
      BY <2>10 DEF Verify
    <2>11. CASE CleanUp(w)
      BY <2>11 DEF CleanUp
    <2> QED
      BY <1>1, <2>1, <2>2, <2>3, <2>4, <2>5, <2>6, <2>7, <2>8, <2>9, <2>10, <2>11
      DEF WriterStep
  <1>2. ASSUME NEW w \in Writers, SystemError(w)
        PROVE  BegunInv'
    BY <1>2 DEF SystemError
  <1>3. ASSUME NEW w \in Writers, Kill(w)
        PROVE  BegunInv'
    BY <1>3 DEF Kill
  <1>4. ASSUME NEW r \in Readers, Read(r)
        PROVE  BegunInv'
    BY <1>4 DEF Read
  <1>5. CASE PowerCut
    <2>1. CASE EntriesSurvive
      BY <1>5, <2>1 DEF PowerCut, EntriesSurvive
    <2>2. CASE DirectoryLost
      BY <1>5, <2>2 DEF PowerCut, DirectoryLost
    <2> QED
      BY <1>5, <2>1, <2>2 DEF PowerCut
  <1>6. CASE UNCHANGED vars
    BY <1>6 DEF vars
  <1> QED
    BY <1>1, <1>2, <1>3, <1>4, <1>5, <1>6 DEF StoreNext

\* The heart of the argument: a new second link cannot appear beside a blob that
\* a writer past its link relies on, and a power cut cannot bring one back.
LEMMA LinkedStep == StoreInv /\ [StoreNext]_vars => LinkedInv'
  <1> SUFFICES ASSUME StoreInv, [StoreNext]_vars
               PROVE  LinkedInv'
    OBVIOUS
  <1> USE StoreAssumption 
      DEF StoreInv, StoreTypeOK, BegunInv, NoPublisher, LinkedInv, SyncedInv, Settled, WholeInv,
          BlobIsWhole, Kept, Goto, Working
  <1>1. ASSUME NEW w \in Writers, WriterStep(w)
        PROVE  LinkedInv'
    <2>1. CASE MakeDirectory(w)
      BY <2>1 DEF MakeDirectory
    <2>2. CASE SyncParent(w)
      BY <2>2 DEF SyncParent
    <2>3. CASE CreateTemporary(w)
      BY <2>3 DEF CreateTemporary
    <2>4. CASE WriteTemporary(w)
      BY <2>4 DEF WriteTemporary
    <2>5. CASE Link(w)
      BY <2>5 DEF Link
    <2>6. CASE Adopt(w)
      <3>1. blob # NoFile
        BY <2>6 DEF Adopt
      <3>2. blob \notin temp
        BY <2>6, <3>1, OneLink DEF Adopt
      <3> QED
        BY <2>6, <3>1, <3>2 DEF Adopt
    <2>7. CASE Collide(w)
      BY <2>7 DEF Collide
    <2>8. CASE Unlink(w)
      BY <2>8 DEF Unlink
    <2>9. CASE SyncDirectory(w)
      BY <2>9 DEF SyncDirectory
    <2>10. CASE Verify(w)
      BY <2>10 DEF Verify
    <2>11. CASE CleanUp(w)
      BY <2>11 DEF CleanUp
    <2> QED
      BY <1>1, <2>1, <2>2, <2>3, <2>4, <2>5, <2>6, <2>7, <2>8, <2>9, <2>10, <2>11
      DEF WriterStep
  <1>2. ASSUME NEW w \in Writers, SystemError(w)
        PROVE  LinkedInv'
    BY <1>2 DEF SystemError
  <1>3. ASSUME NEW w \in Writers, Kill(w)
        PROVE  LinkedInv'
    BY <1>3 DEF Kill
  <1>4. ASSUME NEW r \in Readers, Read(r)
        PROVE  LinkedInv'
    BY <1>4 DEF Read
  <1>5. CASE PowerCut
    <2>1. \A w \in Writers : pc'[w] \notin {"linked", "unlinked", "verifying"}
      BY <1>5 DEF PowerCut
    <2>2. \A w \in Writers : pc'[w] = "returned" => pc[w] = "returned"
      BY <1>5 DEF PowerCut
    <2>3. CASE EntriesSurvive
      <3>1. ASSUME owed' # {}
            PROVE  Settled'
        BY <1>5, <2>3, <3>1 DEF PowerCut, EntriesSurvive
      <3>2. ASSUME blob' # NoFile, pc'[blob'] = "returned"
            PROVE  owed' # {}
        BY <1>5, <2>2, <2>3, <3>2 DEF EntriesSurvive
      <3> QED
        BY <2>1, <3>1, <3>2
    <2>4. CASE DirectoryLost
      BY <2>1, <2>4 DEF DirectoryLost
    <2> QED
      BY <1>5, <2>3, <2>4 DEF PowerCut
  <1>6. CASE UNCHANGED vars
    BY <1>6 DEF vars
  <1> QED
    BY <1>1, <1>2, <1>3, <1>4, <1>5, <1>6 DEF StoreNext

LEMMA CleanStep == StoreInv /\ [StoreNext]_vars => CleanInv'
  <1> SUFFICES ASSUME StoreInv, [StoreNext]_vars
               PROVE  CleanInv'
    OBVIOUS
  <1> USE StoreAssumption DEF StoreInv, StoreTypeOK, CleanInv, Kept, Goto, Working
  <1>1. ASSUME NEW w \in Writers, WriterStep(w)
        PROVE  CleanInv'
    <2>1. CASE MakeDirectory(w)
      BY <2>1 DEF MakeDirectory
    <2>2. CASE SyncParent(w)
      BY <2>2 DEF SyncParent
    <2>3. CASE CreateTemporary(w)
      BY <2>3 DEF CreateTemporary
    <2>4. CASE WriteTemporary(w)
      BY <2>4 DEF WriteTemporary
    <2>5. CASE Link(w)
      BY <2>5 DEF Link
    <2>6. CASE Adopt(w)
      BY <2>6 DEF Adopt
    <2>7. CASE Collide(w)
      BY <2>7 DEF Collide
    <2>8. CASE Unlink(w)
      BY <2>8 DEF Unlink
    <2>9. CASE SyncDirectory(w)
      BY <2>9 DEF SyncDirectory
    <2>10. CASE Verify(w)
      BY <2>10 DEF Verify
    <2>11. CASE CleanUp(w)
      BY <2>11 DEF CleanUp
    <2> QED
      BY <1>1, <2>1, <2>2, <2>3, <2>4, <2>5, <2>6, <2>7, <2>8, <2>9, <2>10, <2>11
      DEF WriterStep
  <1>2. ASSUME NEW w \in Writers, SystemError(w)
        PROVE  CleanInv'
    BY <1>2 DEF SystemError
  <1>3. ASSUME NEW w \in Writers, Kill(w)
        PROVE  CleanInv'
    BY <1>3 DEF Kill
  <1>4. ASSUME NEW r \in Readers, Read(r)
        PROVE  CleanInv'
    BY <1>4 DEF Read
  <1>5. CASE PowerCut
    <2>1. CASE EntriesSurvive
      BY <1>5, <2>1 DEF PowerCut, EntriesSurvive
    <2>2. CASE DirectoryLost
      BY <1>5, <2>2 DEF PowerCut, DirectoryLost
    <2> QED
      BY <1>5, <2>1, <2>2 DEF PowerCut
  <1>6. CASE UNCHANGED vars
    BY <1>6 DEF vars
  <1> QED
    BY <1>1, <1>2, <1>3, <1>4, <1>5, <1>6 DEF StoreNext

LEMMA SyncedStep == StoreInv /\ [StoreNext]_vars => SyncedInv'
  <1> SUFFICES ASSUME StoreInv, [StoreNext]_vars
               PROVE  SyncedInv'
    OBVIOUS
  <1> USE StoreAssumption DEF StoreInv, StoreTypeOK, SyncedInv, Kept
  <1>1. ASSUME NEW w \in Writers, WriterStep(w)
        PROVE  SyncedInv'
    <2>1. CASE MakeDirectory(w)
      BY <2>1 DEF MakeDirectory
    <2>2. CASE SyncParent(w)
      BY <2>2 DEF SyncParent
    <2>3. CASE CreateTemporary(w)
      BY <2>3 DEF CreateTemporary
    <2>4. CASE WriteTemporary(w)
      BY <2>4 DEF WriteTemporary
    <2>5. CASE Link(w)
      BY <2>5 DEF Link
    <2>6. CASE Adopt(w)
      BY <2>6 DEF Adopt
    <2>7. CASE Collide(w)
      BY <2>7 DEF Collide
    <2>8. CASE Unlink(w)
      BY <2>8 DEF Unlink
    <2>9. CASE SyncDirectory(w)
      BY <2>9 DEF SyncDirectory
    <2>10. CASE Verify(w)
      BY <2>10 DEF Verify
    <2>11. CASE CleanUp(w)
      BY <2>11 DEF CleanUp
    <2> QED
      BY <1>1, <2>1, <2>2, <2>3, <2>4, <2>5, <2>6, <2>7, <2>8, <2>9, <2>10, <2>11
      DEF WriterStep
  <1>2. ASSUME NEW w \in Writers, SystemError(w)
        PROVE  SyncedInv'
    BY <1>2 DEF SystemError
  <1>3. ASSUME NEW w \in Writers, Kill(w)
        PROVE  SyncedInv'
    BY <1>3 DEF Kill
  <1>4. ASSUME NEW r \in Readers, Read(r)
        PROVE  SyncedInv'
    BY <1>4 DEF Read
  <1>5. CASE PowerCut
    <2>1. CASE EntriesSurvive
      BY <1>5, <2>1 DEF PowerCut, EntriesSurvive
    <2>2. CASE DirectoryLost
      BY <1>5, <2>2 DEF PowerCut, DirectoryLost
    <2> QED
      BY <1>5, <2>1, <2>2 DEF PowerCut
  <1>6. CASE UNCHANGED vars
    BY <1>6 DEF vars
  <1> QED
    BY <1>1, <1>2, <1>3, <1>4, <1>5, <1>6 DEF StoreNext

LEMMA PlaceStep == StoreInv /\ [StoreNext]_vars => PlaceInv'
  <1> SUFFICES ASSUME StoreInv, [StoreNext]_vars
               PROVE  PlaceInv'
    OBVIOUS
  <1> USE StoreAssumption DEF StoreInv, StoreTypeOK, PlaceInv, SyncedInv, Kept, Goto, Working
  <1>1. ASSUME NEW w \in Writers, WriterStep(w)
        PROVE  PlaceInv'
    <2>1. CASE MakeDirectory(w)
      BY <2>1 DEF MakeDirectory
    <2>2. CASE SyncParent(w)
      BY <2>2 DEF SyncParent
    <2>3. CASE CreateTemporary(w)
      BY <2>3 DEF CreateTemporary
    <2>4. CASE WriteTemporary(w)
      BY <2>4 DEF WriteTemporary
    <2>5. CASE Link(w)
      BY <2>5 DEF Link
    <2>6. CASE Adopt(w)
      BY <2>6 DEF Adopt
    <2>7. CASE Collide(w)
      BY <2>7 DEF Collide
    <2>8. CASE Unlink(w)
      BY <2>8 DEF Unlink
    <2>9. CASE SyncDirectory(w)
      BY <2>9 DEF SyncDirectory
    <2>10. CASE Verify(w)
      BY <2>10 DEF Verify
    <2>11. CASE CleanUp(w)
      BY <2>11 DEF CleanUp
    <2> QED
      BY <1>1, <2>1, <2>2, <2>3, <2>4, <2>5, <2>6, <2>7, <2>8, <2>9, <2>10, <2>11
      DEF WriterStep
  <1>2. ASSUME NEW w \in Writers, SystemError(w)
        PROVE  PlaceInv'
    BY <1>2 DEF SystemError
  <1>3. ASSUME NEW w \in Writers, Kill(w)
        PROVE  PlaceInv'
    BY <1>3 DEF Kill
  <1>4. ASSUME NEW r \in Readers, Read(r)
        PROVE  PlaceInv'
    BY <1>4 DEF Read
  <1>5. CASE PowerCut
    <2>1. CASE EntriesSurvive
      BY <1>5, <2>1 DEF PowerCut, EntriesSurvive
    <2>2. CASE DirectoryLost
      BY <1>5, <2>2 DEF PowerCut, DirectoryLost
    <2> QED
      BY <1>5, <2>1, <2>2 DEF PowerCut
  <1>6. CASE UNCHANGED vars
    BY <1>6 DEF vars
  <1> QED
    BY <1>1, <1>2, <1>3, <1>4, <1>5, <1>6 DEF StoreNext

\* The inductive invariant: types, whole files, and what a power cut may find.
THEOREM StoreInvariant == StoreSpec => []StoreInv
  <1>1. StoreInv /\ [StoreNext]_vars => StoreInv'
    BY TypeStep, WholeStep, BegunStep, LinkedStep, CleanStep, SyncedStep, PlaceStep
    DEF StoreInv
  <1> QED
    BY InvInit, <1>1, PTL DEF StoreSpec

\* The digest never names a torn file (put_blob links only what is written and
\* synced), for any number of kills and power cuts.
THEOREM WholeBlob == StoreSpec => []BlobIsWhole
  <1>1. StoreInv => BlobIsWhole
    BY DEF StoreInv, WholeInv
  <1> QED
    BY StoreInvariant, <1>1, PTL

\* What put_blob returned stays readable through every later kill, failure and power
\* cut that finds the directory, since put_blob syncs the directory also when it
\* adopted another's file.
THEOREM ReturnedReadable == StoreSpec => []ReturnedStaysReadable
  <1>1. StoreInv => ReturnedStaysReadable
    BY OneLink DEF StoreInv, LinkedInv, SyncedInv, Settled, ReturnedStaysReadable
  <1> QED
    BY StoreInvariant, <1>1, PTL

\* A blob keeps a second link only behind a publisher that is under way, was
\* killed or could not unlink, or whose unlink a power cut undid: the finally block
\* removes the temporary name on every other way out.
THEOREM SecondLinkExplained == StoreSpec => []SecondLinkHasAReason
  <1>1. ASSUME StoreInv, blob # NoFile, Links(blob) = 2
        PROVE  \/ pc[blob] \in Working \cup {"killed", "stranded"}
               \/ pc[blob] = "failed" /\ cuts > 0
    <2>1. blob \in Writers /\ blob \in temp
      BY <1>1, OneLink DEF StoreInv, StoreTypeOK
    <2>2. pc[blob] \in Working \cup {"failed", "stranded", "killed"}
      BY <1>1, <2>1
      DEF StoreInv, StoreTypeOK, BegunInv, NoPublisher, LinkedInv, SyncedInv, Settled, Ended
    <2>3. cuts = 0 => pc[blob] # "failed"
      BY <1>1, <2>1 DEF StoreInv, CleanInv, Working
    <2> QED
      BY <1>1, <2>2, <2>3 DEF StoreInv, StoreTypeOK
  <1>2. StoreInv => SecondLinkHasAReason
    BY <1>1 DEF SecondLinkHasAReason
  <1> QED
    BY StoreInvariant, <1>2, PTL

-----------------------------------------------------------------------------
(* The directory implements one durable cell.                               *)

\* A call that moves on gives the answer its new place stands for.
LEMMA CallAnswers ==
  ASSUME StoreTypeOK, NEW c \in Writers \cup Readers, NEW label, Goto(c, label)
  PROVE  /\ storeAnswer[c] = AnswerOf(pc[c])
         /\ storeAnswer' = [storeAnswer EXCEPT ![c] = AnswerOf(label)]
  BY DEF StoreTypeOK, Goto, storeAnswer

\* A call that moves on without an end to it has answered nothing.
LEMMA CallIsSilent ==
  ASSUME StoreTypeOK, NEW c \in Writers \cup Readers, NEW label, Goto(c, label),
         AnswerOf(pc[c]) = "none", AnswerOf(label) = "none"
  PROVE  storeAnswer' = storeAnswer
  <1>1. /\ storeAnswer[c] = "none"
        /\ storeAnswer' = [storeAnswer EXCEPT ![c] = "none"]
    BY CallAnswers
  <1>2. storeAnswer = [d \in Writers \cup Readers |-> storeAnswer[d]]
    BY DEF storeAnswer
  <1> QED
    BY <1>1, <1>2

\* Every step of a put is a step of the cell or none of its business: the cell is
\* rooted at the sync of the parent, fills at the link, and is confirmed by the
\* last check.
LEMMA WriterMovesCell ==
  ASSUME StoreInv, NEW w \in Writers, WriterStep(w)
  PROVE  [Cell!Next]_(Cell!vars)
  <1> USE DEF StoreInv, AnswerOf, Kept
  <1>1. CASE MakeDirectory(w) \/ CreateTemporary(w) \/ WriteTemporary(w) \/ Adopt(w)
             \/ Collide(w) \/ Unlink(w) \/ SyncDirectory(w)
    <2>1. storeAnswer' = storeAnswer
      BY <1>1, CallIsSilent
      DEF MakeDirectory, CreateTemporary, WriteTemporary, Adopt, Collide, Unlink, SyncDirectory
    <2>2. blob' = blob /\ owed' = owed
      BY <1>1
      DEF MakeDirectory, CreateTemporary, WriteTemporary, Adopt, Collide, Unlink, SyncDirectory
    <2>3. (place' = "rooted") = (place = "rooted")
      BY <1>1
      DEF MakeDirectory, CreateTemporary, WriteTemporary, Adopt, Collide, Unlink, SyncDirectory
    <2> QED
      BY <2>1, <2>2, <2>3 DEF Cell!vars
  <1>2. CASE SyncParent(w)
    <2>1. storeAnswer' = storeAnswer
      BY <1>2, CallIsSilent DEF SyncParent
    <2>2. Cell!Root
      BY <1>2, <2>1 DEF SyncParent, Cell!Root
    <2> QED
      BY <2>2 DEF Cell!Next
  <1>3. CASE Link(w)
    <2>1. storeAnswer' = storeAnswer /\ storeAnswer[w] = "none"
      BY <1>3, CallIsSilent, CallAnswers DEF Link
    <2>2. blob' # NoFile /\ owed' = owed /\ place' = place
      BY <1>3, StoreAssumption DEF Link
    <2>3. Cell!Fill(w)
      BY <2>1, <2>2 DEF Cell!Fill
    <2> QED
      BY <2>3 DEF Cell!Next
  <1>4. CASE Verify(w)
    <2>1. pc[w] = "verifying" /\ blob # NoFile /\ blob' = blob /\ place' = place
      BY <1>4 DEF Verify, LinkedInv, Settled
    <2>2. Links(blob) = 1 /\ blob \in whole
      BY <2>1, OneLink DEF LinkedInv, Settled, SyncedInv, WholeInv, BlobIsWhole
    <2>3. Goto(w, "returned") /\ owed' = owed \cup {w}
      BY <1>4, <2>2 DEF Verify
    <2>4. Cell!Put(w)
      BY <2>1, <2>3, CallAnswers DEF Cell!Put, Cell!Answer
    <2> QED
      BY <2>4 DEF Cell!Next
  <1>5. CASE CleanUp(w)
    <2>1. blob' = blob /\ place' = place /\ owed' = owed /\ storeAnswer[w] = "none"
      BY <1>5, CallAnswers DEF CleanUp
    <2>2. storeAnswer' = [storeAnswer EXCEPT ![w] = "error"]
      BY <1>5, CallAnswers DEF CleanUp
    <2>3. Cell!Fail(w)
      BY <2>1, <2>2 DEF Cell!Fail, Cell!Answer
    <2> QED
      BY <2>3 DEF Cell!Next
  <1> QED
    BY <1>1, <1>2, <1>3, <1>4, <1>5 DEF WriterStep

\* A reader is told what the cell holds, or that it would not settle.
LEMMA ReaderMovesCell ==
  ASSUME StoreInv, NEW r \in Readers, Read(r)
  PROVE  Cell!Next
  <1> USE DEF StoreInv, AnswerOf, Kept
  <1>1. pc[r] = "called" /\ blob' = blob /\ place' = place /\ owed' = owed
    BY DEF Read
  <1>2. CASE blob = NoFile /\ Goto(r, "absent")
    <2>1. Cell!Get(r)
      BY <1>1, <1>2, CallAnswers DEF Cell!Get, Cell!Answer
    <2> QED
      BY <2>1 DEF Cell!Next
  <1>3. CASE blob # NoFile /\ Goto(r, IF blob \in whole THEN "returned" ELSE "corrupt")
    <2>1. Goto(r, "returned")
      BY <1>3 DEF WholeInv, BlobIsWhole
    <2>2. Cell!Get(r)
      BY <1>1, <1>3, <2>1, CallAnswers DEF Cell!Get, Cell!Answer
    <2> QED
      BY <2>2 DEF Cell!Next
  <1>4. CASE Goto(r, "unstable") \/ Goto(r, "failed")
    <2>1. Cell!Fail(r)
      BY <1>1, <1>4, CallAnswers DEF Cell!Fail, Cell!Answer
    <2> QED
      BY <2>1 DEF Cell!Next
  <1> QED
    BY <1>2, <1>3, <1>4 DEF Read

\* A power cut answers nobody.  It empties the cell only before a put returned,
\* or with the directory.
LEMMA CutMovesCell ==
  ASSUME StoreInv, PowerCut
  PROVE  [Cell!Next]_(Cell!vars)
  <1> USE DEF StoreInv, PowerCut
  <1>1. storeAnswer' = storeAnswer
    BY DEF storeAnswer, AnswerOf, StoreTypeOK, Working
  <1>2. CASE DirectoryLost
    <2>1. Cell!Uproot
      BY <1>1, <1>2 DEF DirectoryLost, Cell!Uproot
    <2> QED
      BY <2>1 DEF Cell!Next
  <1>3. CASE EntriesSurvive /\ (blob' # NoFile) = (blob # NoFile)
    <2>1. CASE place = "made"
      <3>1. Cell!Root
        BY <1>1, <1>3, <2>1 DEF EntriesSurvive, Cell!Root
      <3> QED
        BY <3>1 DEF Cell!Next
    <2>2. CASE place # "made"
      BY <1>1, <1>3, <2>2 DEF EntriesSurvive, Cell!vars
    <2> QED
      BY <2>1, <2>2
  <1>4. CASE EntriesSurvive /\ (blob' # NoFile) # (blob # NoFile)
    <2>1. blob # NoFile /\ blob' = NoFile /\ synced.blob = NoFile
      BY <1>4 DEF SyncedInv, EntriesSurvive
    <2>2. owed = {} /\ owed' = owed
      BY <1>4, <2>1 DEF LinkedInv, Settled, EntriesSurvive
    <2>3. place' = "rooted"
      BY <1>4, <2>1 DEF PlaceInv, StoreTypeOK, EntriesSurvive
    <2>4. Cell!Empty
      BY <1>1, <2>1, <2>2, <2>3 DEF Cell!Empty
    <2> QED
      BY <2>4 DEF Cell!Next
  <1> QED
    BY <1>2, <1>3, <1>4

\* Every step of the store is a step of the cell, or leaves it as it is.
LEMMA StoreMovesCell == StoreInv /\ [StoreNext]_vars => [Cell!Next]_(Cell!vars)
  <1> SUFFICES ASSUME StoreInv, [StoreNext]_vars
               PROVE  [Cell!Next]_(Cell!vars)
    OBVIOUS
  <1>1. ASSUME NEW w \in Writers, SystemError(w) \/ Kill(w)
        PROVE  UNCHANGED Cell!vars
    <2>1. PICK label \in Working \cup {"called"}, next \in {"erring", "killed"} :
            pc[w] = label /\ Goto(w, next)
      BY <1>1 DEF SystemError, Kill, Working
    <2>2. AnswerOf(pc[w]) = "none" /\ AnswerOf(next) = "none"
      BY <2>1 DEF AnswerOf, Working
    <2>3. storeAnswer' = storeAnswer
      BY <2>1, <2>2, CallIsSilent DEF StoreInv
    <2> QED
      BY <1>1, <2>3 DEF SystemError, Kill, Kept, Cell!vars
  <1>2. CASE UNCHANGED vars
    BY <1>2 DEF vars, Cell!vars, storeAnswer
  <1> QED
    BY <1>1, <1>2, WriterMovesCell, ReaderMovesCell, CutMovesCell DEF StoreNext

\* The store implements one durable cell, for any number of writers, readers,
\* kills and power cuts: what put_blob returned is lost with its directory or never,
\* and read_blob tells what is there, torn to nobody.
THEOREM StoreImplementsDurableBlob == StoreSpec => ImplementsDurableBlob
  <1>1. StoreInit => Cell!Init
    BY DEF StoreInit, Cell!Init, storeAnswer, AnswerOf
  <1> QED
    BY <1>1, StoreInvariant, StoreMovesCell, PTL
    DEF StoreSpec, ImplementsDurableBlob, Cell!Spec

=============================================================================
