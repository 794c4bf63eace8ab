---------------------------- MODULE StoreTray_proofs ----------------------------
(***************************************************************************)
(* Proofs about two components that share nothing: Store, the files that   *)
(* are written, and Tray, the notification area.                           *)
(*                                                                         *)
(* Store, for every set of writers and of starts of the daemon, and any    *)
(* number of crashes: no update leaves half a document, the file holds     *)
(* every update reported saved as long as no lock in use is removed and no *)
(* sound configuration is moved aside, and what no update has read is kept *)
(* but in the cases that UnreadIsKept names.                               *)
(*                                                                         *)
(* Tray, for every set of settings, every capacity and any number of       *)
(* choices, messages that nest included: the menu tells the truth once     *)
(* nothing is under way, a notification waits for an icon or for a post    *)
(* that failed, Windows holds one reason to wait for a query that is not   *)
(* settled, and a press after a stop offers no work.                       *)
(***************************************************************************)
EXTENDS Store, Tray, SequenceTheorems, FiniteSetTheorems, TLAPS

-----------------------------------------------------------------------------
(* Store.                                                                  *)


\* A writer that has read the document and has not put its own in its place.
Working(w) == pc[w] \in {"opening", "writing", "flushing", "moving"}

\* While no lock in use was removed, whoever holds the lock is whom it names; a
\* lock names somebody who holds it or died with it, and looks old only then.
LockIsHeld ==
    /\ ~robbed => \A w \in Writer : pc[w] \in Holding => lock # None /\ lock.of = w
    /\ lock # None => /\ pc[lock.of] \in Holding \cup {"dead"}
                      /\ lock.old => pc[lock.of] = "dead"

\* What an update renames into place has been flushed; only what the user's side
\* wrote may not have been.
Kept(f) == f.kind # "torn" /\ (f.flushed \/ f.holds \subseteq {User})
Flushed ==
    /\ Kept(file) /\ Kept(disk)
    /\ \A w \in Writer : pc[w] = "moving" => temporary[w] = "flushed"

\* What was reported saved is in both copies of the file and in every document
\* somebody is about to write.
SavedIsEverywhere ==
    ~robbed /\ ~misplaced =>
        /\ saved \subseteq file.holds /\ saved \subseteq disk.holds
        /\ \A w \in Writer : /\ Working(w) => saved \subseteq copy[w]
                             /\ pc[w] = "settling" => w \in file.holds

\* Nobody is at work on a file that cannot be read.
ForeignIsLeft ==
    file = Foreign => /\ disk = Foreign
                      /\ \A w \in Writer : ~Working(w) /\ pc[w] # "settling"

\* Until an update that read an empty configuration replaces it, or a sound one
\* is moved aside: what is flushed of the user's part is in the file, and a
\* document about to replace the file has it if and only if the file has.
UserIsCopied ==
    ~hasty /\ ~misplaced =>
        /\ disk.flushed /\ User \in disk.holds => file.flushed /\ User \in file.holds
        /\ \A w \in Writer : Working(w) =>
             /\ found[w] => file.kind \in {"making", "empty", "document"}
             /\ User \in copy[w] => User \in file.holds
             /\ MayReplace(w) /\ User \in file.holds => User \in copy[w] \/ ReadEmpty(w)
             /\ found[w] /\ file.kind \in {"making", "empty"} => copy[w] = {}

IInv == TypeOK /\ LockIsHeld /\ Flushed /\ SavedIsEverywhere /\ ForeignIsLeft
        /\ UserIsCopied

-----------------------------------------------------------------------------
\* What a power cut leaves has been flushed, and is whole where the file was
\* flushed or held an update.
LEMMA RemainsKept ==
    ASSUME NEW f \in Files, Kept(f), NEW g \in Remains(f)
    PROVE  /\ g \in Files /\ g.flushed /\ g.kind # "torn"
           /\ f.flushed => g = f
           /\ f.holds \cap Writer \subseteq g.holds
<1> USE WriterAssumption DEF Kept, Files, Kinds, Document, Missing, Foreign, Torn, Making,
        Empty
<1>1. CASE f.flushed
  BY <1>1 DEF Remains
<1>2. CASE f = Making
  <2>1. g = Empty
    BY <1>2 DEF Remains
  <2> QED
    BY <1>2, <2>1
<1>3. CASE ~f.flushed /\ f # Making
  <2> DEFINE whole == [f EXCEPT !.flushed = TRUE]
  <2>1. g \in {whole, Empty, Foreign}
    BY <1>3 DEF Remains
  <2>2. whole \in Files /\ whole.flushed /\ whole.kind = f.kind /\ whole.holds = f.holds
    <3>1. f.kind = "document"
      BY <1>3
    <3>2. whole \in [kind : Kinds, holds : SUBSET (Writer \cup {User}), flushed : BOOLEAN]
      OBVIOUS
    <3> QED
      BY <3>1, <3>2
  <2>3. Empty \in Files /\ Foreign \in Files /\ Empty.flushed /\ Foreign.flushed
        /\ Empty.kind # "torn" /\ Foreign.kind # "torn"
    OBVIOUS
  <2>4. Empty.holds = {} /\ Foreign.holds = {} /\ f.holds \cap Writer = {} /\ f.kind # "torn"
    BY <1>3
  <2> HIDE DEF whole, Empty, Foreign, Files, Kept
  <2> QED
    BY <1>3, <2>1, <2>2, <2>3, <2>4
<1> QED
  BY <1>1, <1>2, <1>3

\* Every step leaves every variable of its type.
LEMMA TypeStep ==
    ASSUME TypeOK, Flushed, Next
    PROVE  TypeOK'
<1> USE WriterAssumption, CrashAssumption DEF TypeOK, States, Files, Kinds, Document, Missing, Foreign, Torn,
    Making, Empty, Goto, StarterGoto, writerVars, startVars, Holding
<1>1. ASSUME NEW w \in Writer, Begin(w) \/ LockExists(w) \/ LockRefused(w) \/
    CheckLock(w) \/ WaitForLock(w) PROVE TypeOK'
  BY <1>1 DEF Begin, LockExists, LockRefused, CheckLock, WaitForLock
<1>2. ASSUME NEW w \in Writer, CreateLock(w) PROVE TypeOK'
  BY <1>2 DEF CreateLock
<1>3. ASSUME NEW w \in Writer, BreakLock(w) PROVE TypeOK'
  BY <1>3 DEF BreakLock
<1>4. ASSUME NEW w \in Writer, ReleaseLock(w) PROVE TypeOK'
  BY <1>4 DEF ReleaseLock, Forgets
<1>5. ASSUME NEW w \in Writer, Read(w) PROVE TypeOK'
  <2> DEFINE isThere == file # Missing
  <2>1. isThere \in BOOLEAN
    OBVIOUS
  <2>2. found' = found \/ found' = [found EXCEPT ![w] = isThere]
    BY <1>5 DEF Read
  <2> HIDE DEF isThere
  <2>3. found' \in [Writer -> BOOLEAN]
    BY <2>1, <2>2
  <2>4. copy' \in [Writer -> SUBSET (Writer \cup {User})]
    BY <1>5 DEF Read
  <2>5. pc' \in [Writer -> States]
    BY <1>5 DEF Read
  <2> QED
    BY <1>5, <2>3, <2>4, <2>5 DEF Read
<1>6. ASSUME NEW w \in Writer, OpenTemporary(w) \/ WriteTemporary(w) PROVE TypeOK'
  BY <1>6 DEF OpenTemporary, WriteTemporary, GiveUp
<1>7. ASSUME NEW w \in Writer, FlushTemporary(w) PROVE TypeOK'
  BY <1>7 DEF FlushTemporary, GiveUp
<1>8. ASSUME NEW w \in Writer, MoveIntoPlace(w) PROVE TypeOK'
  BY <1>8 DEF MoveIntoPlace
<1>9. ASSUME NEW w \in Writer, CreatedByAnother(w) \/ MoveFails(w) PROVE TypeOK'
  <2>1. pc' \in [Writer -> States]
    BY <1>9 DEF CreatedByAnother, MoveFails, GiveUp
  <2>2. again' \in [Writer -> BOOLEAN]
    BY <1>9 DEF CreatedByAnother, MoveFails, GiveUp
  <2> QED
    BY <1>9, <2>1, <2>2 DEF CreatedByAnother, MoveFails, GiveUp
<1>10. ASSUME NEW w \in Writer, Settle(w) PROVE TypeOK'
  BY <1>10 DEF Settle
<1>11. ASSUME NEW w \in Writer, Dies(w) PROVE TypeOK'
  BY <1>11 DEF Dies, Forgets
<1>12. CASE LockGrowsOld
  BY <1>12 DEF LockGrowsOld
<1>13. CASE Unlocked
  <2>1. file' \in {Making, Document({User}, FALSE), Empty}
    BY <1>13 DEF Unlocked, MakerCreates, MakerWrites, MakerFails, UserRepairs
  <2>2. Making \in Files /\ Document({User}, FALSE) \in Files /\ Empty \in Files
    OBVIOUS
  <2>3. file' \in Files
    <3> HIDE DEF Making, Document, Empty, Files
    <3> QED
      BY <2>1, <2>2
  <2> QED
    BY <1>13, <2>3 DEF Unlocked, MakerCreates, MakerWrites, MakerFails, UserRepairs
<1>14. CASE PowerCut
  <2>1. pc' \in [Writer -> States]
    BY <1>14 DEF PowerCut
  <2>2. file' \in Files /\ disk' = file'
    BY <1>14, RemainsKept DEF PowerCut, Flushed
  <2>3. copy' \in [Writer -> SUBSET (Writer \cup {User})]
        /\ found' \in [Writer -> BOOLEAN] /\ again' \in [Writer -> BOOLEAN]
        /\ temporary' \in [Writer -> {"none", "part", "full", "flushed"}]
        /\ starter' \in [Starter -> {"idle", "judged", "moved", "ended"}]
    BY <1>14 DEF PowerCut
  <2> QED
    BY <1>14, <2>1, <2>2, <2>3 DEF PowerCut
<1>15. ASSUME NEW s \in Starter, Starting(s) PROVE TypeOK'
  <2>1. starter' \in [Starter -> {"idle", "judged", "moved", "ended"}]
    BY <1>15 DEF Starting, StartReads, Quarantines, QuarantineEnds, QuarantineSettles
  <2>2. misplaced' \in BOOLEAN
    <3> DEFINE sound == ~IsDamaged(file)
    <3>1. misplaced' = misplaced \/ misplaced' = (misplaced \/ sound)
      BY <1>15 DEF Starting, StartReads, Quarantines, QuarantineEnds, QuarantineSettles
    <3>2. misplaced \in BOOLEAN
      OBVIOUS
    <3> HIDE DEF sound
    <3> QED
      BY <3>1, <3>2, Zenon
  <2>3. file' \in Files /\ disk' \in Files
    <3>1. file' \in {file, Missing} /\ disk' \in {disk, file}
      <4>1. CASE QuarantineSettles(s)
        BY <4>1 DEF QuarantineSettles
      <4>2. CASE StartReads(s) \/ Quarantines(s) \/ QuarantineEnds(s)
        BY <4>2 DEF StartReads, Quarantines, QuarantineEnds
      <4> QED
        BY <1>15, <4>1, <4>2 DEF Starting
    <3>2. Missing \in Files /\ file \in Files /\ disk \in Files
      OBVIOUS
    <3> HIDE DEF Missing, Files
    <3> QED
      BY <3>1, <3>2
  <2>4. UNCHANGED <<mode, lock, pc, copy, found, again, temporary, saved, robbed, hasty, crashes>>
    <3>1. StartReads(s) \/ Quarantines(s) \/ QuarantineEnds(s) \/ QuarantineSettles(s)
      BY <1>15 DEF Starting
    <3> QED
      BY <3>1, Zenon DEF StartReads, Quarantines, QuarantineEnds, QuarantineSettles
  <2> QED
    BY <2>1, <2>2, <2>3, <2>4
<1> QED
    BY <1>1, <1>2, <1>3, <1>4, <1>5, <1>6, <1>7, <1>8, <1>9, <1>10, <1>11, <1>12,
      <1>13, <1>14, <1>15 DEF Next, Acquiring, Updating

\* Taking, breaking and dropping the lock, and dying with it.
LEMMA LockStep ==
    ASSUME TypeOK, LockIsHeld, Next
    PROVE  LockIsHeld'
<1> USE WriterAssumption DEF TypeOK, States, LockIsHeld, Goto, StarterGoto, writerVars, startVars, Holding
<1>1. ASSUME NEW w \in Writer, Begin(w) \/ LockExists(w) \/ LockRefused(w) \/
    CheckLock(w) \/ WaitForLock(w) PROVE LockIsHeld'
  BY <1>1 DEF Begin, LockExists, LockRefused, CheckLock, WaitForLock
<1>2. ASSUME NEW w \in Writer, CreateLock(w) PROVE LockIsHeld'
  <2>1. [of |-> w, old |-> FALSE] \in [of : Writer, old : BOOLEAN]
    OBVIOUS
  <2>2. lock' # None /\ lock'.of = w /\ ~lock'.old
    BY <1>2, <2>1 DEF CreateLock
  <2>3. pc' = [pc EXCEPT ![w] = "reading"] /\ lock = None /\ robbed' = robbed
    BY <1>2 DEF CreateLock
  <2> QED
    BY <2>2, <2>3
<1>3. ASSUME NEW w \in Writer, BreakLock(w) PROVE LockIsHeld'
  BY <1>3 DEF BreakLock
<1>4. ASSUME NEW w \in Writer, ReleaseLock(w) PROVE LockIsHeld'
  BY <1>4 DEF ReleaseLock, Forgets
<1>5. ASSUME NEW w \in Writer, Read(w) PROVE LockIsHeld'
  BY <1>5 DEF Read
<1>6. ASSUME NEW w \in Writer, OpenTemporary(w) \/ WriteTemporary(w) PROVE LockIsHeld'
  BY <1>6 DEF OpenTemporary, WriteTemporary, GiveUp
<1>7. ASSUME NEW w \in Writer, FlushTemporary(w) PROVE LockIsHeld'
  BY <1>7 DEF FlushTemporary, GiveUp
<1>8. ASSUME NEW w \in Writer, MoveIntoPlace(w) PROVE LockIsHeld'
  BY <1>8 DEF MoveIntoPlace
<1>9. ASSUME NEW w \in Writer, CreatedByAnother(w) \/ MoveFails(w) PROVE LockIsHeld'
  BY <1>9 DEF CreatedByAnother, MoveFails, GiveUp
<1>10. ASSUME NEW w \in Writer, Settle(w) PROVE LockIsHeld'
  BY <1>10 DEF Settle
<1>11. ASSUME NEW w \in Writer, Dies(w) PROVE LockIsHeld'
  BY <1>11 DEF Dies, Forgets
<1>12. CASE LockGrowsOld
  BY <1>12 DEF LockGrowsOld
<1>13. CASE Unlocked
  BY <1>13 DEF Unlocked, MakerCreates, MakerWrites, MakerFails, UserRepairs
<1>14. CASE PowerCut
  BY <1>14 DEF PowerCut
<1>15. ASSUME NEW s \in Starter, Starting(s) PROVE LockIsHeld'
  BY <1>15 DEF Starting, StartReads, Quarantines, QuarantineEnds, QuarantineSettles
<1> QED
    BY <1>1, <1>2, <1>3, <1>4, <1>5, <1>6, <1>7, <1>8, <1>9, <1>10, <1>11, <1>12,
      <1>13, <1>14, <1>15 DEF Next, Acquiring, Updating

\* Only a flushed temporary file is renamed into place.
LEMMA FlushedStep ==
    ASSUME TypeOK, Flushed, Next
    PROVE  Flushed'
<1> USE WriterAssumption DEF TypeOK, States, Files, Kinds, Kept, Flushed, Document, Missing,
    Foreign, Torn, Making, Empty, Goto, StarterGoto, writerVars, startVars, Holding
<1>1. ASSUME NEW w \in Writer, Begin(w) \/ LockExists(w) \/ LockRefused(w) \/
    CheckLock(w) \/ WaitForLock(w) PROVE Flushed'
  BY <1>1 DEF Begin, LockExists, LockRefused, CheckLock, WaitForLock
<1>2. ASSUME NEW w \in Writer, CreateLock(w) PROVE Flushed'
  BY <1>2 DEF CreateLock
<1>3. ASSUME NEW w \in Writer, BreakLock(w) PROVE Flushed'
  BY <1>3 DEF BreakLock
<1>4. ASSUME NEW w \in Writer, ReleaseLock(w) PROVE Flushed'
  BY <1>4 DEF ReleaseLock, Forgets
<1>5. ASSUME NEW w \in Writer, Read(w) PROVE Flushed'
  BY <1>5 DEF Read
<1>6. ASSUME NEW w \in Writer, OpenTemporary(w) \/ WriteTemporary(w) PROVE Flushed'
  BY <1>6 DEF OpenTemporary, WriteTemporary, GiveUp
<1>7. ASSUME NEW w \in Writer, FlushTemporary(w) PROVE Flushed'
  BY <1>7 DEF FlushTemporary, GiveUp
<1>8. ASSUME NEW w \in Writer, MoveIntoPlace(w) PROVE Flushed'
  BY <1>8 DEF MoveIntoPlace
<1>9. ASSUME NEW w \in Writer, CreatedByAnother(w) \/ MoveFails(w) PROVE Flushed'
  BY <1>9 DEF CreatedByAnother, MoveFails, GiveUp
<1>10. ASSUME NEW w \in Writer, Settle(w) PROVE Flushed'
  BY <1>10 DEF Settle
<1>11. ASSUME NEW w \in Writer, Dies(w) PROVE Flushed'
  BY <1>11 DEF Dies, Forgets
<1>12. CASE LockGrowsOld
  BY <1>12 DEF LockGrowsOld
<1>13. CASE Unlocked
  BY <1>13 DEF Unlocked, MakerCreates, MakerWrites, MakerFails, UserRepairs
<1>14. CASE PowerCut
  <2>1. file' \in Remains(file) \cup Remains(disk) /\ disk' = file'
    BY <1>14 DEF PowerCut
  <2>2. file' \in Files /\ file'.flushed /\ file'.kind # "torn"
    <3> HIDE DEF Files, Kept
    <3> QED
      BY <2>1, RemainsKept
  <2>3. \A w \in Writer : pc'[w] # "moving"
    BY <1>14 DEF PowerCut
  <2> QED
    BY <2>1, <2>2, <2>3
<1>15. ASSUME NEW s \in Starter, Starting(s) PROVE Flushed'
  BY <1>15 DEF Starting, StartReads, Quarantines, QuarantineEnds, QuarantineSettles
<1> QED
    BY <1>1, <1>2, <1>3, <1>4, <1>5, <1>6, <1>7, <1>8, <1>9, <1>10, <1>11, <1>12,
      <1>13, <1>14, <1>15 DEF Next, Acquiring, Updating

\* One writer at a time copies what is saved, and adds its own.
LEMMA SavedStep ==
    ASSUME TypeOK, LockIsHeld, Flushed, SavedIsEverywhere, Next
    PROVE  SavedIsEverywhere'
<1> USE WriterAssumption DEF TypeOK, States, Files, Kinds, LockIsHeld, Flushed,
    SavedIsEverywhere, Working, Document, Missing, Foreign, Torn, Making, Empty, IsDamaged, Goto, StarterGoto, writerVars, startVars, Holding
<1>1. ASSUME NEW w \in Writer, Begin(w) \/ LockExists(w) \/ LockRefused(w) \/
    CheckLock(w) \/ WaitForLock(w) PROVE SavedIsEverywhere'
  BY <1>1 DEF Begin, LockExists, LockRefused, CheckLock, WaitForLock
<1>2. ASSUME NEW w \in Writer, CreateLock(w) PROVE SavedIsEverywhere'
  BY <1>2 DEF CreateLock
<1>3. ASSUME NEW w \in Writer, BreakLock(w) PROVE SavedIsEverywhere'
  BY <1>3 DEF BreakLock
<1>4. ASSUME NEW w \in Writer, ReleaseLock(w) PROVE SavedIsEverywhere'
  BY <1>4 DEF ReleaseLock, Forgets
<1>5. ASSUME NEW w \in Writer, Read(w) PROVE SavedIsEverywhere'
  BY <1>5 DEF Read
<1>6. ASSUME NEW w \in Writer, OpenTemporary(w) \/ WriteTemporary(w) PROVE
    SavedIsEverywhere'
  BY <1>6 DEF OpenTemporary, WriteTemporary, GiveUp
<1>7. ASSUME NEW w \in Writer, FlushTemporary(w) PROVE SavedIsEverywhere'
  BY <1>7 DEF FlushTemporary, GiveUp
<1>8. ASSUME NEW w \in Writer, MoveIntoPlace(w) PROVE SavedIsEverywhere'
  BY <1>8 DEF MoveIntoPlace
<1>9. ASSUME NEW w \in Writer, CreatedByAnother(w) \/ MoveFails(w) PROVE
    SavedIsEverywhere'
  BY <1>9 DEF CreatedByAnother, MoveFails, GiveUp
<1>10. ASSUME NEW w \in Writer, Settle(w) PROVE SavedIsEverywhere'
  BY <1>10 DEF Settle
<1>11. ASSUME NEW w \in Writer, Dies(w) PROVE SavedIsEverywhere'
  BY <1>11 DEF Dies, Forgets
<1>12. CASE LockGrowsOld
  BY <1>12 DEF LockGrowsOld
<1>13. CASE Unlocked
  <2>1. file.holds = {}
    BY <1>13 DEF Unlocked, MakerCreates, MakerWrites, MakerFails, UserRepairs, Foreign, Torn
  <2>2. UNCHANGED <<disk, pc, copy, saved, robbed, misplaced>>
    BY <1>13 DEF Unlocked, MakerCreates, MakerWrites, MakerFails, UserRepairs
  <2> QED
    BY <2>1, <2>2
<1>14. CASE PowerCut
  <2>1. file' \in Remains(file) \cup Remains(disk) /\ disk' = file'
    BY <1>14 DEF PowerCut
  <2>2. file.holds \cap Writer \subseteq file'.holds \/ disk.holds \cap Writer \subseteq file'.holds
    <3> HIDE DEF Files, Kept
    <3> QED
      BY <2>1, RemainsKept
  <2>3. \A w \in Writer : pc'[w] \in {"idle", "ended", "dead"}
    BY <1>14 DEF PowerCut
  <2>4. saved' = saved /\ robbed' = robbed /\ misplaced' = misplaced
    BY <1>14 DEF PowerCut
  <2>5. saved \subseteq Writer
    OBVIOUS
  <2> QED
    BY <2>1, <2>2, <2>3, <2>4, <2>5
<1>15. ASSUME NEW s \in Starter, Starting(s) PROVE SavedIsEverywhere'
  <2>1. CASE StartReads(s) \/ QuarantineEnds(s)
    BY <2>1 DEF StartReads, QuarantineEnds
  <2>2. CASE QuarantineSettles(s)
    BY <2>2 DEF QuarantineSettles
  <2>3. CASE Quarantines(s)
    <3> DEFINE sound == ~IsDamaged(file)
    <3>0. misplaced' = (misplaced \/ sound)
      BY <2>3 DEF Quarantines
    <3>1. ~misplaced' => ~misplaced /\ file.holds = {}
      <4>1. ~sound => file.holds = {}
        OBVIOUS
      <4> HIDE DEF sound
      <4> QED
        BY <3>0, <4>1, Zenon
    <3>2. UNCHANGED <<disk, pc, copy, saved, robbed>>
      BY <2>3 DEF Quarantines
    <3>3. file'.holds = {}
      BY <2>3 DEF Quarantines
    <3> QED
      BY <3>1, <3>2, <3>3
  <2> QED
    BY <1>15, <2>1, <2>2, <2>3 DEF Starting
<1> QED
    BY <1>1, <1>2, <1>3, <1>4, <1>5, <1>6, <1>7, <1>8, <1>9, <1>10, <1>11, <1>12,
      <1>13, <1>14, <1>15 DEF Next, Acquiring, Updating

\* A file that cannot be read sends its readers away.
LEMMA ForeignStep ==
    ASSUME TypeOK, Flushed, ForeignIsLeft, Next
    PROVE  ForeignIsLeft'
<1> USE WriterAssumption DEF TypeOK, States, Files, Kinds, ForeignIsLeft, Working, Document,
    Missing, Foreign, Torn, Making, Empty, IsDamaged, Goto, StarterGoto, writerVars, startVars, Holding
<1>1. ASSUME NEW w \in Writer, Begin(w) \/ LockExists(w) \/ LockRefused(w) \/
    CheckLock(w) \/ WaitForLock(w) PROVE ForeignIsLeft'
  BY <1>1 DEF Begin, LockExists, LockRefused, CheckLock, WaitForLock
<1>2. ASSUME NEW w \in Writer, CreateLock(w) PROVE ForeignIsLeft'
  BY <1>2 DEF CreateLock
<1>3. ASSUME NEW w \in Writer, BreakLock(w) PROVE ForeignIsLeft'
  BY <1>3 DEF BreakLock
<1>4. ASSUME NEW w \in Writer, ReleaseLock(w) PROVE ForeignIsLeft'
  BY <1>4 DEF ReleaseLock, Forgets
<1>5. ASSUME NEW w \in Writer, Read(w) PROVE ForeignIsLeft'
  BY <1>5 DEF Read
<1>6. ASSUME NEW w \in Writer, OpenTemporary(w) \/ WriteTemporary(w) PROVE
    ForeignIsLeft'
  BY <1>6 DEF OpenTemporary, WriteTemporary, GiveUp
<1>7. ASSUME NEW w \in Writer, FlushTemporary(w) PROVE ForeignIsLeft'
  BY <1>7 DEF FlushTemporary, GiveUp
<1>8. ASSUME NEW w \in Writer, MoveIntoPlace(w) PROVE ForeignIsLeft'
  BY <1>8 DEF MoveIntoPlace
<1>9. ASSUME NEW w \in Writer, CreatedByAnother(w) \/ MoveFails(w) PROVE ForeignIsLeft'
  BY <1>9 DEF CreatedByAnother, MoveFails, GiveUp
<1>10. ASSUME NEW w \in Writer, Settle(w) PROVE ForeignIsLeft'
  BY <1>10 DEF Settle
<1>11. ASSUME NEW w \in Writer, Dies(w) PROVE ForeignIsLeft'
  BY <1>11 DEF Dies, Forgets
<1>12. CASE LockGrowsOld
  BY <1>12 DEF LockGrowsOld
<1>13. CASE Unlocked
  BY <1>13 DEF Unlocked, MakerCreates, MakerWrites, MakerFails, UserRepairs
<1>14. CASE PowerCut
  BY <1>14 DEF PowerCut
<1>15. ASSUME NEW s \in Starter, Starting(s) PROVE ForeignIsLeft'
  BY <1>15 DEF Starting, StartReads, Quarantines, QuarantineEnds, QuarantineSettles
<1> QED
    BY <1>1, <1>2, <1>3, <1>4, <1>5, <1>6, <1>7, <1>8, <1>9, <1>10, <1>11, <1>12,
      <1>13, <1>14, <1>15 DEF Next, Acquiring, Updating

\* A document is copied with the user's part or made where there was none.
LEMMA UserStep ==
    ASSUME TypeOK, Flushed, UserIsCopied, Next
    PROVE  UserIsCopied'
<1> USE WriterAssumption DEF TypeOK, States, Files, Kinds, UserIsCopied, Working, MayReplace,
    ReadEmpty, Document, Missing, Foreign, Torn, Making, Empty, IsDamaged, Goto, StarterGoto, writerVars, startVars, Holding
<1>1. ASSUME NEW w \in Writer, Begin(w) \/ LockExists(w) \/ LockRefused(w) \/
    CheckLock(w) \/ WaitForLock(w) PROVE UserIsCopied'
  BY <1>1 DEF Begin, LockExists, LockRefused, CheckLock, WaitForLock
<1>2. ASSUME NEW w \in Writer, CreateLock(w) PROVE UserIsCopied'
  BY <1>2 DEF CreateLock
<1>3. ASSUME NEW w \in Writer, BreakLock(w) PROVE UserIsCopied'
  BY <1>3 DEF BreakLock
<1>4. ASSUME NEW w \in Writer, ReleaseLock(w) PROVE UserIsCopied'
  BY <1>4 DEF ReleaseLock, Forgets
<1>5. ASSUME NEW w \in Writer, Read(w) PROVE UserIsCopied'
  <2>1. CASE pc' = [pc EXCEPT ![w] = "leaving"] /\ UNCHANGED <<copy, found>>
    BY <1>5, <2>1 DEF Read
  <2>2. CASE /\ pc' = [pc EXCEPT ![w] = "opening"]
             /\ copy' = [copy EXCEPT ![w] = file.holds]
             /\ found' = [found EXCEPT ![w] = (file # Missing)]
    <3>1. found'[w] = (file # Missing) /\ copy'[w] = file.holds
      BY <2>2
    <3>2. \A v \in Writer \ {w} : /\ found'[v] = found[v] /\ copy'[v] = copy[v]
                                  /\ pc'[v] = pc[v]
      BY <2>2
    <3>3. UNCHANGED <<file, disk, mode, hasty, misplaced>> /\ ~IsDamaged(file)
      BY <1>5, <2>2 DEF Read
    <3>4. file.kind \in {"making", "empty"} => file.holds = {}
      OBVIOUS
    <3>5. file # Missing => file.kind \in {"making", "empty", "document"}
      BY <3>3
    <3>6. found'[w] => file.kind \in {"making", "empty", "document"}
      BY <3>1, <3>5, Zenon
    <3> QED
      BY <3>1, <3>2, <3>3, <3>4, <3>6
  <2> QED
    BY <1>5, <2>1, <2>2 DEF Read
<1>6. ASSUME NEW w \in Writer, OpenTemporary(w) \/ WriteTemporary(w) PROVE UserIsCopied'
  BY <1>6 DEF OpenTemporary, WriteTemporary, GiveUp
<1>7. ASSUME NEW w \in Writer, FlushTemporary(w) PROVE UserIsCopied'
  BY <1>7 DEF FlushTemporary, GiveUp
<1>8. ASSUME NEW w \in Writer, MoveIntoPlace(w) PROVE UserIsCopied'
  <2> SUFFICES ASSUME ~hasty', ~misplaced' PROVE UserIsCopied'
    OBVIOUS
  <2>1. ~hasty /\ ~misplaced /\ ~ReadEmpty(w) /\ Working(w)
    <3> DEFINE early == ReadEmpty(w)
    <3>1. hasty' = (hasty \/ early) /\ misplaced' = misplaced
      BY <1>8 DEF MoveIntoPlace
    <3>2. Working(w)
      BY <1>8 DEF MoveIntoPlace
    <3> HIDE DEF early
    <3>3. ~hasty /\ ~misplaced /\ ~early
      BY <3>1, Zenon
    <3> QED
      BY <3>2, <3>3 DEF early
  <2>2. User \in file.holds <=> User \in file'.holds
    BY <1>8, <2>1 DEF MoveIntoPlace
  <2>3. file'.kind = "document" /\ file'.flushed
    <3>1. temporary[w] = "flushed"
      BY <1>8 DEF MoveIntoPlace, Flushed
    <3> QED
      BY <1>8, <3>1 DEF MoveIntoPlace
  <2>4. UNCHANGED <<mode, disk, copy, found>>
    BY <1>8 DEF MoveIntoPlace
  <2>5. \A v \in Writer : Working(v)' => Working(v)
    BY <1>8 DEF MoveIntoPlace
  <2> QED
    BY <2>1, <2>2, <2>3, <2>4, <2>5
<1>9. ASSUME NEW w \in Writer, CreatedByAnother(w) \/ MoveFails(w) PROVE UserIsCopied'
  BY <1>9 DEF CreatedByAnother, MoveFails, GiveUp
<1>10. ASSUME NEW w \in Writer, Settle(w) PROVE UserIsCopied'
  BY <1>10 DEF Settle
<1>11. ASSUME NEW w \in Writer, Dies(w) PROVE UserIsCopied'
  BY <1>11 DEF Dies, Forgets
<1>12. CASE LockGrowsOld
  BY <1>12 DEF LockGrowsOld
<1>13. CASE Unlocked
  <2>1. UNCHANGED <<mode, disk, pc, copy, found, hasty, misplaced>> /\ User \notin file.holds
    BY <1>13 DEF Unlocked, MakerCreates, MakerWrites, MakerFails, UserRepairs, Foreign, Torn
  <2>2. mode = "setting"
    BY <1>13 DEF Unlocked
  <2>3. CASE MakerCreates
    BY <2>1, <2>2, <2>3 DEF MakerCreates
  <2>4. CASE MakerWrites
    BY <2>1, <2>2, <2>4 DEF MakerWrites
  <2>5. CASE MakerFails
    BY <2>1, <2>5 DEF MakerFails
  <2>6. CASE UserRepairs
    BY <2>1, <2>2, <2>6 DEF UserRepairs
  <2> QED
    BY <1>13, <2>3, <2>4, <2>5, <2>6 DEF Unlocked
<1>14. CASE PowerCut
  BY <1>14 DEF PowerCut
<1>15. ASSUME NEW s \in Starter, Starting(s) PROVE UserIsCopied'
  <2>1. CASE StartReads(s) \/ QuarantineEnds(s)
    BY <2>1 DEF StartReads, QuarantineEnds
  <2>2. CASE QuarantineSettles(s)
    BY <2>2 DEF QuarantineSettles
  <2>3. CASE Quarantines(s)
    <3> DEFINE sound == ~IsDamaged(file)
    <3>0. misplaced' = (misplaced \/ sound)
      BY <2>3 DEF Quarantines
    <3>1. ~misplaced' => ~misplaced /\ file.holds = {}
                         /\ file.kind \notin {"making", "empty", "document"}
      <4>1. ~sound => file.holds = {} /\ file.kind \notin {"making", "empty", "document"}
        OBVIOUS
      <4> HIDE DEF sound
      <4> QED
        BY <3>0, <4>1, Zenon
    <3>2. UNCHANGED <<mode, disk, pc, copy, found, hasty>> /\ file' = Missing
      BY <2>3 DEF Quarantines
    <3> QED
      BY <3>1, <3>2
  <2> QED
    BY <1>15, <2>1, <2>2, <2>3 DEF Starting
<1> QED
    BY <1>1, <1>2, <1>3, <1>4, <1>5, <1>6, <1>7, <1>8, <1>9, <1>10, <1>11, <1>12,
      <1>13, <1>14, <1>15 DEF Next, Acquiring, Updating

\* Only an update's rename, the configuration's makers, a quarantine and a power
\* cut change the file.
LEMMA FileStep ==
    ASSUME TypeOK, Next, file' # file
    PROVE  \/ \E w \in Writer : MoveIntoPlace(w)
           \/ \E s \in Starter : Quarantines(s) /\ mode = "setting"
           \/ Unlocked
           \/ PowerCut
<1>1. ASSUME NEW w \in Writer, Acquiring(w) \/ Updating(w) \/ Dies(w), ~MoveIntoPlace(w)
      PROVE  file' = file
  BY <1>1 DEF Acquiring, Updating, Begin, CreateLock, LockExists, LockRefused,
              CheckLock, BreakLock, WaitForLock, Read, OpenTemporary, WriteTemporary,
              FlushTemporary, CreatedByAnother, MoveFails, Settle, ReleaseLock, Dies,
              GiveUp
<1>2. ASSUME NEW s \in Starter, Starting(s), ~Quarantines(s)
      PROVE  file' = file
  BY <1>2 DEF Starting, StartReads, QuarantineEnds, QuarantineSettles
<1>3. CASE LockGrowsOld
  BY <1>3 DEF LockGrowsOld
<1>4. ASSUME NEW s \in Starter, Starting(s)
      PROVE  mode = "setting"
  BY <1>4 DEF Starting
<1> QED
  BY <1>1, <1>2, <1>3, <1>4 DEF Next

\* The file was seen to be foreign by nobody at work, and the user's part by all
\* but those who came too early.
LEMMA UnreadStep ==
    ASSUME TypeOK, Flushed, ForeignIsLeft, UserIsCopied, Next
    PROVE  /\ file = Foreign /\ file' # Foreign =>
                mode = "setting" /\ file' \in {Missing, Document({User}, FALSE)}
           /\ User \in file.holds \ file'.holds =>
                \/ hasty' \/ misplaced'
                \/ crashes' > crashes /\ ~(disk.flushed /\ User \in disk.holds)
<1> DEFINE Gone == file = Foreign /\ file' # Foreign
           MayGo == mode = "setting" /\ file' \in {Missing, Document({User}, FALSE)}
           Lost == User \in file.holds \ file'.holds
           Cut == crashes' > crashes /\ ~(disk.flushed /\ User \in disk.holds)
<1> USE WriterAssumption DEF TypeOK, Files, Kinds
<1>1. ASSUME NEW w \in Writer, MoveIntoPlace(w)
      PROVE  (Gone => MayGo) /\ (Lost => hasty' \/ misplaced' \/ Cut)
  <2>1. ~Gone
    BY <1>1 DEF MoveIntoPlace, ForeignIsLeft, Working
  <2>2. ASSUME Lost, ~hasty', ~misplaced' PROVE FALSE
    <3>0. hasty' = (hasty \/ ReadEmpty(w)) /\ misplaced' = misplaced
      BY <1>1 DEF MoveIntoPlace, startVars
    <3>1. ~hasty /\ ~misplaced /\ ~ReadEmpty(w) /\ User \notin copy[w]
      BY <1>1, <2>2, <3>0 DEF MoveIntoPlace, Document
    <3>2. MayReplace(w)
      BY <1>1, <2>2 DEF MoveIntoPlace, Missing
    <3>3. Working(w)
      BY <1>1 DEF MoveIntoPlace, Working
    <3> QED
      BY <2>2, <3>1, <3>2, <3>3 DEF UserIsCopied
  <2> QED
    BY <2>1, <2>2
<1>2. ASSUME NEW s \in Starter, Quarantines(s), mode = "setting"
      PROVE  (Gone => MayGo) /\ (Lost => hasty' \/ misplaced' \/ Cut)
  <2>1. file' = Missing /\ misplaced' = (misplaced \/ ~IsDamaged(file))
    BY <1>2 DEF Quarantines
  <2>2. Gone => MayGo
    BY <1>2, <2>1
  <2>3. ASSUME Lost PROVE misplaced'
    <3>1. ~IsDamaged(file)
      BY <2>3 DEF IsDamaged, Foreign, Torn
    <3> QED
      BY <2>1, <3>1
  <2> QED
    BY <2>2, <2>3
<1>3. CASE Unlocked
  BY <1>3 DEF Unlocked, MakerCreates, MakerWrites, MakerFails, UserRepairs, Missing, Making,
              Empty, Document, Foreign, IsDamaged
<1>4. CASE PowerCut
  <2>1. file' \in Remains(file) \cup Remains(disk) /\ misplaced' = misplaced
        /\ hasty' = hasty /\ crashes' > crashes
    BY <1>4, CrashAssumption DEF PowerCut
  <2>2. file.flushed /\ disk.flushed => file' \in {file, disk}
    <3> HIDE DEF Files
    <3> QED
      BY <2>1, RemainsKept DEF Flushed
  <2>3. ~Gone
    BY <2>2 DEF ForeignIsLeft, Foreign
  <2>4. ASSUME Lost, ~hasty', ~misplaced', ~Cut PROVE FALSE
    <3>1. disk.flushed /\ User \in disk.holds
      BY <2>1, <2>4
    <3>2. file.flushed /\ User \in file.holds
      BY <2>1, <2>4, <3>1 DEF UserIsCopied
    <3> QED
      BY <2>2, <2>4, <3>1, <3>2
  <2> QED
    BY <2>3, <2>4
<1>5. CASE file' = file
  BY <1>5
<1> QED
  BY <1>1, <1>2, <1>3, <1>4, <1>5, FileStep

-----------------------------------------------------------------------------
\* Whatever the writers, the starts of the daemon, the crashes and the editor do,
\* the lock names who holds it and the two copies of the file agree as the lemmas
\* above say.
THEOREM StoreInvariant == Spec => []IInv
<1>1. Init => IInv
  <2> SUFFICES ASSUME Init PROVE IInv
    OBVIOUS
  <2> USE WriterAssumption, CrashAssumption DEF Init, Document, Missing, Foreign
  <2>1. file \in Files /\ disk = file /\ Kept(file)
    <3>1. Missing \in Files /\ Foreign \in Files /\ Document({User}, TRUE) \in Files
      BY DEF Files, Kinds, Torn, Making, Empty
    <3>2. file = Missing \/ file = Foreign \/ file = Document({User}, TRUE)
      OBVIOUS
    <3>3. Kept(file)
      BY <3>2 DEF Kept
    <3> QED
      BY <3>1, <3>2, <3>3
  <2>2. TypeOK
    <3>1. found \in [Writer -> BOOLEAN] /\ again \in [Writer -> BOOLEAN]
      OBVIOUS
    <3>2. pc \in [Writer -> States] /\ copy \in [Writer -> SUBSET (Writer \cup {User})]
      BY DEF States
    <3>3. temporary \in [Writer -> {"none", "part", "full", "flushed"}]
      OBVIOUS
    <3>4. mode \in {"state", "setting"} /\ lock = None /\ saved = {} /\ robbed = FALSE
          /\ misplaced = FALSE /\ hasty = FALSE /\ crashes \in 0..MaxCrashes
          /\ starter \in [Starter -> {"idle", "judged", "moved", "ended"}]
      OBVIOUS
    <3>5. disk \in Files
      BY <2>1
    <3> HIDE DEF Init, Missing, Foreign, Document
    <3> QED
      BY <2>1, <3>1, <3>2, <3>3, <3>4, <3>5 DEF TypeOK
  <2>3. LockIsHeld
    BY DEF LockIsHeld, Holding
  <2>4. Flushed /\ SavedIsEverywhere
    BY <2>1 DEF Flushed, SavedIsEverywhere, Working
  <2>5. ForeignIsLeft /\ UserIsCopied
    <3>1. User \in file.holds => file.flushed
      OBVIOUS
    <3> QED
      BY <2>1, <3>1 DEF ForeignIsLeft, UserIsCopied, Working
  <2> QED
    BY <2>2, <2>3, <2>4, <2>5 DEF IInv
<1>2. IInv /\ [Next]_vars => IInv'
  <2> SUFFICES ASSUME IInv, [Next]_vars PROVE IInv'
    OBVIOUS
  <2>1. CASE Next
    BY <2>1, TypeStep, LockStep, FlushedStep, SavedStep, ForeignStep, UserStep DEF IInv
  <2>2. CASE UNCHANGED vars
    BY <2>2 DEF IInv, TypeOK, LockIsHeld, Kept, Flushed, SavedIsEverywhere,
                ForeignIsLeft, UserIsCopied, Working, MayReplace, ReadEmpty, vars, writerVars,
                startVars
  <2> QED
    BY <2>1, <2>2
<1> QED
  BY <1>1, <1>2, PTL DEF Spec

\* Whatever dies and whenever the power goes, no update leaves half a document, and
\* the file holds every update reported saved, unless a lock in use was removed or
\* a sound configuration moved aside (atomic_write under FileLock).
THEOREM UpdatesSurviveAlways == Spec => []UpdatesSurvive
<1>1. IInv => UpdatesSurvive
  BY DEF IInv, Kept, Flushed, SavedIsEverywhere, UpdatesSurvive
<1> QED
  BY <1>1, StoreInvariant, PTL

\* While no lock in use is removed, two writers are never both between taking
\* the lock and leaving it (FileLock); the run StoreStaleLock shows the removal.
THEOREM OneUpdaterUnlessRobbed == Spec => [](~robbed => OneUpdaterAtATime)
<1>1. IInv => (~robbed => OneUpdaterAtATime)
  BY DEF IInv, LockIsHeld, OneUpdaterAtATime
<1> QED
  BY <1>1, StoreInvariant, PTL

\* No update writes over what it could not read, and the user's part of the file
\* is in every later version, locks removed or not (set_setting's finalize_new,
\* read_state's refusal), except in the three cases of UnreadIsKept: an update that
\* read the configuration between create_new and write_all (ensure_default_config),
\* a configuration that load_recovering moved aside after it had been replaced, and
\* a power cut before its contents were flushed.
THEOREM UnreadIsKeptAlways == Spec => UnreadIsKept
<1>1. IInv /\ [Next]_vars =>
        [/\ file = Foreign /\ file' # Foreign =>
              mode = "setting" /\ file' \in {Missing, Document({User}, FALSE)}
         /\ User \in file.holds \ file'.holds =>
              \/ hasty' \/ misplaced'
              \/ crashes' > crashes /\ ~(disk.flushed /\ User \in disk.holds)]_vars
  BY UnreadStep DEF IInv
<1> QED
  BY <1>1, StoreInvariant, PTL DEF Spec, UnreadIsKept

-----------------------------------------------------------------------------
(* The tray: what passes between the threads, and how a step moves it.     *)

TrayModels == [paused : BOOLEAN, shown : [Settings -> BOOLEAN],
               session : {"Idle", "QueryReceived"}, icon : {"Present", "Degraded"}]

\* TrayEvents, effects, and what is posted or sent to the window.
Events ==
    [kind : {"Capture", "Exit"}, value : {""}]
    \cup [kind : {"Toggle"}, value : Settings]
    \cup [kind : {"PausedChanged"}, value : BOOLEAN]
Tasks ==
    [kind : {"AddIcon", "ModifyTooltip", "DrainNotifications", "Balloon", "CreateBlock",
             "DestroyBlock", "WaitForSessionDrain", "Waiting", "PostQuit"}, value : {""}]
    \cup [kind : {"SendEvent"}, value : Events]
    \cup [kind : {"ShowMenu"}, value : TrayModels]
Posts ==
    [kind : {"ContextMenu", "Capture", "Pause", "Exit", "Notify", "Quit"}, value : {""}]
    \cup [kind : {"Toggle"}, value : Settings]
    \cup [kind : {"Set"}, value : Settings \X BOOLEAN]

Ghosts == [choices : Nat, queried : BOOLEAN, restarted : BOOLEAN,
           unposted : SUBSET (Settings \cup {"notes"}), pauseLost : BOOLEAN, late : BOOLEAN]

TrayTyped ==
    /\ model \in TrayModels /\ pending \in Seq(Tasks)
    /\ window \in {"open", "closing", "destroyed"} /\ shellIcon \in BOOLEAN
InboxTyped == inbox \in Seq(Posts)
ChannelsTyped ==
    /\ events \in Seq(Events) /\ Len(events) <= EventCapacity
    /\ notes \in 0..NoteCapacity
DaemonTyped ==
    /\ actual \in [Settings -> BOOLEAN]
    /\ paused \in BOOLEAN /\ stopRequested \in BOOLEAN
CommandsTyped ==
    /\ commands \in Seq({"Trigger", "Shutdown"}) /\ Len(commands) <= CommandCapacity
GhostTyped == ghost \in Ghosts

TrayShapes == /\ TrayTyped /\ InboxTyped /\ ChannelsTyped /\ DaemonTyped
              /\ CommandsTyped /\ GhostTyped

\* What comes first in a line, and what follows it.
LEMMA PopFacts ==
    ASSUME NEW S, NEW s \in Seq(S), s # <<>>
    PROVE  /\ Head(s) = s[1] /\ Head(s) \in S /\ 1 \in 1..Len(s)
           /\ Tail(s) \in Seq(S) /\ Len(Tail(s)) = Len(s) - 1 /\ Len(s) \in Nat
           /\ \A i \in 1..Len(Tail(s)) : i + 1 \in 1..Len(s) /\ Tail(s)[i] = s[i + 1]
           /\ \A i \in 1..Len(s) : i = 1 \/ (i - 1 \in 1..Len(Tail(s)) /\ Tail(s)[i - 1] = s[i])
OBVIOUS

\* What joins a line.
LEMMA PushFacts ==
    ASSUME NEW S, NEW s \in Seq(S), NEW e \in S
    PROVE  /\ Append(s, e) \in Seq(S) /\ Len(Append(s, e)) = Len(s) + 1 /\ Len(s) \in Nat
           /\ \A i \in 1..Len(s) : i \in 1..Len(Append(s, e)) /\ Append(s, e)[i] = s[i]
           /\ Len(s) + 1 \in 1..Len(Append(s, e)) /\ Append(s, e)[Len(s) + 1] = e
           /\ \A i \in 1..Len(Append(s, e)) : i \in 1..Len(s) \/ i = Len(s) + 1
OBVIOUS

\* One line before another.
LEMMA JoinFacts ==
    ASSUME NEW S, NEW a \in Seq(S), NEW s \in Seq(S)
    PROVE  /\ a \o s \in Seq(S) /\ Len(a \o s) = Len(a) + Len(s)
           /\ Len(a) \in Nat /\ Len(s) \in Nat
           /\ \A i \in 1..Len(a) : i \in 1..Len(a \o s) /\ (a \o s)[i] = a[i]
           /\ \A i \in 1..Len(s) : /\ Len(a) + i \in 1..Len(a \o s)
                                   /\ (a \o s)[Len(a) + i] = s[i]
           /\ \A i \in 1..Len(a \o s) :
                 \/ i \in 1..Len(a) /\ (a \o s)[i] = a[i]
                 \/ i - Len(a) \in 1..Len(s) /\ (a \o s)[i] = s[i - Len(a)]
OBVIOUS

\* What comes first is replaced.
LEMMA ReplaceFacts ==
    ASSUME NEW S, NEW s \in Seq(S), s # <<>>, NEW fx \in Seq(S), Len(fx) \in {1}
    PROVE  /\ fx \o Tail(s) \in Seq(S) /\ Len(fx \o Tail(s)) = Len(s)
           /\ 1 \in 1..Len(s) /\ (fx \o Tail(s))[1] = fx[1]
           /\ \A i \in 1..Len(s) : i # 1 => (fx \o Tail(s))[i] = s[i]
<1>1. /\ Tail(s) \in Seq(S) /\ Len(Tail(s)) = Len(s) - 1 /\ Len(s) \in Nat
      /\ 1 \in 1..Len(s)
      /\ \A i \in 1..Len(s) : i = 1 \/ (i - 1 \in 1..Len(Tail(s)) /\ Tail(s)[i - 1] = s[i])
  BY PopFacts
<1> DEFINE n == Len(fx)
           rest == Tail(s)
           all == fx \o rest
<1>2. n = 1
  OBVIOUS
<1>3. rest \in Seq(S)
  BY <1>1
<1>4. /\ all \in Seq(S) /\ Len(all) = n + Len(rest)
      /\ \A i \in 1..n : all[i] = fx[i]
      /\ \A i \in 1..Len(rest) : all[n + i] = rest[i]
  <2> HIDE DEF rest
  <2> QED
    BY <1>3, JoinFacts
<1>5. /\ Len(rest) = Len(s) - 1 /\ Len(s) \in Nat
      /\ \A i \in 1..Len(s) : i = 1 \/ (i - 1 \in 1..Len(rest) /\ rest[i - 1] = s[i])
  BY <1>1
<1>6. /\ Len(all) = Len(s) /\ all[1] = fx[1]
      /\ \A i \in 1..Len(s) : i # 1 => all[i] = s[i]
  <2> HIDE DEF all, n, rest
  <2>1. Len(all) = Len(s) /\ all[1] = fx[1]
    BY <1>2, <1>4, <1>5
  <2>2. ASSUME NEW i \in 1..Len(s), i # 1 PROVE all[i] = s[i]
    <3>1. i - 1 \in 1..Len(rest) /\ rest[i - 1] = s[i]
      BY <1>5, <2>2
    <3>2. all[n + (i - 1)] = rest[i - 1]
      BY <1>4, <3>1
    <3>3. n + (i - 1) = i
      BY <1>2, <2>2
    <3> QED
      BY <3>1, <3>2, <3>3
  <2> QED
    BY <2>1, <2>2
<1> QED
  BY <1>1, <1>4, <1>6

\* No effect.
LEMMA NoneFacts == ASSUME NEW S PROVE <<>> \in Seq(S) /\ Len(<<>>) = 0
OBVIOUS

\* One effect.
LEMMA OneFacts ==
    ASSUME NEW S, NEW e \in S
    PROVE  <<e>> \in Seq(S) /\ Len(<<e>>) = 1 /\ <<e>>[1] = e
OBVIOUS

\* Two effects.
LEMMA TwoFacts ==
    ASSUME NEW S, NEW e \in S, NEW f \in S
    PROVE  /\ <<e, f>> \in Seq(S) /\ Len(<<e, f>>) = 2
           /\ <<e, f>>[1] = e /\ <<e, f>>[2] = f
OBVIOUS

\* Effects that are handed out in two parts.
LEMMA PartFacts ==
    ASSUME NEW S, NEW e \in S, NEW f \in S
    PROVE  /\ <<>> \o <<e>> = <<e>> /\ <<e>> \o <<>> = <<e>>
           /\ <<e>> \o <<f>> = <<e, f>> /\ <<>> \o <<>> = <<>>
<1>1. <<>> \o <<e>> = <<e>>
  BY <<>> \in Seq(S), <<e>> \in Seq(S)
<1>2. <<e>> \o <<>> = <<e>>
  BY <<>> \in Seq(S), <<e>> \in Seq(S)
<1>3. <<e>> \o <<f>> = <<e, f>>
  <2> DEFINE c == <<e>> \o <<f>>
             d == <<e, f>>
  <2>1. c \in Seq(S) /\ Len(c) = 2 /\ c[1] = e /\ c[2] = f
    BY OneFacts, JoinFacts, <<e>> \in Seq(S), <<f>> \in Seq(S)
  <2>2. d \in Seq(S) /\ Len(d) = 2 /\ d[1] = e /\ d[2] = f
    BY TwoFacts
  <2> HIDE DEF c, d
  <2>3. \A i \in 1..Len(c) : c[i] = d[i]
    BY <2>1, <2>2
  <2>4. c = d
    BY <2>1, <2>2, <2>3, SeqEqual
  <2> QED
    BY <2>4 DEF c, d
<1>4. <<>> \o <<>> = <<>>
  BY <<>> \in Seq(S)
<1> QED
  BY <1>1, <1>2, <1>3, <1>4

IsPause(effect) == effect.kind = "SendEvent" /\ effect.value.kind = "PausedChanged"
Blocking == {"CreateBlock", "DestroyBlock"}

\* What a posted message does: the icon and the session stay, nothing blocks.
Posting(m, msg, t) ==
    /\ t[1] \in TrayModels /\ t[2] \in Seq(Tasks)
    /\ t[1].icon = m.icon /\ t[1].session = m.session
    /\ t[1].shown = IF msg.kind = "Set" THEN [m.shown EXCEPT ![msg.value[1]] = msg.value[2]]
                    ELSE m.shown
    /\ \A i \in 1..Len(t[2]) :
          /\ t[2][i].kind \notin Blocking
          /\ t[2][i].kind = "ShowMenu" => msg.kind = "ContextMenu" /\ i = Len(t[2])
          /\ IsPause(t[2][i]) => t[2][i].value.value = t[1].paused
    /\ t[1].paused # m.paused => \E i \in 1..Len(t[2]) : IsPause(t[2][i])
    /\ msg.kind = "Notify" /\ m.icon = "Present" =>
          \E i \in 1..Len(t[2]) : t[2][i].kind = "DrainNotifications"

\* A posted message that hands out nothing.
LEMMA PostsNothing ==
    ASSUME NEW m \in TrayModels, NEW msg, NEW t, t[1] = m, t[2] = <<>>, msg.kind # "Set",
           msg.kind = "Notify" => m.icon # "Present"
    PROVE  Posting(m, msg, t)
<1>1. t[2] \in Seq(Tasks) /\ Len(t[2]) = 0
  BY NoneFacts
<1> QED
  BY <1>1 DEF Posting

\* A posted message that hands out one effect, no pause.
LEMMA PostsOne ==
    ASSUME NEW m \in TrayModels, NEW msg, NEW t, NEW e \in Tasks, t[1] = m, t[2] = <<e>>,
           msg.kind # "Set", e.kind \notin Blocking, ~IsPause(e),
           e.kind = "ShowMenu" => msg.kind = "ContextMenu",
           msg.kind = "Notify" => e.kind = "DrainNotifications"
    PROVE  Posting(m, msg, t)
<1>1. t[2] \in Seq(Tasks) /\ Len(t[2]) = 1 /\ t[2][1] = e
  BY OneFacts
<1> QED
  BY <1>1 DEF Posting

\* An event on its way to the daemon.
LEMMA SendIs ==
    ASSUME NEW kind, NEW v, Message(kind, v) \in Events
    PROVE  LET e == Effect("SendEvent", Message(kind, v)) IN
           /\ e \in Tasks /\ e.kind = "SendEvent" /\ e.value = Message(kind, v)
           /\ e.value.kind = kind /\ e.value.value = v
BY DEF Effect, Tasks, Message

\* A person turns the pause: the daemon is told, and the icon if there is one.
LEMMA PauseDoes ==
    ASSUME NEW m \in TrayModels, NEW msg, msg.kind = "Pause"
    PROVE  Posting(m, msg, PauseToggled(m))
<1> DEFINE t == PauseToggled(m)
           flipped == ~m.paused
           n == [m EXCEPT !.paused = flipped]
           tip == Effect("ModifyTooltip", "")
           told == Effect("SendEvent", Message("PausedChanged", n.paused))
<1>1. t[1] = n /\ t[2] = (IF m.icon = "Present" THEN <<tip>> ELSE <<>>) \o <<told>>
  BY DEF PauseToggled, Send
<1>2. flipped \in BOOLEAN
  OBVIOUS
<1> HIDE DEF flipped
<1>3. /\ n \in TrayModels /\ n.icon = m.icon /\ n.session = m.session /\ n.shown = m.shown
      /\ n.paused \in BOOLEAN
  BY <1>2 DEF TrayModels
<1> HIDE DEF n
<1>4. Message("PausedChanged", n.paused) \in Events
  BY <1>3 DEF Message, Events
<1>5. /\ told \in Tasks /\ told.kind = "SendEvent" /\ told.value.kind = "PausedChanged"
      /\ told.value.value = n.paused
  BY <1>4, SendIs
<1>6. tip \in Tasks /\ tip.kind = "ModifyTooltip"
  BY DEF Effect, Tasks
<1> SUFFICES Posting(m, msg, t)
  OBVIOUS
<1> HIDE DEF t, told, tip
<1>7. CASE m.icon = "Present"
  <2>1. t[2] = <<tip, told>>
    BY <1>1, <1>5, <1>6, <1>7, PartFacts
  <2>2. t[2] \in Seq(Tasks) /\ Len(t[2]) = 2 /\ t[2][1] = tip /\ t[2][2] = told
    BY <2>1, <1>5, <1>6, TwoFacts
  <2>3. IsPause(t[2][2]) /\ 2 \in 1..Len(t[2])
    BY <1>5, <2>2 DEF IsPause
  <2>4. \A i \in 1..Len(t[2]) : i = 1 \/ i = 2
    BY <2>2
  <2>5. \A i \in 1..Len(t[2]) :
          /\ t[2][i].kind \notin Blocking
          /\ t[2][i].kind # "ShowMenu"
          /\ IsPause(t[2][i]) => t[2][i].value.value = n.paused
    BY <1>5, <1>6, <2>2, <2>4 DEF Blocking, IsPause
  <2> QED
    BY <1>1, <1>3, <2>2, <2>3, <2>5 DEF Posting
<1>8. CASE m.icon # "Present"
  <2>1. t[2] = <<told>>
    BY <1>1, <1>5, <1>8, PartFacts
  <2>2. t[2] \in Seq(Tasks) /\ Len(t[2]) = 1 /\ t[2][1] = told
    BY <2>1, <1>5, OneFacts
  <2>3. IsPause(t[2][1]) /\ 1 \in 1..Len(t[2])
    BY <1>5, <2>2 DEF IsPause
  <2>5. \A i \in 1..Len(t[2]) :
          /\ t[2][i].kind \notin Blocking
          /\ t[2][i].kind # "ShowMenu"
          /\ IsPause(t[2][i]) => t[2][i].value.value = n.paused
    BY <1>5, <2>2 DEF Blocking, IsPause
  <2> QED
    BY <1>1, <1>3, <2>2, <2>3, <2>5 DEF Posting
<1> QED
  BY <1>7, <1>8

\* What the transition of a posted message does.
LEMMA PostedDoes ==
    ASSUME NEW m \in TrayModels, NEW msg \in Posts, msg.kind # "Quit"
    PROVE  Posting(m, msg, transition(m, msg))
<1> DEFINE t == transition(m, msg)
           capture == Effect("SendEvent", Message("Capture", ""))
           exit == Effect("SendEvent", Message("Exit", ""))
           toggle == Effect("SendEvent", Message("Toggle", msg.value))
           show == Effect("ShowMenu", m)
           drain == Effect("DrainNotifications", "")
<1>1. CASE msg.kind = "Capture"
  <2>1. t[1] = m /\ t[2] = IF m.paused THEN <<>> ELSE <<capture>>
    BY <1>1 DEF transition, Send
  <2>2. capture \in Tasks /\ capture.kind = "SendEvent" /\ capture.value.kind = "Capture"
    BY SendIs DEF Message, Events
  <2> SUFFICES Posting(m, msg, t)
    OBVIOUS
  <2> HIDE DEF t, capture
  <2> QED
    BY <1>1, <2>1, <2>2, PostsNothing, PostsOne DEF Blocking, IsPause
<1>2. CASE msg.kind = "Exit"
  <2>1. t[1] = m /\ t[2] = <<exit>>
    BY <1>2 DEF transition, Send
  <2>2. exit \in Tasks /\ exit.kind = "SendEvent" /\ exit.value.kind = "Exit"
    BY SendIs DEF Message, Events
  <2> SUFFICES Posting(m, msg, t)
    OBVIOUS
  <2> HIDE DEF t, exit
  <2> QED
    BY <1>2, <2>1, <2>2, PostsOne DEF Blocking, IsPause
<1>3. CASE msg.kind = "Toggle"
  <2>1. t[1] = m /\ t[2] = <<toggle>>
    BY <1>3 DEF transition, SettingToggled, Send
  <2>2. Message("Toggle", msg.value) \in Events
    BY <1>3 DEF Posts, Message, Events
  <2>3. toggle \in Tasks /\ toggle.kind = "SendEvent" /\ toggle.value.kind = "Toggle"
    BY <2>2, SendIs
  <2> SUFFICES Posting(m, msg, t)
    OBVIOUS
  <2> HIDE DEF t, toggle
  <2> QED
    BY <1>3, <2>1, <2>3, PostsOne DEF Blocking, IsPause
<1>4. CASE msg.kind = "ContextMenu"
  <2>1. t[1] = m /\ t[2] = <<show>>
    BY <1>4 DEF transition
  <2>2. show \in Tasks /\ show.kind = "ShowMenu"
    BY DEF Effect, Tasks
  <2> SUFFICES Posting(m, msg, t)
    OBVIOUS
  <2> HIDE DEF t, show
  <2> QED
    BY <1>4, <2>1, <2>2, PostsOne DEF Blocking, IsPause
<1>5. CASE msg.kind = "Notify"
  <2>1. t[1] = m /\ t[2] = IF m.icon = "Present" THEN <<drain>> ELSE <<>>
    BY <1>5 DEF transition, NotificationsPosted
  <2>2. drain \in Tasks /\ drain.kind = "DrainNotifications"
    BY DEF Effect, Tasks
  <2> SUFFICES Posting(m, msg, t)
    OBVIOUS
  <2> HIDE DEF t, drain
  <2> QED
    BY <1>5, <2>1, <2>2, PostsNothing, PostsOne DEF Blocking, IsPause
<1>6. CASE msg.kind = "Set"
  <2> DEFINE n == [m EXCEPT !.shown[msg.value[1]] = msg.value[2]]
  <2>1. t[1] = n /\ t[2] = <<>>
    BY <1>6 DEF transition
  <2>2. msg.value[1] \in Settings /\ msg.value[2] \in BOOLEAN
    BY <1>6 DEF Posts
  <2>3. /\ n \in TrayModels /\ n.icon = m.icon /\ n.session = m.session /\ n.paused = m.paused
        /\ n.shown = [m.shown EXCEPT ![msg.value[1]] = msg.value[2]]
    BY <2>2 DEF TrayModels
  <2>4. t[2] \in Seq(Tasks) /\ Len(t[2]) = 0
    BY <2>1, NoneFacts
  <2> SUFFICES Posting(m, msg, t)
    OBVIOUS
  <2> HIDE DEF t, n
  <2> QED
    BY <1>6, <2>1, <2>3, <2>4 DEF Posting
<1>7. CASE msg.kind = "Pause"
  <2>1. t = PauseToggled(m)
    BY <1>7 DEF transition
  <2> QED
    BY <1>7, <2>1, PauseDoes
<1> QED
  BY <1>1, <1>2, <1>3, <1>4, <1>5, <1>6, <1>7 DEF Posts

\* What a message that is sent, or a call that returns, does: it leaves the pause and the
\* settings, and an icon that comes back looks for what was withheld.
Quiet(m, t) ==
    /\ t[1] \in TrayModels /\ t[2] \in Seq(Tasks)
    /\ t[1].paused = m.paused /\ t[1].shown = m.shown
    /\ \A i \in 1..Len(t[2]) : t[2][i].kind \notin {"ShowMenu", "SendEvent"}
    /\ t[1].icon = "Present" /\ m.icon # "Present" =>
          \E i \in 1..Len(t[2]) : t[2][i].kind = "DrainNotifications"

\* Where the calls that settle a block may stand, and what they owe.
Waits == {"WaitForSessionDrain", "Waiting"}
Settles(b, session, todo) ==
    /\ \A i \in 1..Len(todo) :
          /\ todo[i].kind = "CreateBlock" => i = 1
          /\ todo[i].kind = "DestroyBlock" => i = 1 \/ (i = 2 /\ todo[1].kind \in Waits)
    /\ (\E i \in 1..Len(todo) : todo[i].kind = "CreateBlock")
          => session = "QueryReceived" /\ b = 0
    /\ (\E i \in 1..Len(todo) : todo[i].kind = "DestroyBlock") => session = "Idle" /\ b = 1
    /\ (\A i \in 1..Len(todo) : todo[i].kind \notin Blocking)
          => b = IF session = "Idle" THEN 0 ELSE 1

\* The blocks a session has when no call is owed.
Square(b, session) == b = IF session = "Idle" THEN 0 ELSE 1

\* A step that hands out nothing.
LEMMA HandsNothing ==
    ASSUME NEW m \in TrayModels, NEW t, NEW b, t[1] \in TrayModels, t[2] = <<>>,
           t[1].paused = m.paused, t[1].shown = m.shown, Square(b, t[1].session),
           t[1].icon = m.icon \/ t[1].icon = "Degraded"
    PROVE  Quiet(m, t) /\ Settles(b, t[1].session, t[2])
<1>1. t[2] \in Seq(Tasks) /\ Len(t[2]) = 0
  BY NoneFacts
<1>2. \A i \in 1..Len(t[2]) : FALSE
  BY <1>1
<1> QED
  BY <1>1, <1>2 DEF Quiet, Settles, Square

\* A step that hands out one effect.
LEMMA HandsOne ==
    ASSUME NEW m \in TrayModels, NEW t, NEW b, NEW e \in Tasks, t[1] \in TrayModels,
           t[2] = <<e>>, t[1].paused = m.paused, t[1].shown = m.shown,
           t[1].icon = m.icon \/ e.kind = "DrainNotifications",
           e.kind \notin {"ShowMenu", "SendEvent"},
           \/ e.kind \notin Blocking /\ Square(b, t[1].session)
           \/ e.kind = "CreateBlock" /\ t[1].session = "QueryReceived" /\ b = 0
           \/ e.kind = "DestroyBlock" /\ t[1].session = "Idle" /\ b = 1
    PROVE  Quiet(m, t) /\ Settles(b, t[1].session, t[2])
<1>1. t[2] \in Seq(Tasks) /\ Len(t[2]) = 1 /\ t[2][1] = e
  BY OneFacts
<1>2. 1 \in 1..Len(t[2]) /\ \A i \in 1..Len(t[2]) : i = 1
  BY <1>1
<1>3. Quiet(m, t)
  BY <1>1, <1>2 DEF Quiet
<1>4. Settles(b, t[1].session, t[2])
  BY <1>1, <1>2 DEF Settles, Square, Blocking
<1> QED
  BY <1>3, <1>4

\* A step that hands out two effects, the second of which may be a call that settles.
LEMMA HandsTwo ==
    ASSUME NEW m \in TrayModels, NEW t, NEW b, NEW e \in Tasks, NEW f \in Tasks,
           t[1] \in TrayModels, t[2] = <<e, f>>, t[1].paused = m.paused,
           t[1].shown = m.shown, t[1].icon = m.icon, t[1].session = "Idle", b = 1,
           \/ e.kind \in Waits /\ f.kind = "DestroyBlock"
           \/ e.kind = "DestroyBlock" /\ f.kind = "PostQuit"
    PROVE  Quiet(m, t) /\ Settles(b, t[1].session, t[2])
<1>1. t[2] \in Seq(Tasks) /\ Len(t[2]) = 2 /\ t[2][1] = e /\ t[2][2] = f
  BY TwoFacts
<1>2. 1 \in 1..Len(t[2]) /\ 2 \in 1..Len(t[2]) /\ \A i \in 1..Len(t[2]) : i = 1 \/ i = 2
  BY <1>1
<1>3. Quiet(m, t)
  BY <1>1, <1>2 DEF Quiet, Waits
<1>4. Settles(b, t[1].session, t[2])
  BY <1>1, <1>2 DEF Settles, Blocking, Waits
<1> QED
  BY <1>3, <1>4

\* The effects without a value, and the models the session's end leaves.
LEMMA Makes ==
    /\ \A kind \in {"AddIcon", "DrainNotifications", "CreateBlock", "DestroyBlock", "Balloon",
                    "WaitForSessionDrain", "Waiting", "PostQuit"} :
          Effect(kind, "") \in Tasks /\ Effect(kind, "").kind = kind
    /\ \A m \in TrayModels, s \in {"Idle", "QueryReceived"} :
          LET n == [m EXCEPT !.session = s] IN
          /\ n \in TrayModels /\ n.paused = m.paused /\ n.shown = m.shown
          /\ n.icon = m.icon /\ n.session = s
    /\ \A m \in TrayModels, s \in {"Present", "Degraded"} :
          LET n == [m EXCEPT !.icon = s] IN
          /\ n \in TrayModels /\ n.paused = m.paused /\ n.shown = m.shown
          /\ n.icon = s /\ n.session = m.session
<1>1. \A kind \in {"AddIcon", "DrainNotifications", "CreateBlock", "DestroyBlock", "Balloon",
                   "WaitForSessionDrain", "Waiting", "PostQuit"} :
          Effect(kind, "") \in Tasks /\ Effect(kind, "").kind = kind
  BY DEF Effect, Tasks
<1>2. \A m \in TrayModels, s \in {"Idle", "QueryReceived"} :
          LET n == [m EXCEPT !.session = s] IN
          /\ n \in TrayModels /\ n.paused = m.paused /\ n.shown = m.shown
          /\ n.icon = m.icon /\ n.session = s
  BY DEF TrayModels
<1>3. \A m \in TrayModels, s \in {"Present", "Degraded"} :
          LET n == [m EXCEPT !.icon = s] IN
          /\ n \in TrayModels /\ n.paused = m.paused /\ n.shown = m.shown
          /\ n.icon = s /\ n.session = m.session
  BY DEF TrayModels
<1> QED
  BY <1>1, <1>2, <1>3

\* A shell that restarts.
LEMMA CreatedDoes ==
    ASSUME NEW m \in TrayModels, NEW b, Square(b, m.session)
    PROVE  LET t == transition(m, Message("TaskbarCreated", "")) IN
           Quiet(m, t) /\ Settles(b, t[1].session, t[2])
<1> DEFINE t == transition(m, Message("TaskbarCreated", ""))
           e == Effect("AddIcon", "")
<1>1. t[1] = m /\ t[2] = <<e>>
  BY DEF transition, Message
<1>2. e \in Tasks /\ e.kind = "AddIcon"
  BY Makes
<1> SUFFICES Quiet(m, t) /\ Settles(b, t[1].session, t[2])
  OBVIOUS
<1> HIDE DEF t, e
<1> QED
  BY <1>1, <1>2, HandsOne DEF Blocking

\* A query takes a block, once.
LEMMA QueryDoes ==
    ASSUME NEW m \in TrayModels, NEW b, Square(b, m.session)
    PROVE  LET t == transition(m, Message("QueryEndSession", "")) IN
           Quiet(m, t) /\ Settles(b, t[1].session, t[2])
<1> DEFINE t == transition(m, Message("QueryEndSession", ""))
           e == Effect("CreateBlock", "")
           n == [m EXCEPT !.session = "QueryReceived"]
           q == QueryEndSession(m)
<1>1. t = q
  BY DEF transition, Message
<1>2. e \in Tasks /\ e.kind = "CreateBlock"
  BY Makes
<1>3. /\ n \in TrayModels /\ n.paused = m.paused /\ n.shown = m.shown
      /\ n.icon = m.icon /\ n.session = "QueryReceived"
  BY Makes
<1>8. m.session = "Idle" => q[1] = n /\ q[2] = <<e>>
  BY DEF QueryEndSession
<1>9. m.session # "Idle" => q[1] = m /\ q[2] = <<>>
  BY DEF QueryEndSession
<1> SUFFICES Quiet(m, t) /\ Settles(b, t[1].session, t[2])
  OBVIOUS
<1> HIDE DEF t, e, n, q
<1>4. m.session = "Idle" => t[1] = n /\ t[2] = <<e>>
  BY <1>1, <1>8
<1>5. m.session # "Idle" => t[1] = m /\ t[2] = <<>>
  BY <1>1, <1>9
<1>6. CASE m.session = "Idle"
  BY <1>2, <1>3, <1>4, <1>6, HandsOne DEF Square
<1>7. CASE m.session # "Idle"
  BY <1>5, <1>7, HandsNothing
<1> QED
  BY <1>6, <1>7

\* The session ends, or goes on: the block is settled, after the daemon's drain if it ends.
LEMMA EndDoes ==
    ASSUME NEW m \in TrayModels, NEW b, Square(b, m.session), NEW committed \in BOOLEAN
    PROVE  LET t == transition(m, Message("EndSession", committed)) IN
           Quiet(m, t) /\ Settles(b, t[1].session, t[2])
<1> DEFINE t == transition(m, Message("EndSession", committed))
           wait == Effect("WaitForSessionDrain", "")
           free == Effect("DestroyBlock", "")
           n == [m EXCEPT !.session = "Idle"]
           q == EndSession(m, committed)
<1>1. t = q
  BY DEF transition, Message
<1>2. /\ wait \in Tasks /\ wait.kind = "WaitForSessionDrain"
      /\ free \in Tasks /\ free.kind = "DestroyBlock"
  BY Makes
<1>3. /\ n \in TrayModels /\ n.paused = m.paused /\ n.shown = m.shown
      /\ n.icon = m.icon /\ n.session = "Idle"
  BY Makes
<1> DEFINE both == (IF committed THEN <<wait>> ELSE <<>>)
                   \o (IF m.session = "QueryReceived" THEN <<free>> ELSE <<>>)
<1>10. q[1] = n /\ q[2] = both
  BY DEF EndSession, OwedBlock
<1>5. m.session \in {"Idle", "QueryReceived"}
  BY DEF TrayModels
<1> SUFFICES Quiet(m, t) /\ Settles(b, t[1].session, t[2])
  OBVIOUS
<1> HIDE DEF t, wait, free, n, q
<1>4. t[1] = n /\ t[2] = both
  BY <1>1, <1>10
<1>6. CASE committed /\ m.session = "QueryReceived"
  <2>1. t[2] = <<wait, free>>
    BY <1>2, <1>4, <1>6, PartFacts
  <2> QED
    BY <1>2, <1>3, <1>4, <1>6, <2>1, HandsTwo DEF Square, Waits
<1>7. CASE committed /\ m.session = "Idle"
  <2>1. t[2] = <<wait>>
    BY <1>2, <1>4, <1>7, PartFacts
  <2> QED
    BY <1>2, <1>3, <1>4, <1>7, <2>1, HandsOne DEF Square, Blocking
<1>8. CASE ~committed /\ m.session = "QueryReceived"
  <2>1. t[2] = <<free>>
    BY <1>2, <1>4, <1>8, PartFacts
  <2> QED
    BY <1>2, <1>3, <1>4, <1>8, <2>1, HandsOne DEF Square
<1>9. CASE ~committed /\ m.session = "Idle"
  <2>1. t[2] = <<>>
    BY <1>2, <1>4, <1>9, PartFacts
  <2> QED
    BY <1>3, <1>4, <1>9, <2>1, HandsNothing DEF Square
<1> QED
  BY <1>5, <1>6, <1>7, <1>8, <1>9

\* A window that dies settles the block before it quits.
LEMMA DestroyedDoes ==
    ASSUME NEW m \in TrayModels, NEW b, Square(b, m.session)
    PROVE  LET t == transition(m, Message("Destroyed", "")) IN
           /\ Quiet(m, t) /\ Settles(b, t[1].session, t[2])
           /\ t[1].session = "Idle"
           /\ \A i \in 1..Len(t[2]) : t[2][i].kind \in {"DestroyBlock", "PostQuit"}
<1> DEFINE t == transition(m, Message("Destroyed", ""))
           free == Effect("DestroyBlock", "")
           quit == Effect("PostQuit", "")
           n == [m EXCEPT !.session = "Idle"]
           q == Destroyed(m)
<1>1. t = q
  BY DEF transition, Message
<1>2. /\ quit \in Tasks /\ quit.kind = "PostQuit"
      /\ free \in Tasks /\ free.kind = "DestroyBlock"
  BY Makes
<1>3. /\ n \in TrayModels /\ n.paused = m.paused /\ n.shown = m.shown
      /\ n.icon = m.icon /\ n.session = "Idle"
  BY Makes
<1> DEFINE both == (IF m.session = "QueryReceived" THEN <<free>> ELSE <<>>) \o <<quit>>
<1>10. q[1] = n /\ q[2] = both
  BY DEF Destroyed, OwedBlock
<1>5. m.session \in {"Idle", "QueryReceived"}
  BY DEF TrayModels
<1> SUFFICES /\ Quiet(m, t) /\ Settles(b, t[1].session, t[2])
             /\ t[1].session = "Idle"
             /\ \A i \in 1..Len(t[2]) : t[2][i].kind \in {"DestroyBlock", "PostQuit"}
  OBVIOUS
<1> HIDE DEF t, free, quit, n, q
<1>4. t[1] = n /\ t[2] = both
  BY <1>1, <1>10
<1>6. CASE m.session = "QueryReceived"
  <2>1. t[2] = <<free, quit>>
    BY <1>2, <1>4, <1>6, PartFacts
  <2>2. \A i \in 1..Len(t[2]) : t[2][i].kind \in {"DestroyBlock", "PostQuit"}
    BY <1>2, <2>1, TwoFacts
  <2> QED
    BY <1>2, <1>3, <1>4, <1>6, <2>1, <2>2, HandsTwo DEF Square
<1>7. CASE m.session = "Idle"
  <2>1. t[2] = <<quit>>
    BY <1>2, <1>4, <1>7, PartFacts
  <2>2. \A i \in 1..Len(t[2]) : t[2][i].kind \in {"DestroyBlock", "PostQuit"}
    BY <1>2, <2>1, OneFacts
  <2> QED
    BY <1>2, <1>3, <1>4, <1>7, <2>1, <2>2, HandsOne DEF Square, Blocking
<1> QED
  BY <1>5, <1>6, <1>7

\* A call that adds the icon comes back.
LEMMA IconDoes ==
    ASSUME NEW m \in TrayModels, NEW b, Square(b, m.session), NEW restored \in BOOLEAN
    PROVE  LET t == IconAddCompleted(m, restored) IN
           Quiet(m, t) /\ Settles(b, t[1].session, t[2])
<1> DEFINE t == IconAddCompleted(m, restored)
           e == Effect("DrainNotifications", "")
           n == [m EXCEPT !.icon = "Present"]
           d == [m EXCEPT !.icon = "Degraded"]
<1>1. e \in Tasks /\ e.kind = "DrainNotifications"
  BY Makes
<1>2. /\ n \in TrayModels /\ n.paused = m.paused /\ n.shown = m.shown
      /\ n.icon = "Present" /\ n.session = m.session
  BY Makes
<1>3. /\ d \in TrayModels /\ d.paused = m.paused /\ d.shown = m.shown
      /\ d.icon = "Degraded" /\ d.session = m.session
  BY Makes
<1>4. restored => t[1] = n /\ t[2] = <<e>>
  BY DEF IconAddCompleted
<1>5. ~restored => t[1] = d /\ t[2] = <<>>
  BY DEF IconAddCompleted
<1> SUFFICES Quiet(m, t) /\ Settles(b, t[1].session, t[2])
  OBVIOUS
<1> HIDE DEF t, e, n, d
<1>6. CASE restored
  BY <1>1, <1>2, <1>4, <1>6, HandsOne DEF Blocking
<1>7. CASE ~restored
  BY <1>3, <1>5, <1>7, HandsNothing
<1> QED
  BY <1>6, <1>7

\* What Windows sends.
LEMMA SentDoes ==
    ASSUME NEW m \in TrayModels, NEW b, Square(b, m.session), NEW msg \in SentMessages
    PROVE  /\ Quiet(m, transition(m, msg))
           /\ Settles(b, transition(m, msg)[1].session, transition(m, msg)[2])
<1>1. CASE msg = Message("QueryEndSession", "")
  BY <1>1, QueryDoes
<1>2. CASE \E c \in BOOLEAN : msg = Message("EndSession", c)
  BY <1>2, EndDoes
<1>3. CASE msg = Message("TaskbarCreated", "")
  BY <1>3, CreatedDoes
<1> QED
  BY <1>1, <1>2, <1>3 DEF SentMessages

-----------------------------------------------------------------------------
(* What is lost or begun: the steps that write it.                         *)

\* One more choice.
LEMMA ChoseIs ==
    ASSUME NEW g \in Ghosts
    PROVE  /\ Chose(g) \in Ghosts
           /\ Chose(g).unposted = g.unposted /\ Chose(g).pauseLost = g.pauseLost
           /\ Chose(g).late = g.late
BY DEF Chose, Ghosts

\* A post that arrives, or is lost as it must be.
LEMMA UnpostedIs ==
    ASSUME NEW g \in Ghosts, NEW u \in SUBSET (Settings \cup {"notes"})
    PROVE  LET h == [g EXCEPT !.unposted = u] IN
           h \in Ghosts /\ h.unposted = u /\ h.pauseLost = g.pauseLost /\ h.late = g.late
BY DEF Ghosts

\* A pause that is sent, or dropped.
LEMMA PauseLostIs ==
    ASSUME NEW g \in Ghosts, NEW b \in BOOLEAN
    PROVE  LET h == [g EXCEPT !.pauseLost = b] IN
           h \in Ghosts /\ h.unposted = g.unposted /\ h.pauseLost = b /\ h.late = g.late
BY DEF Ghosts

\* A press of the hotkey.
LEMMA LateIs ==
    ASSUME NEW g \in Ghosts, NEW b \in BOOLEAN
    PROVE  LET h == [g EXCEPT !.choices = @ + 1, !.late = b] IN
           h \in Ghosts /\ h.unposted = g.unposted /\ h.pauseLost = g.pauseLost /\ h.late = b
<1> DEFINE c == Chose(g)
           h == [c EXCEPT !.late = b]
<1>1. c \in Ghosts /\ c.unposted = g.unposted /\ c.pauseLost = g.pauseLost
  BY ChoseIs
<1>2. h \in Ghosts /\ h.unposted = c.unposted /\ h.pauseLost = c.pauseLost /\ h.late = b
  <2> HIDE DEF c
  <2> QED
    BY <1>1 DEF Ghosts
<1>3. h = [g EXCEPT !.choices = @ + 1, !.late = b]
  BY DEF Chose
<1> HIDE DEF h, c
<1> QED
  BY <1>1, <1>2, <1>3

\* A shell that ends.
LEMMA RestartedIs ==
    ASSUME NEW g \in Ghosts, NEW b \in BOOLEAN
    PROVE  LET h == [g EXCEPT !.choices = @ + 1, !.restarted = b] IN
           /\ h \in Ghosts /\ h.unposted = g.unposted
           /\ h.pauseLost = g.pauseLost /\ h.late = g.late
<1> DEFINE c == Chose(g)
           h == [c EXCEPT !.restarted = b]
<1>1. c \in Ghosts /\ c.unposted = g.unposted /\ c.pauseLost = g.pauseLost /\ c.late = g.late
  BY ChoseIs
<1>2. /\ h \in Ghosts /\ h.unposted = c.unposted
      /\ h.pauseLost = c.pauseLost /\ h.late = c.late
  <2> HIDE DEF c
  <2> QED
    BY <1>1 DEF Ghosts
<1>3. h = [g EXCEPT !.choices = @ + 1, !.restarted = b]
  BY DEF Chose
<1> HIDE DEF h, c
<1> QED
  BY <1>1, <1>2, <1>3

\* A message of Windows.
LEMMA QueriedIs ==
    ASSUME NEW g \in Ghosts, NEW q \in BOOLEAN, NEW b \in BOOLEAN
    PROVE  LET h == [g EXCEPT !.choices = @ + 1, !.queried = q, !.restarted = b] IN
           /\ h \in Ghosts /\ h.unposted = g.unposted
           /\ h.pauseLost = g.pauseLost /\ h.late = g.late
<1> DEFINE c == Chose(g)
           d == [c EXCEPT !.queried = q]
           h == [d EXCEPT !.restarted = b]
<1>1. c \in Ghosts /\ c.unposted = g.unposted /\ c.pauseLost = g.pauseLost /\ c.late = g.late
  BY ChoseIs
<1>2. /\ d \in Ghosts /\ d.unposted = c.unposted
      /\ d.pauseLost = c.pauseLost /\ d.late = c.late
  <2> HIDE DEF c
  <2> QED
    BY <1>1 DEF Ghosts
<1>3. /\ h \in Ghosts /\ h.unposted = d.unposted
      /\ h.pauseLost = d.pauseLost /\ h.late = d.late
  <2> HIDE DEF d
  <2> QED
    BY <1>2 DEF Ghosts
<1>4. h = [g EXCEPT !.choices = @ + 1, !.queried = q, !.restarted = b]
  BY DEF Chose
<1> HIDE DEF h, d, c
<1> QED
  BY <1>1, <1>2, <1>3, <1>4

\* A post arrives while the window is there to take it, or is on record as lost.
LEMMA PostDoes ==
    ASSUME NEW msg \in Posts, NEW about \in Settings \cup {"notes"}, NEW g \in Ghosts,
           Post(msg, about, g)
    PROVE  /\ ghost' \in Ghosts /\ ghost'.pauseLost = g.pauseLost /\ ghost'.late = g.late
           /\ \/ /\ window # "destroyed" /\ ghost'.unposted = g.unposted \ {about}
                 /\ inbox' = IF window = "open" THEN Append(inbox, msg) ELSE inbox
              \/ inbox' = inbox /\ ghost'.unposted = g.unposted \cup {about}
<1> DEFINE less == g.unposted \ {about}
           more == g.unposted \cup {about}
           count == IF window = "destroyed" THEN g.choices ELSE g.choices + 1
           h == [g EXCEPT !.unposted = less]
           l == [g EXCEPT !.unposted = more]
           k == [l EXCEPT !.choices = count]
<1>1. /\ less \in SUBSET (Settings \cup {"notes"}) /\ more \in SUBSET (Settings \cup {"notes"})
      /\ count \in Nat
  BY DEF Ghosts
<1>2. h \in Ghosts /\ h.unposted = less /\ h.pauseLost = g.pauseLost /\ h.late = g.late
  <2> HIDE DEF less
  <2> QED
    BY <1>1, UnpostedIs
<1>3. l \in Ghosts /\ l.unposted = more /\ l.pauseLost = g.pauseLost /\ l.late = g.late
  <2> HIDE DEF more
  <2> QED
    BY <1>1, UnpostedIs
<1>4. k \in Ghosts /\ k.unposted = l.unposted /\ k.pauseLost = l.pauseLost /\ k.late = l.late
  <2> HIDE DEF l, count
  <2> QED
    BY <1>1, <1>3 DEF Ghosts
<1>5. CASE /\ window # "destroyed"
           /\ inbox' = IF window = "open" THEN Append(inbox, msg) ELSE inbox
           /\ ghost' = h
  <2> HIDE DEF h
  <2> QED
    BY <1>2, <1>5
<1>6. CASE inbox' = inbox /\ ghost' = k
  <2> HIDE DEF k, l
  <2> QED
    BY <1>3, <1>4, <1>6
<1> QED
  BY <1>5, <1>6 DEF Post

\* A setting changes, and is posted.
LEMMA ChangeDoes ==
    ASSUME DaemonTyped, NEW s \in Settings, NEW g \in Ghosts, Change(s, g)
    PROVE  /\ actual' \in [Settings -> BOOLEAN] /\ actual' = [actual EXCEPT ![s] = ~actual[s]]
           /\ Message("Set", <<s, actual'[s]>>) \in Posts
           /\ ghost' \in Ghosts /\ ghost'.pauseLost = g.pauseLost /\ ghost'.late = g.late
           /\ \/ /\ window # "destroyed" /\ ghost'.unposted = g.unposted \ {s}
                 /\ inbox' = IF window = "open"
                             THEN Append(inbox, Message("Set", <<s, actual'[s]>>)) ELSE inbox
              \/ inbox' = inbox /\ ghost'.unposted = g.unposted \cup {s}
<1> DEFINE flip == ~actual[s]
           msg == Message("Set", <<s, flip>>)
<1>1. actual' = [actual EXCEPT ![s] = flip] /\ Post(msg, s, g)
  BY DEF Change
<1>2. flip \in BOOLEAN /\ actual \in [Settings -> BOOLEAN]
  BY DEF DaemonTyped
<1> HIDE DEF flip
<1>3. actual' \in [Settings -> BOOLEAN] /\ actual'[s] = flip
  BY <1>1, <1>2
<1>4. msg \in Posts
  BY <1>2 DEF Message, Posts
<1> HIDE DEF msg
<1>5. /\ ghost' \in Ghosts /\ ghost'.pauseLost = g.pauseLost /\ ghost'.late = g.late
      /\ \/ /\ window # "destroyed" /\ ghost'.unposted = g.unposted \ {s}
            /\ inbox' = IF window = "open" THEN Append(inbox, msg) ELSE inbox
         \/ inbox' = inbox /\ ghost'.unposted = g.unposted \cup {s}
  BY <1>1, <1>4, PostDoes
<1> QED
  BY <1>1, <1>3, <1>4, <1>5 DEF flip, msg

-----------------------------------------------------------------------------
(* Types.                                                                  *)

\* What a tray with an effect at hand has.
LEMMA AtHand ==
    ASSUME TrayTyped, Running
    PROVE  /\ Now = pending[1] /\ Now \in Tasks /\ 1 \in 1..Len(pending)
           /\ Rest \in Seq(Tasks) /\ Len(Rest) = Len(pending) - 1 /\ Len(pending) \in Nat
           /\ \A i \in 1..Len(Rest) : i + 1 \in 1..Len(pending) /\ Rest[i] = pending[i + 1]
           /\ \A i \in 1..Len(pending) :
                 i = 1 \/ (i - 1 \in 1..Len(Rest) /\ Rest[i - 1] = pending[i])
<1>1. pending \in Seq(Tasks) /\ pending # <<>>
  BY DEF TrayTyped, Running
<1> QED
  BY <1>1, PopFacts DEF Now, Rest

\* The blocks a session has when nothing is owed.
LEMMA SomeSquare ==
    ASSUME NEW session
    PROVE  \E b \in Nat : Square(b, session)
BY DEF Square

\* A posted message that is taken.
LEMMA DispatchDoes ==
    ASSUME TrayTyped, InboxTyped, Dispatch
    PROVE  /\ inbox # <<>> /\ Head(inbox) \in Posts /\ Head(inbox).kind # "Quit"
           /\ inbox' = Tail(inbox)
           /\ \E t : /\ Posting(model, Head(inbox), t)
                     /\ model' = t[1] /\ pending' = t[2] \o pending
<1>1. inbox # <<>> /\ Head(inbox).kind # "Quit" /\ inbox' = Tail(inbox)
  BY DEF Dispatch
<1>2. Head(inbox) \in Posts
  BY <1>1, PopFacts DEF InboxTyped
<1>3. Posting(model, Head(inbox), transition(model, Head(inbox)))
  BY <1>1, <1>2, PostedDoes DEF TrayTyped
<1> QED
  BY <1>1, <1>2, <1>3 DEF Dispatch, Becomes

\* The steps that change the model otherwise, and what they hand out.
LEMMA SystemDoes ==
    ASSUME TrayTyped, GhostTyped, SystemSends
    PROVE  /\ Reachable /\ Choice /\ inbox' = inbox
           /\ ghost' \in Ghosts /\ ghost'.unposted = ghost.unposted
           /\ ghost'.pauseLost = ghost.pauseLost /\ ghost'.late = ghost.late
           /\ \E t : /\ Quiet(model, t) /\ model' = t[1] /\ pending' = t[2] \o pending
                     /\ \A b : Square(b, model.session) => Settles(b, t[1].session, t[2])
<1>1. PICK msg \in SentMessages :
        /\ Becomes(transition(model, msg), pending)
        /\ ghost' = [ghost EXCEPT !.choices = @ + 1,
                       !.queried = CASE msg.kind = "QueryEndSession" -> TRUE
                                     [] msg.kind = "EndSession" -> FALSE
                                     [] OTHER -> @,
                       !.restarted = IF msg.kind = "TaskbarCreated" THEN FALSE ELSE @]
  BY DEF SystemSends
<1> DEFINE q == CASE msg.kind = "QueryEndSession" -> TRUE
                  [] msg.kind = "EndSession" -> FALSE
                  [] OTHER -> ghost.queried
           r == IF msg.kind = "TaskbarCreated" THEN FALSE ELSE ghost.restarted
<1>2. q \in BOOLEAN /\ r \in BOOLEAN /\ ghost \in Ghosts
  BY DEF GhostTyped, Ghosts
<1>3. ghost' = [ghost EXCEPT !.choices = @ + 1, !.queried = q, !.restarted = r]
  BY <1>1
<1>4. /\ ghost' \in Ghosts /\ ghost'.unposted = ghost.unposted
      /\ ghost'.pauseLost = ghost.pauseLost /\ ghost'.late = ghost.late
  <2> HIDE DEF q, r
  <2> QED
    BY <1>2, <1>3, QueriedIs
<1>5. model \in TrayModels
  BY DEF TrayTyped
<1> DEFINE t == transition(model, msg)
<1>6. Quiet(model, t)
  <2>1. PICK b \in Nat : Square(b, model.session)
    BY SomeSquare
  <2> QED
    BY <1>5, <2>1, SentDoes
<1>7. \A b : Square(b, model.session) => Settles(b, t[1].session, t[2])
  BY <1>5, SentDoes
<1>8. model' = t[1] /\ pending' = t[2] \o pending
  BY <1>1 DEF Becomes
<1> HIDE DEF t
<1> QED
  BY <1>4, <1>6, <1>7, <1>8 DEF SystemSends

\* The icon's call returns.
LEMMA AddIconDoes ==
    ASSUME TrayTyped, AddIconReturns
    PROVE  /\ Effects("AddIcon") /\ inbox' = inbox
           /\ \E t : /\ Quiet(model, t) /\ model' = t[1] /\ pending' = t[2] \o Rest
                     /\ \A b : Square(b, model.session) => Settles(b, t[1].session, t[2])
<1>1. PICK restored \in BOOLEAN : Becomes(IconAddCompleted(model, restored), Rest)
  BY DEF AddIconReturns
<1> DEFINE t == IconAddCompleted(model, restored)
<1>2. model \in TrayModels
  BY DEF TrayTyped
<1>3. Quiet(model, t)
  <2>1. PICK b \in Nat : Square(b, model.session)
    BY SomeSquare
  <2> QED
    BY <1>2, <2>1, IconDoes
<1>4. \A b : Square(b, model.session) => Settles(b, t[1].session, t[2])
  BY <1>2, IconDoes
<1>5. model' = t[1] /\ pending' = t[2] \o Rest
  BY <1>1 DEF Becomes
<1> HIDE DEF t
<1> QED
  BY <1>3, <1>4, <1>5 DEF AddIconReturns

\* The window dies.
LEMMA DestroyDoes ==
    ASSUME TrayTyped, DestroyWindow
    PROVE  /\ window = "closing" /\ ~Running /\ window' = "destroyed" /\ inbox' = inbox
           /\ \E t : /\ Quiet(model, t) /\ model' = t[1] /\ pending' = t[2] \o <<>>
                     /\ \A b : Square(b, model.session) => Settles(b, t[1].session, t[2])
                     /\ t[1].session = "Idle"
                     /\ \A i \in 1..Len(t[2]) : t[2][i].kind \in {"DestroyBlock", "PostQuit"}
<1> DEFINE t == transition(model, Message("Destroyed", ""))
<1>1. model \in TrayModels
  BY DEF TrayTyped
<1>2. /\ Quiet(model, t) /\ t[1].session = "Idle"
      /\ \A i \in 1..Len(t[2]) : t[2][i].kind \in {"DestroyBlock", "PostQuit"}
  <2>1. PICK b \in Nat : Square(b, model.session)
    BY SomeSquare
  <2> QED
    BY <1>1, <2>1, DestroyedDoes
<1>3. \A b : Square(b, model.session) => Settles(b, t[1].session, t[2])
  BY <1>1, DestroyedDoes
<1>4. model' = t[1] /\ pending' = t[2] \o <<>>
  BY DEF DestroyWindow, Becomes
<1>5. window = "closing" /\ ~Running /\ window' = "destroyed" /\ inbox' = inbox
  BY DEF DestroyWindow
<1> HIDE DEF t
<1> QED
  BY <1>2, <1>3, <1>4, <1>5

\* The messages the menu posts.
LEMMA ChosenPosts ==
    ASSUME NEW menu, NEW msg \in Chosen(menu)
    PROVE  msg \in Posts /\ msg.kind \notin {"ContextMenu", "Set", "Quit", "Notify"}
<1>1. \/ \E kind \in {"Pause", "Exit", "Capture"} : msg = Message(kind, "")
      \/ \E s \in Settings : msg = Message("Toggle", s)
  BY DEF Chosen
<1>2. CASE \E kind \in {"Pause", "Exit", "Capture"} : msg = Message(kind, "")
  <2>1. \A kind \in {"Pause", "Exit", "Capture"} :
          Message(kind, "") \in Posts /\ Message(kind, "").kind = kind
    BY DEF Message, Posts
  <2> QED
    BY <1>2, <2>1
<1>3. CASE \E s \in Settings : msg = Message("Toggle", s)
  BY <1>3 DEF Message, Posts
<1> QED
  BY <1>1, <1>2, <1>3

\* The tray's own state keeps its type.
LEMMA TrayTypedKept ==
    ASSUME TrayTyped, InboxTyped, GhostTyped, [TrayNext]_allVars
    PROVE  TrayTyped'
<1>1. CASE UNCHANGED <<model, pending, window, shellIcon>>
  BY <1>1 DEF TrayTyped
<1>2. ASSUME Running, pending' = Rest, UNCHANGED <<model, window, shellIcon>>
      PROVE  TrayTyped'
  BY <1>2, AtHand DEF TrayTyped
<1>3. ASSUME NEW t, t[1] \in TrayModels, t[2] \in Seq(Tasks), model' = t[1],
             NEW rest \in Seq(Tasks), pending' = t[2] \o rest,
             window' \in {"open", "closing", "destroyed"}, shellIcon' \in BOOLEAN
      PROVE  TrayTyped'
  <2>1. pending' \in Seq(Tasks)
    BY <1>3, JoinFacts
  <2> QED
    BY <1>3, <2>1 DEF TrayTyped
<1>4. CASE Dispatch
  <2>1. PICK t : Posting(model, Head(inbox), t) /\ model' = t[1] /\ pending' = t[2] \o pending
    BY <1>4, DispatchDoes
  <2>2. window' = window /\ shellIcon' = shellIcon
    BY <1>4 DEF Dispatch
  <2> QED
    BY <1>3, <2>1, <2>2 DEF Posting, TrayTyped
<1>5. CASE SystemSends
  <2>1. PICK t : Quiet(model, t) /\ model' = t[1] /\ pending' = t[2] \o pending
    BY <1>5, SystemDoes
  <2>2. window' = window /\ shellIcon' = shellIcon
    BY <1>5 DEF SystemSends
  <2> QED
    BY <1>3, <2>1, <2>2 DEF Quiet, TrayTyped
<1>6. CASE AddIconReturns
  <2>1. PICK t : Quiet(model, t) /\ model' = t[1] /\ pending' = t[2] \o Rest
    BY <1>6, AddIconDoes
  <2>2. window' = window /\ shellIcon' \in BOOLEAN
    BY <1>6 DEF AddIconReturns, TrayTyped
  <2>3. Rest \in Seq(Tasks)
    BY <1>6, AtHand DEF AddIconReturns, Effects
  <2> QED
    BY <1>3, <2>1, <2>2, <2>3 DEF Quiet, TrayTyped
<1>7. CASE DestroyWindow
  <2>1. PICK t : Quiet(model, t) /\ model' = t[1] /\ pending' = t[2] \o <<>>
    BY <1>7, DestroyDoes
  <2>2. window' = "destroyed" /\ shellIcon' = shellIcon
    BY <1>7 DEF DestroyWindow
  <2>3. <<>> \in Seq(Tasks)
    BY NoneFacts
  <2> QED
    BY <1>3, <2>1, <2>2, <2>3 DEF Quiet, TrayTyped
<1>8. CASE DrainTakes \/ WaitBegins
  <2>1. /\ Effect("Balloon", "") \in Tasks /\ Effect("Waiting", "") \in Tasks
        /\ model \in TrayModels /\ pending \in Seq(Tasks)
    BY Makes DEF TrayTyped
  <2>2. Running
    BY <1>8 DEF DrainTakes, WaitBegins, Effects
  <2>3. Rest \in Seq(Tasks)
    BY <2>2, AtHand
  <2>4. \/ pending' = <<Effect("Balloon", "")>> \o pending
        \/ pending' = <<Effect("Waiting", "")>> \o Rest
    BY <1>8 DEF DrainTakes, WaitBegins
  <2>5. <<Effect("Balloon", "")>> \in Seq(Tasks) /\ <<Effect("Waiting", "")>> \in Seq(Tasks)
    BY <2>1, OneFacts
  <2>6. pending' \in Seq(Tasks)
    BY <2>1, <2>3, <2>4, <2>5, JoinFacts
  <2>7. UNCHANGED <<model, window, shellIcon>>
    BY <1>8 DEF DrainTakes, WaitBegins
  <2> QED
    BY <2>6, <2>7 DEF TrayTyped
<1>9. CASE MenuCloses \/ CallReturns \/ DrainEnds \/ BalloonReturns \/ SendEvent \/ BlockCalls
             \/ WaitReturns(TRUE) \/ WaitReturns(FALSE) \/ MenuQuits
  BY <1>2, <1>9 DEF MenuCloses, CallReturns, DrainEnds, BalloonReturns, SendEvent, BlockCalls,
     WaitReturns, MenuQuits, MenuOpen, Effects
<1>10. CASE ShellRestarts \/ LoopEnds
  BY <1>10 DEF ShellRestarts, LoopEnds, TrayTyped
<1>11. CASE IconUsed \/ HotkeyPressed \/ HotkeyChecks \/ HotkeySends \/ WorkerSteps
              \/ DeadlinePasses \/ JoinTray(FALSE) \/ Ended \/ UNCHANGED allVars
  BY <1>1, <1>11 DEF IconUsed, HotkeyPressed, HotkeyChecks, HotkeySends, WorkerSteps,
     DeadlinePasses, JoinTray, Ended, allVars, trayVars
<1>12. CASE DaemonStep
  BY <1>1, <1>12 DEF DaemonStep, DaemonTop, DaemonWaits, DaemonNotifies, DaemonPosts,
     DaemonChanges, DaemonTurns, TakesEvent, OnCapture, OnPausedChanged, OnToggle, OnExit,
     DaemonTicks, Teardown, SignalDrained, StopTray, JoinTray, trayVars
<1> QED
  BY <1>4, <1>5, <1>6, <1>7, <1>8, <1>9, <1>10, <1>11, <1>12
     DEF TrayNext, TrayStep, Timeouts, Others

\* What is posted to the window: taken, forgotten, or one more.
InboxGrows(msg) == msg \in Posts /\ inbox' = Append(inbox, msg)
LEMMA InboxMoves ==
    ASSUME TrayTyped, InboxTyped, ChannelsTyped, DaemonTyped, GhostTyped, [TrayNext]_allVars
    PROVE  \/ inbox' = inbox
           \/ Dispatch
           \/ LoopEnds
           \/ IconUsed /\ \E kind \in {"ContextMenu", "Capture"} : InboxGrows(Message(kind, ""))
           \/ MenuCloses /\ \E msg : /\ InboxGrows(msg)
                                     /\ msg.kind \notin {"ContextMenu", "Set", "Quit", "Notify"}
           \/ DaemonStep /\ \E msg : InboxGrows(msg) /\ msg.kind \in {"Notify", "Set", "Quit"}
<1>1. CASE IconUsed
  BY <1>1 DEF IconUsed, InboxGrows, Message, Posts
<1>2. CASE MenuCloses
  <2>1. MenuOpen /\ (inbox' = inbox \/ \E msg \in Chosen(Now.value) : inbox' = Append(inbox, msg))
    BY <1>2 DEF MenuCloses
  <2> QED
    BY <1>2, <2>1, ChosenPosts DEF InboxGrows
<1>3. CASE DaemonPosts
  <2>1. Message("Notify", "") \in Posts /\ Message("Notify", "").kind = "Notify"
    BY DEF Message, Posts
  <2>2. Post(Message("Notify", ""), "notes", ghost)
    BY <1>3 DEF DaemonPosts
  <2>3. \/ inbox' = Append(inbox, Message("Notify", "")) \/ inbox' = inbox
    BY <2>2 DEF Post
  <2> QED
    BY <1>3, <2>1, <2>3 DEF InboxGrows, DaemonStep
<1>4. ASSUME NEW s \in Settings, NEW g \in Ghosts, Change(s, g), DaemonStep
      PROVE  \/ inbox' = inbox
             \/ DaemonStep /\ \E msg : InboxGrows(msg) /\ msg.kind \in {"Notify", "Set", "Quit"}
  <2> DEFINE msg == Message("Set", <<s, actual'[s]>>)
  <2>1. msg \in Posts /\ (inbox' = inbox \/ inbox' = Append(inbox, msg))
    BY <1>4, ChangeDoes
  <2>2. msg.kind = "Set"
    BY DEF Message
  <2> HIDE DEF msg
  <2> QED
    BY <1>4, <2>1, <2>2 DEF InboxGrows
<1>5. CASE DaemonChanges
  <2>1. Chose(ghost) \in Ghosts
    BY ChoseIs DEF GhostTyped
  <2> QED
    BY <1>4, <1>5, <2>1 DEF DaemonChanges, DaemonStep
<1>6. CASE OnToggle
  <2>1. CASE inbox' = inbox
    BY <2>1
  <2>2. CASE Change(Head(events).value, ghost)
    <3>1. events # <<>> /\ Head(events).kind = "Toggle"
      BY <1>6 DEF OnToggle, TakesEvent
    <3>2. Head(events) \in Events
      BY <3>1, PopFacts DEF ChannelsTyped
    <3>3. Head(events).value \in Settings
      BY <3>1, <3>2 DEF Events
    <3> QED
      BY <1>4, <1>6, <2>2, <3>3 DEF GhostTyped, DaemonStep
  <2> QED
    BY <1>6, <2>1, <2>2 DEF OnToggle
<1>7. CASE StopTray
  <2>1. Message("Quit", "") \in Posts /\ Message("Quit", "").kind = "Quit"
    BY DEF Message, Posts
  <2>2. inbox' = inbox \/ inbox' = Append(inbox, Message("Quit", ""))
    BY <1>7 DEF StopTray
  <2> QED
    BY <1>7, <2>1, <2>2 DEF InboxGrows, DaemonStep
<1>8. CASE TrayStep
  BY <1>8 DEF TrayStep, AddIconReturns, CallReturns, DrainTakes, DrainEnds, BalloonReturns,
     SendEvent, BlockCalls, WaitBegins, WaitReturns, MenuQuits, DestroyWindow
<1>9. CASE DaemonTop \/ DaemonWaits \/ DaemonNotifies \/ DaemonTurns \/ OnCapture
           \/ OnPausedChanged \/ OnExit \/ DaemonTicks \/ Teardown \/ SignalDrained
           \/ JoinTray(TRUE)
  BY <1>9 DEF DaemonTop, DaemonWaits, DaemonNotifies, DaemonTurns, OnCapture,
     OnPausedChanged, OnExit, DaemonTicks, Teardown, SignalDrained, JoinTray
<1>10. CASE DeadlinePasses \/ Timeouts \/ SystemSends \/ ShellRestarts \/ HotkeyPressed
            \/ HotkeyChecks \/ HotkeySends \/ WorkerSteps \/ Ended \/ UNCHANGED allVars
  BY <1>10 DEF DeadlinePasses, Timeouts, WaitReturns, JoinTray, SystemSends, ShellRestarts,
     HotkeyPressed, HotkeyChecks, HotkeySends, WorkerSteps, Ended, allVars
<1> QED
  BY <1>1, <1>2, <1>3, <1>5, <1>6, <1>7, <1>8, <1>9, <1>10 DEF TrayNext, DaemonStep, Others

\* The messages posted keep their type.
LEMMA InboxTypedKept ==
    ASSUME TrayTyped, InboxTyped, ChannelsTyped, DaemonTyped, GhostTyped, [TrayNext]_allVars
    PROVE  InboxTyped'
<1>1. CASE inbox' = inbox
  BY <1>1 DEF InboxTyped
<1>2. CASE Dispatch
  BY <1>2, DispatchDoes, PopFacts DEF InboxTyped
<1>3. CASE LoopEnds
  <2>1. inbox' = <<>>
    BY <1>3 DEF LoopEnds
  <2>2. <<>> \in Seq(Posts)
    BY NoneFacts
  <2> QED
    BY <2>1, <2>2 DEF InboxTyped
<1>4. ASSUME NEW msg, InboxGrows(msg) PROVE InboxTyped'
  BY <1>4, PushFacts DEF InboxGrows, InboxTyped
<1> QED
  BY <1>1, <1>2, <1>3, <1>4, InboxMoves

\* An effect that sends has an event.
LEMMA SentIs ==
    ASSUME TrayTyped, Effects("SendEvent")
    PROVE  Running /\ Now \in Tasks /\ Now.value \in Events
<1>1. Running /\ Now.kind = "SendEvent"
  BY DEF Effects
<1>2. Now \in Tasks
  BY <1>1, AtHand
<1> QED
  BY <1>1, <1>2 DEF Tasks

\* An event that is taken.
LEMMA TakenIs ==
    ASSUME ChannelsTyped, NEW kind, TakesEvent(kind)
    PROVE  /\ events # <<>> /\ Head(events) \in Events /\ Head(events).kind = kind
           /\ events' = Tail(events) /\ UNCHANGED <<trayVars, notes, daemonPc, stopRequested>>
BY PopFacts DEF TakesEvent, ChannelsTyped

\* The channel to the daemon: sent, taken, or left.
LEMMA EventsMove ==
    ASSUME TrayTyped, ChannelsTyped, [TrayNext]_allVars
    PROVE  \/ events' = events
           \/ SendEvent
           \/ DaemonStep /\ \E kind : TakesEvent(kind)
<1>1. CASE OnCapture \/ OnPausedChanged \/ OnToggle \/ OnExit
  BY <1>1 DEF OnCapture, OnPausedChanged, OnToggle, OnExit, DaemonStep
<1>2. CASE TrayStep
  BY <1>2 DEF TrayStep, Dispatch, AddIconReturns, CallReturns, DrainTakes, DrainEnds,
     BalloonReturns, BlockCalls, WaitBegins, WaitReturns, MenuQuits, LoopEnds, DestroyWindow
<1>3. CASE DaemonTop \/ DaemonWaits \/ DaemonNotifies \/ DaemonPosts \/ DaemonChanges
           \/ DaemonTurns \/ DaemonTicks \/ Teardown \/ SignalDrained \/ StopTray
           \/ JoinTray(TRUE)
  BY <1>3 DEF DaemonTop, DaemonWaits, DaemonNotifies, DaemonPosts, DaemonChanges, DaemonTurns,
     DaemonTicks, Teardown, SignalDrained, StopTray, JoinTray
<1>4. CASE DeadlinePasses \/ Timeouts \/ Others \/ Ended \/ UNCHANGED allVars
  BY <1>4 DEF DeadlinePasses, Timeouts, WaitReturns, JoinTray, Others, IconUsed, MenuCloses,
     SystemSends, ShellRestarts, HotkeyPressed, HotkeyChecks, HotkeySends, WorkerSteps, Ended,
     allVars
<1> QED
  BY <1>1, <1>2, <1>3, <1>4 DEF TrayNext, DaemonStep

\* The notifications: queued, taken, or left.
LEMMA NotesMove ==
    ASSUME [TrayNext]_allVars
    PROVE  notes' = notes \/ DaemonNotifies \/ DrainTakes
<1>1. CASE TrayStep
  BY <1>1 DEF TrayStep, Dispatch, AddIconReturns, CallReturns, DrainEnds, SendEvent,
     BalloonReturns, BlockCalls, WaitBegins, WaitReturns, MenuQuits, LoopEnds, DestroyWindow
<1>2. CASE DaemonStep
  BY <1>2 DEF DaemonStep, DaemonTop, DaemonWaits, DaemonPosts, DaemonChanges, DaemonTurns,
     TakesEvent, OnCapture, OnPausedChanged, OnToggle, OnExit, DaemonTicks, Teardown,
     SignalDrained, StopTray, JoinTray
<1>3. CASE DeadlinePasses \/ Timeouts \/ Others \/ Ended \/ UNCHANGED allVars
  BY <1>3 DEF DeadlinePasses, Timeouts, WaitReturns, JoinTray, Others, IconUsed, MenuCloses,
     SystemSends, ShellRestarts, HotkeyPressed, HotkeyChecks, HotkeySends, WorkerSteps, Ended,
     allVars
<1> QED
  BY <1>1, <1>2, <1>3 DEF TrayNext

\* The two channels keep their types and their bounds.
LEMMA ChannelsTypedKept ==
    ASSUME TrayTyped, ChannelsTyped, [TrayNext]_allVars
    PROVE  ChannelsTyped'
<1>1. events' \in Seq(Events) /\ Len(events') <= EventCapacity
  <2>1. CASE events' = events
    BY <2>1 DEF ChannelsTyped
  <2>2. CASE SendEvent
    <3>1. Now.value \in Events
      BY <2>2, SentIs DEF SendEvent
    <3>2. events' = IF Len(events) < EventCapacity THEN Append(events, Now.value) ELSE events
      BY <2>2 DEF SendEvent
    <3>3. events \in Seq(Events) /\ Len(events) <= EventCapacity /\ EventCapacity \in Nat
      BY BoundAssumption DEF ChannelsTyped
    <3>4. CASE Len(events) < EventCapacity
      BY <3>1, <3>2, <3>3, <3>4, PushFacts
    <3>5. CASE ~(Len(events) < EventCapacity)
      BY <3>2, <3>3, <3>5
    <3> QED
      BY <3>4, <3>5
  <2>3. CASE \E kind : TakesEvent(kind)
    <3>1. events # <<>> /\ events' = Tail(events)
      BY <2>3, TakenIs
    <3>2. events \in Seq(Events) /\ Len(events) <= EventCapacity /\ EventCapacity \in Nat
      BY BoundAssumption DEF ChannelsTyped
    <3> QED
      BY <3>1, <3>2, PopFacts
  <2> QED
    BY <2>1, <2>2, <2>3, EventsMove
<1>2. notes' \in 0..NoteCapacity
  <2>1. NoteCapacity \in Nat /\ notes \in 0..NoteCapacity
    BY BoundAssumption DEF ChannelsTyped
  <2>2. CASE notes' = notes
    BY <2>1, <2>2
  <2>3. CASE DaemonNotifies
    BY <2>1, <2>3 DEF DaemonNotifies
  <2>4. CASE DrainTakes
    <3>1. notes > 0 /\ notes' = notes - 1
      BY <2>4 DEF DrainTakes
    <3> QED
      BY <2>1, <3>1
  <2> QED
    BY <2>2, <2>3, <2>4, NotesMove
<1> QED
  BY <1>1, <1>2 DEF ChannelsTyped

\* The settings and the flags the callback reads keep their types.
LEMMA DaemonTypedKept ==
    ASSUME ChannelsTyped, DaemonTyped, GhostTyped, [TrayNext]_allVars
    PROVE  DaemonTyped'
<1> USE DEF DaemonTyped
<1>1. CASE UNCHANGED <<actual, paused, stopRequested>>
  BY <1>1
<1>2. CASE DaemonChanges
  <2>1. PICK s \in Settings : Change(s, Chose(ghost))
    BY <1>2 DEF DaemonChanges
  <2>2. Chose(ghost) \in Ghosts
    BY ChoseIs DEF GhostTyped
  <2>3. actual' \in [Settings -> BOOLEAN]
    BY <2>1, <2>2, ChangeDoes
  <2> QED
    BY <1>2, <2>3 DEF DaemonChanges
<1>3. CASE OnToggle
  <2>1. UNCHANGED <<paused, stopRequested>>
    BY <1>3 DEF OnToggle, TakesEvent
  <2>2. CASE actual' = actual
    BY <2>1, <2>2
  <2>3. CASE Change(Head(events).value, ghost)
    <3>1. Head(events) \in Events /\ Head(events).kind = "Toggle"
      BY <1>3, TakenIs DEF OnToggle
    <3>2. Head(events).value \in Settings
      BY <3>1 DEF Events
    <3>3. actual' \in [Settings -> BOOLEAN]
      BY <2>3, <3>2, ChangeDoes DEF GhostTyped
    <3> QED
      BY <2>1, <3>3
  <2> QED
    BY <1>3, <2>2, <2>3 DEF OnToggle
<1>4. CASE OnPausedChanged
  <2>1. Head(events) \in Events /\ Head(events).kind = "PausedChanged"
    BY <1>4, TakenIs DEF OnPausedChanged
  <2>2. Head(events).value \in BOOLEAN
    BY <2>1 DEF Events
  <2>3. UNCHANGED <<actual, stopRequested>> /\ paused' = Head(events).value
    BY <1>4 DEF OnPausedChanged, TakesEvent
  <2> QED
    BY <2>2, <2>3
<1>5. CASE DaemonTop \/ DaemonTicks \/ Teardown
  <2>1. actual' = actual
    BY <1>5 DEF DaemonTop, DaemonTicks, Teardown
  <2>2. BeginShutdown \/ UNCHANGED <<shutdown, stopRequested, paused>> \/ Teardown
    BY <1>5 DEF DaemonTop, DaemonTicks
  <2>3. \/ stopRequested' = TRUE /\ paused' = TRUE
        \/ stopRequested' = stopRequested /\ paused' = paused
    BY <2>2 DEF BeginShutdown, Teardown
  <2> QED
    BY <2>1, <2>3
<1>6. CASE DaemonWaits \/ DaemonNotifies \/ DaemonPosts \/ DaemonTurns \/ OnCapture \/ OnExit
           \/ SignalDrained \/ StopTray \/ JoinTray(TRUE)
  BY <1>1, <1>6 DEF DaemonWaits, DaemonNotifies, DaemonPosts, DaemonTurns, OnCapture, OnExit,
     TakesEvent, SignalDrained, StopTray, JoinTray
<1>7. CASE TrayStep
  BY <1>1, <1>7 DEF TrayStep, Dispatch, AddIconReturns, CallReturns, DrainTakes, DrainEnds,
     BalloonReturns, SendEvent, BlockCalls, WaitBegins, WaitReturns, MenuQuits, LoopEnds,
     DestroyWindow, daemonVars
<1>8. CASE DeadlinePasses \/ Timeouts \/ Others \/ Ended \/ UNCHANGED allVars
  BY <1>1, <1>8 DEF DeadlinePasses, Timeouts, WaitReturns, JoinTray, Others, IconUsed,
     MenuCloses, SystemSends, ShellRestarts, HotkeyPressed, HotkeyChecks, HotkeySends,
     WorkerSteps, Ended, allVars, daemonVars
<1> QED
  BY <1>2, <1>3, <1>4, <1>5, <1>6, <1>7, <1>8 DEF TrayNext, DaemonStep

\* An offer to the capture worker fits, or is dropped.
LEMMA OfferDoes ==
    ASSUME CommandsTyped, NEW command \in {"Trigger", "Shutdown"}, Offer(command)
    PROVE  CommandsTyped'
<1> DEFINE S == {"Trigger", "Shutdown"}
<1>1. commands \in Seq(S) /\ Len(commands) <= CommandCapacity /\ CommandCapacity \in Nat
  BY BoundAssumption DEF CommandsTyped
<1>2. \/ commands' = commands
      \/ Len(commands) < CommandCapacity /\ commands' = Append(commands, command)
  BY DEF Offer
<1> HIDE DEF S
<1>3. CASE commands' = commands
  BY <1>3 DEF CommandsTyped
<1>4. CASE Len(commands) < CommandCapacity /\ commands' = Append(commands, command)
  <2>1. command \in S
    BY DEF S
  <2>2. commands' \in Seq(S) /\ Len(commands') <= CommandCapacity
    BY <1>1, <1>4, <2>1, PushFacts
  <2> QED
    BY <2>2 DEF CommandsTyped, S
<1> QED
  BY <1>2, <1>3, <1>4

\* The capture worker's queue keeps its type and its bound.
LEMMA CommandsTypedKept ==
    ASSUME CommandsTyped, [TrayNext]_allVars
    PROVE  CommandsTyped'
<1>1. CASE commands' = commands
  BY <1>1 DEF CommandsTyped
<1>2. CASE OnCapture \/ HotkeySends
  BY <1>2, OfferDoes DEF OnCapture, HotkeySends
<1>3. CASE Teardown
  BY <1>3, OfferDoes DEF Teardown
<1>4. CASE DaemonTicks
  BY <1>1, <1>4, OfferDoes DEF DaemonTicks
<1>5. CASE WorkerSteps
  <2>1. CASE commands # <<>> /\ commands' = Tail(commands)
    BY <2>1, BoundAssumption, PopFacts DEF CommandsTyped
  <2> QED
    BY <1>1, <1>5, <2>1 DEF WorkerSteps
<1>6. CASE DaemonTop \/ DaemonWaits \/ DaemonNotifies \/ DaemonPosts \/ DaemonChanges
           \/ DaemonTurns \/ OnPausedChanged \/ OnToggle \/ OnExit \/ SignalDrained
           \/ StopTray \/ JoinTray(TRUE)
  BY <1>1, <1>6 DEF DaemonTop, DaemonWaits, DaemonNotifies, DaemonPosts, DaemonChanges,
     DaemonTurns, OnPausedChanged, OnToggle, OnExit, SignalDrained, StopTray, JoinTray
<1>7. CASE TrayStep
  BY <1>1, <1>7 DEF TrayStep, Dispatch, AddIconReturns, CallReturns, DrainTakes, DrainEnds,
     BalloonReturns, SendEvent, BlockCalls, WaitBegins, WaitReturns, MenuQuits, LoopEnds,
     DestroyWindow
<1>8. CASE DeadlinePasses \/ Timeouts \/ IconUsed \/ MenuCloses \/ SystemSends
           \/ ShellRestarts \/ HotkeyPressed \/ HotkeyChecks \/ Ended \/ UNCHANGED allVars
  BY <1>1, <1>8 DEF DeadlinePasses, Timeouts, WaitReturns, JoinTray, IconUsed, MenuCloses,
     SystemSends, ShellRestarts, HotkeyPressed, HotkeyChecks, Ended, allVars
<1> QED
  BY <1>2, <1>3, <1>4, <1>5, <1>6, <1>7, <1>8 DEF TrayNext, DaemonStep, Others

\* What is on record changes where something is lost, pressed or told.
LEMMA GhostMoves ==
    ASSUME TrayTyped, ChannelsTyped, DaemonTyped, GhostTyped, [TrayNext]_allVars
    PROVE  /\ ghost' \in Ghosts
           /\ ghost'.late = ghost.late \/ HotkeyPressed
           /\ ghost'.pauseLost = ghost.pauseLost \/ SendEvent
           /\ \/ ghost'.unposted = ghost.unposted
              \/ DrainEnds \/ DaemonPosts \/ DaemonChanges \/ OnToggle
<1> USE DEF GhostTyped
<1>1. CASE ghost' = ghost
  BY <1>1
<1>2. CASE IconUsed \/ DaemonNotifies
  BY <1>2, ChoseIs DEF IconUsed, DaemonNotifies
<1>3. CASE SystemSends
  BY <1>3, SystemDoes
<1>4. CASE ShellRestarts
  BY <1>4, RestartedIs DEF ShellRestarts
<1>5. CASE HotkeyPressed
  <2>1. stopRequested \in BOOLEAN
    BY DEF DaemonTyped
  <2>2. ghost' = [ghost EXCEPT !.choices = @ + 1, !.late = stopRequested]
    BY <1>5 DEF HotkeyPressed
  <2> QED
    BY <1>5, <2>1, <2>2, LateIs
<1>6. CASE DrainEnds
  <2>1. ghost.unposted \ {"notes"} \in SUBSET (Settings \cup {"notes"})
    BY DEF Ghosts
  <2>2. ghost' = [ghost EXCEPT !.unposted = ghost.unposted \ {"notes"}]
    BY <1>6 DEF DrainEnds
  <2> QED
    BY <1>6, <2>1, <2>2, UnpostedIs
<1>7. CASE SendEvent
  <2> DEFINE lost == IF Now.value.kind = "PausedChanged" THEN ~(Len(events) < EventCapacity)
                     ELSE ghost.pauseLost
  <2>1. lost \in BOOLEAN
    BY DEF Ghosts
  <2>2. ghost' = [ghost EXCEPT !.pauseLost = lost]
    BY <1>7 DEF SendEvent
  <2> HIDE DEF lost
  <2> QED
    BY <1>7, <2>1, <2>2, PauseLostIs
<1>8. CASE DaemonPosts
  <2>1. Message("Notify", "") \in Posts
    BY DEF Message, Posts
  <2> QED
    BY <1>8, <2>1, PostDoes DEF DaemonPosts
<1>9. CASE DaemonChanges
  <2>1. /\ Chose(ghost) \in Ghosts /\ Chose(ghost).pauseLost = ghost.pauseLost
        /\ Chose(ghost).late = ghost.late
    BY ChoseIs
  <2>2. PICK s \in Settings : Change(s, Chose(ghost))
    BY <1>9 DEF DaemonChanges
  <2> QED
    BY <1>9, <2>1, <2>2, ChangeDoes
<1>10. CASE OnToggle
  <2>1. CASE Change(Head(events).value, ghost)
    <3>1. Head(events) \in Events /\ Head(events).kind = "Toggle"
      BY <1>10, TakenIs DEF OnToggle
    <3>2. Head(events).value \in Settings
      BY <3>1 DEF Events
    <3> QED
      BY <1>10, <2>1, <3>2, ChangeDoes
  <2> QED
    BY <1>1, <1>10, <2>1 DEF OnToggle
<1>11. CASE DaemonTop \/ DaemonWaits \/ DaemonTurns \/ OnCapture \/ OnPausedChanged \/ OnExit
            \/ DaemonTicks \/ Teardown \/ SignalDrained \/ StopTray \/ JoinTray(TRUE)
  BY <1>1, <1>11 DEF DaemonTop, DaemonWaits, DaemonTurns, OnCapture, OnPausedChanged, OnExit,
     DaemonTicks, Teardown, SignalDrained, StopTray, JoinTray
<1>12. CASE TrayStep
  BY <1>1, <1>6, <1>7, <1>12 DEF TrayStep, Dispatch, AddIconReturns, CallReturns, DrainTakes,
     BalloonReturns, BlockCalls, WaitBegins, WaitReturns, MenuQuits, LoopEnds, DestroyWindow
<1>13. CASE DeadlinePasses \/ Timeouts \/ MenuCloses \/ HotkeyChecks \/ HotkeySends
            \/ WorkerSteps \/ Ended \/ UNCHANGED allVars
  BY <1>1, <1>13 DEF DeadlinePasses, Timeouts, WaitReturns, JoinTray, MenuCloses, HotkeyChecks,
     HotkeySends, WorkerSteps, Ended, allVars
<1> QED
  BY <1>2, <1>3, <1>4, <1>5, <1>8, <1>9, <1>10, <1>11, <1>12, <1>13
     DEF TrayNext, DaemonStep, Others

\* Every step keeps the types.
LEMMA TrayShapesKept ==
    ASSUME TrayShapes, [TrayNext]_allVars PROVE TrayShapes'
BY TrayTypedKept, InboxTypedKept, ChannelsTypedKept, DaemonTypedKept, CommandsTypedKept,
   GhostMoves DEF TrayShapes, GhostTyped

\* The tray and the daemon start well-typed.
LEMMA TrayShapesInit == TrayInit => TrayShapes
<1> SUFFICES ASSUME TrayInit PROVE TrayShapes
  OBVIOUS
<1>1. TrayTyped /\ DaemonTyped
  <2>1. PICK added \in BOOLEAN, shown \in [Settings -> BOOLEAN] :
          /\ shellIcon = added /\ actual = shown
          /\ model = [paused |-> FALSE, shown |-> shown, session |-> "Idle",
                      icon |-> IF added THEN "Present" ELSE "Degraded"]
    BY DEF TrayInit
  <2>2. model \in TrayModels
    BY <2>1 DEF TrayModels
  <2>3. pending \in Seq(Tasks)
    BY NoneFacts DEF TrayInit
  <2> QED
    BY <2>1, <2>2, <2>3 DEF TrayTyped, DaemonTyped, TrayInit
<1>2. InboxTyped
  BY NoneFacts DEF InboxTyped, TrayInit
<1>3. ChannelsTyped
  <2>1. events \in Seq(Events) /\ Len(events) = 0 /\ notes = 0
    BY NoneFacts DEF TrayInit
  <2> QED
    BY <2>1, BoundAssumption DEF ChannelsTyped
<1>4. CommandsTyped
  <2>1. commands \in Seq({"Trigger", "Shutdown"}) /\ Len(commands) = 0
    BY NoneFacts DEF TrayInit
  <2> QED
    BY <2>1, BoundAssumption DEF CommandsTyped
<1>5. GhostTyped
  <2>1. shellIcon \in BOOLEAN
    BY <1>1 DEF TrayTyped
  <2> QED
    BY <2>1 DEF GhostTyped, Ghosts, TrayInit
<1> QED
  BY <1>1, <1>2, <1>3, <1>4, <1>5 DEF TrayShapes

-----------------------------------------------------------------------------
(* How a step moves what is left to do.                                    *)

\* Effects that neither show a menu nor send, before all that is left or but the first.
Adds(fx) ==
    /\ fx \in Seq(Tasks)
    /\ \A i \in 1..Len(fx) : fx[i].kind \notin {"ShowMenu", "SendEvent"}
    /\ model'.paused = model.paused /\ model'.shown = model.shown
    /\ model'.icon = "Present" /\ model.icon # "Present" =>
          \E i \in 1..Len(fx) : fx[i].kind = "DrainNotifications"
    /\ \/ pending' = fx \o pending
       \/ /\ Running /\ Now.kind \in {"AddIcon", "WaitForSessionDrain"}
          /\ pending' = fx \o Rest

\* An effect that is done with.
Pops ==
    /\ Running /\ pending' = Rest /\ model' = model
    /\ Now.kind = "DrainNotifications" => DrainEnds
    /\ Now.kind = "SendEvent" => SendEvent

\* What is left to do is left, done with, or comes after what a step hands out.
LEMMA PendingMoves ==
    ASSUME TrayShapes, [TrayNext]_allVars
    PROVE  \/ UNCHANGED <<pending, model>>
           \/ Pops
           \/ Dispatch
           \/ (SystemSends \/ AddIconReturns \/ DestroyWindow \/ DrainTakes \/ WaitBegins)
              /\ \E fx : Adds(fx)
<1> USE DEF TrayShapes
<1>1. CASE SystemSends
  BY <1>1, SystemDoes DEF Adds, Quiet
<1>2. CASE AddIconReturns
  BY <1>2, AddIconDoes DEF Adds, Quiet, Effects
<1>3. CASE DestroyWindow
  <2>1. pending = <<>>
    BY <1>3 DEF DestroyWindow, Running
  <2> QED
    BY <1>3, <2>1, DestroyDoes DEF Adds, Quiet
<1>4. CASE DrainTakes
  <2> DEFINE e == Effect("Balloon", "")
             fx == <<e>>
  <2>1. e \in Tasks /\ e.kind = "Balloon"
    BY Makes
  <2>2. pending' = fx \o pending /\ model' = model
    BY <1>4 DEF DrainTakes
  <2> HIDE DEF e
  <2>3. fx \in Seq(Tasks) /\ Len(fx) = 1 /\ fx[1] = e
    BY <2>1, OneFacts
  <2> HIDE DEF fx
  <2>4. Adds(fx)
    BY <2>1, <2>2, <2>3 DEF Adds
  <2> QED
    BY <1>4, <2>4
<1>5. CASE WaitBegins
  <2> DEFINE e == Effect("Waiting", "")
             fx == <<e>>
  <2>1. e \in Tasks /\ e.kind = "Waiting"
    BY Makes
  <2>2. /\ pending' = fx \o Rest /\ model' = model
        /\ Running /\ Now.kind = "WaitForSessionDrain"
    BY <1>5 DEF WaitBegins, Effects
  <2> HIDE DEF e
  <2>3. fx \in Seq(Tasks) /\ Len(fx) = 1 /\ fx[1] = e
    BY <2>1, OneFacts
  <2> HIDE DEF fx
  <2>4. Adds(fx)
    BY <2>1, <2>2, <2>3 DEF Adds
  <2> QED
    BY <1>5, <2>4
<1>6. CASE MenuCloses \/ MenuQuits \/ CallReturns \/ DrainEnds \/ BalloonReturns \/ SendEvent
           \/ BlockCalls \/ WaitReturns(TRUE) \/ WaitReturns(FALSE)
  BY <1>6 DEF Pops, MenuCloses, MenuQuits, MenuOpen, CallReturns, DrainEnds, BalloonReturns,
     SendEvent, BlockCalls, WaitReturns, Effects
<1>7. CASE DaemonStep
  BY <1>7 DEF DaemonStep, DaemonTop, DaemonWaits, DaemonNotifies, DaemonPosts, DaemonChanges,
     DaemonTurns, TakesEvent, OnCapture, OnPausedChanged, OnToggle, OnExit, DaemonTicks,
     Teardown, SignalDrained, StopTray, JoinTray, trayVars
<1>8. CASE LoopEnds \/ ShellRestarts \/ IconUsed \/ HotkeyPressed \/ HotkeyChecks
           \/ HotkeySends \/ WorkerSteps \/ DeadlinePasses \/ JoinTray(FALSE) \/ Ended
           \/ UNCHANGED allVars
  BY <1>8 DEF LoopEnds, ShellRestarts, IconUsed, HotkeyPressed, HotkeyChecks, HotkeySends,
     WorkerSteps, DeadlinePasses, JoinTray, Ended, allVars, trayVars
<1> QED
  BY <1>1, <1>2, <1>3, <1>4, <1>5, <1>6, <1>7, <1>8 DEF TrayNext, TrayStep, Timeouts, Others

\* Where an effect stands that comes after those handed out, or was handed out.
LEMMA AddedAt ==
    ASSUME TrayTyped, NEW fx, Adds(fx), NEW i \in 1..Len(pending')
    PROVE  \/ i \in 1..Len(fx) /\ pending'[i] = fx[i]
           \/ \E k \in 1..Len(pending) :
                 pending'[i] = pending[k] /\ Len(pending') - i = Len(pending) - k
<1>1. pending \in Seq(Tasks) /\ fx \in Seq(Tasks)
  BY DEF TrayTyped, Adds
<1>2. CASE pending' = fx \o pending
  <2>1. Len(pending') = Len(fx) + Len(pending) /\ Len(fx) \in Nat /\ Len(pending) \in Nat
    BY <1>1, <1>2, JoinFacts
  <2>2. \/ i \in 1..Len(fx) /\ pending'[i] = fx[i]
        \/ i - Len(fx) \in 1..Len(pending) /\ pending'[i] = pending[i - Len(fx)]
    BY <1>1, <1>2, JoinFacts
  <2>3. CASE i - Len(fx) \in 1..Len(pending) /\ pending'[i] = pending[i - Len(fx)]
    <3>1. Len(pending') - i = Len(pending) - (i - Len(fx))
      BY <2>1
    <3> QED
      BY <2>3, <3>1
  <2> QED
    BY <2>2, <2>3
<1>3. CASE Running /\ pending' = fx \o Rest
  <2>1. /\ Rest \in Seq(Tasks) /\ Len(Rest) = Len(pending) - 1 /\ Len(pending) \in Nat
        /\ \A j \in 1..Len(Rest) : j + 1 \in 1..Len(pending) /\ Rest[j] = pending[j + 1]
    BY <1>3, AtHand
  <2>2. Len(pending') = Len(fx) + Len(Rest) /\ Len(fx) \in Nat
    BY <1>1, <1>3, <2>1, JoinFacts
  <2>3. \/ i \in 1..Len(fx) /\ pending'[i] = fx[i]
        \/ i - Len(fx) \in 1..Len(Rest) /\ pending'[i] = Rest[i - Len(fx)]
    BY <1>1, <1>3, <2>1, JoinFacts
  <2>4. CASE i - Len(fx) \in 1..Len(Rest) /\ pending'[i] = Rest[i - Len(fx)]
    <3>1. /\ i - Len(fx) + 1 \in 1..Len(pending)
          /\ pending'[i] = pending[i - Len(fx) + 1]
      BY <2>1, <2>4
    <3>2. Len(pending') - i = Len(pending) - (i - Len(fx) + 1)
      BY <2>1, <2>2
    <3> QED
      BY <3>1, <3>2
  <2> QED
    BY <2>3, <2>4
<1> QED
  BY <1>2, <1>3 DEF Adds

\* What was left to do is, the first of it aside when that is done with.
LEMMA AddedKeeps ==
    ASSUME TrayTyped, NEW fx, Adds(fx)
    PROVE  /\ \A i \in 1..Len(fx) : i \in 1..Len(pending') /\ pending'[i] = fx[i]
           /\ \A k \in 1..Len(pending) :
                 \/ k = 1 /\ Running /\ Now.kind \in {"AddIcon", "WaitForSessionDrain"}
                 \/ \E i \in 1..Len(pending') : pending'[i] = pending[k]
<1>1. pending \in Seq(Tasks) /\ fx \in Seq(Tasks)
  BY DEF TrayTyped, Adds
<1>2. CASE pending' = fx \o pending
  <2>1. /\ \A i \in 1..Len(fx) : i \in 1..Len(pending') /\ pending'[i] = fx[i]
        /\ \A k \in 1..Len(pending) : /\ Len(fx) + k \in 1..Len(pending')
                                      /\ pending'[Len(fx) + k] = pending[k]
    BY <1>1, <1>2, JoinFacts
  <2> QED
    BY <2>1
<1>3. CASE Running /\ Now.kind \in {"AddIcon", "WaitForSessionDrain"} /\ pending' = fx \o Rest
  <2>1. Rest \in Seq(Tasks)
    BY <1>3, AtHand
  <2>2. \A i \in 1..Len(fx) : i \in 1..Len(pending') /\ pending'[i] = fx[i]
    BY <1>1, <1>3, <2>1, JoinFacts
  <2>3. ASSUME NEW k \in 1..Len(pending), k # 1
        PROVE  \E i \in 1..Len(pending') : pending'[i] = pending[k]
    <3>1. k - 1 \in 1..Len(Rest) /\ Rest[k - 1] = pending[k]
      BY <1>3, <2>3, AtHand
    <3>2. /\ Len(fx) + (k - 1) \in 1..Len(pending')
          /\ pending'[Len(fx) + (k - 1)] = Rest[k - 1]
      BY <1>1, <1>3, <2>1, <3>1, JoinFacts
    <3> QED
      BY <3>1, <3>2
  <2> QED
    BY <1>3, <2>2, <2>3
<1> QED
  BY <1>2, <1>3 DEF Adds

-----------------------------------------------------------------------------
(* A late press produces nothing.                                          *)

\* A press that is on record as late came after the workers were asked to stop.
LateKnown == (ghost.late => stopRequested) /\ LatePressesProduceNothing

\* The workers are asked to stop once and for all.
LEMMA StopStays ==
    ASSUME stopRequested, [TrayNext]_allVars PROVE stopRequested'
<1>1. CASE TrayStep
  BY <1>1 DEF TrayStep, Dispatch, AddIconReturns, CallReturns, DrainTakes, DrainEnds,
     BalloonReturns, SendEvent, BlockCalls, WaitBegins, WaitReturns, MenuQuits, LoopEnds,
     DestroyWindow, daemonVars
<1>2. CASE DaemonStep
  BY <1>2 DEF DaemonStep, DaemonTop, DaemonWaits, DaemonNotifies, DaemonPosts, DaemonChanges,
     DaemonTurns, TakesEvent, OnCapture, OnPausedChanged, OnToggle, OnExit, DaemonTicks,
     Teardown, SignalDrained, StopTray, JoinTray, BeginShutdown
<1>3. CASE DeadlinePasses \/ Timeouts \/ Others \/ Ended \/ UNCHANGED allVars
  BY <1>3 DEF DeadlinePasses, Timeouts, WaitReturns, JoinTray, Others, IconUsed, MenuCloses,
     SystemSends, ShellRestarts, HotkeyPressed, HotkeyChecks, HotkeySends, WorkerSteps, Ended,
     allVars, daemonVars
<1> QED
  BY <1>1, <1>2, <1>3 DEF TrayNext

\* The callback moves by its own steps.
LEMMA HotkeyMoves ==
    ASSUME [TrayNext]_allVars
    PROVE  hotkey' = hotkey \/ HotkeyPressed \/ HotkeyChecks \/ HotkeySends
<1>1. CASE TrayStep
  BY <1>1 DEF TrayStep, Dispatch, AddIconReturns, CallReturns, DrainTakes, DrainEnds,
     BalloonReturns, SendEvent, BlockCalls, WaitBegins, WaitReturns, MenuQuits, LoopEnds,
     DestroyWindow
<1>2. CASE DaemonStep
  BY <1>2 DEF DaemonStep, DaemonTop, DaemonWaits, DaemonNotifies, DaemonPosts, DaemonChanges,
     DaemonTurns, TakesEvent, OnCapture, OnPausedChanged, OnToggle, OnExit, DaemonTicks,
     Teardown, SignalDrained, StopTray, JoinTray
<1>3. CASE DeadlinePasses \/ Timeouts \/ Others \/ Ended \/ UNCHANGED allVars
  BY <1>3 DEF DeadlinePasses, Timeouts, WaitReturns, JoinTray, Others, IconUsed, MenuCloses,
     SystemSends, ShellRestarts, WorkerSteps, Ended, allVars
<1> QED
  BY <1>1, <1>2, <1>3 DEF TrayNext

\* Every step keeps it: a callback that goes on to send has seen that nobody asked to stop,
\* and a stop that is asked for since then does not make its press late.
LEMMA LateKept ==
    ASSUME TrayShapes, LateKnown, [TrayNext]_allVars PROVE LateKnown'
<1>1. /\ ghost.late \in BOOLEAN /\ stopRequested \in BOOLEAN /\ ghost \in Ghosts
  BY DEF TrayShapes, GhostTyped, DaemonTyped, Ghosts
<1>2. CASE HotkeyPressed
  <2>1. ghost' = [ghost EXCEPT !.choices = @ + 1, !.late = stopRequested]
    BY <1>2 DEF HotkeyPressed
  <2>2. ghost'.late = stopRequested
    BY <1>1, <2>1, LateIs
  <2>3. hotkey' \in {"idle", "unpaused"}
    BY <1>2 DEF HotkeyPressed
  <2>4. stopRequested => stopRequested'
    BY StopStays
  <2> QED
    BY <2>2, <2>3, <2>4 DEF LateKnown, LatePressesProduceNothing
<1>3. CASE ~HotkeyPressed
  <2>1. ghost'.late = ghost.late
    BY <1>3, GhostMoves DEF TrayShapes
  <2>2. stopRequested => stopRequested'
    BY StopStays
  <2>3. hotkey' = "sending" => hotkey = "sending" \/ ~stopRequested
    BY <1>3, HotkeyMoves DEF HotkeyChecks, HotkeySends
  <2> QED
    BY <2>1, <2>2, <2>3 DEF LateKnown, LatePressesProduceNothing
<1> QED
  BY <1>2, <1>3

-----------------------------------------------------------------------------
(* One menu.                                                               *)

\* An open menu is the last thing left to do, nobody asks for another, and once is enough.
MenuLast ==
    /\ \A i \in 1..Len(pending) : pending[i].kind = "ShowMenu" => i = Len(pending)
    /\ \A i \in 1..Len(pending), j \in 1..Len(inbox) :
          pending[i].kind = "ShowMenu" => inbox[j].kind # "ContextMenu"
    /\ \A i, j \in 1..Len(inbox) :
          inbox[i].kind = "ContextMenu" /\ inbox[j].kind = "ContextMenu" => i = j

\* A menu that is open after a step was open before it, unless the step shows one.
LEMMA MenusMove ==
    ASSUME TrayShapes, MenuLast, [TrayNext]_allVars, ~Dispatch,
           NEW i \in 1..Len(pending'), pending'[i].kind = "ShowMenu"
    PROVE  i = Len(pending') /\ \E k \in 1..Len(pending) : pending[k].kind = "ShowMenu"
<1>1. TrayTyped
  BY DEF TrayShapes
<1>2. CASE UNCHANGED <<pending, model>>
  BY <1>2 DEF MenuLast
<1>3. CASE Pops
  <2>1. /\ pending' = Rest /\ Len(Rest) = Len(pending) - 1 /\ Len(pending) \in Nat
        /\ i + 1 \in 1..Len(pending) /\ Rest[i] = pending[i + 1]
    BY <1>1, <1>3, AtHand DEF Pops
  <2>2. i + 1 = Len(pending)
    BY <2>1 DEF MenuLast
  <2> QED
    BY <2>1, <2>2
<1>4. CASE \E fx : Adds(fx)
  <2>1. PICK fx : Adds(fx)
    BY <1>4
  <2>2. PICK k \in 1..Len(pending) :
           pending'[i] = pending[k] /\ Len(pending') - i = Len(pending) - k
    BY <1>1, <2>1, AddedAt DEF Adds
  <2>3. k = Len(pending)
    BY <2>2 DEF MenuLast
  <2>4. pending' \in Seq(Tasks) /\ pending \in Seq(Tasks)
    BY TrayShapesKept DEF TrayShapes, TrayTyped
  <2>5. Len(pending') \in Nat /\ Len(pending) \in Nat
    BY <2>4, LenProperties
  <2> QED
    BY <2>2, <2>3, <2>5
<1> QED
  BY <1>2, <1>3, <1>4, PendingMoves

\* Every step keeps it.
LEMMA MenuLastKept ==
    ASSUME TrayShapes, MenuLast, [TrayNext]_allVars PROVE MenuLast'
<1>1. inbox \in Seq(Posts) /\ pending \in Seq(Tasks)
  BY DEF TrayShapes, InboxTyped, TrayTyped
<1>2. CASE Dispatch
  <2>1. PICK t : Posting(model, Head(inbox), t) /\ pending' = t[2] \o pending
    BY <1>2, DispatchDoes DEF TrayShapes
  <2>2. /\ inbox # <<>> /\ inbox' = Tail(inbox) /\ Pumping
    BY <1>2 DEF Dispatch
  <2>3. /\ Head(inbox) = inbox[1] /\ 1 \in 1..Len(inbox) /\ Len(inbox) \in Nat
        /\ \A j \in 1..Len(inbox') : j + 1 \in 1..Len(inbox) /\ inbox'[j] = inbox[j + 1]
    BY <1>1, <2>2, PopFacts
  <2>4. \A i, j \in 1..Len(inbox') :
          inbox'[i].kind = "ContextMenu" /\ inbox'[j].kind = "ContextMenu" => i = j
    <3>1. ASSUME NEW i \in 1..Len(inbox'), NEW j \in 1..Len(inbox'),
                 inbox'[i].kind = "ContextMenu", inbox'[j].kind = "ContextMenu"
          PROVE  i = j
      <4>1. i + 1 = j + 1
        BY <2>3, <3>1 DEF MenuLast
      <4> QED
        BY <4>1
    <3> QED
      BY <3>1
  <2>5. t[2] \in Seq(Tasks)
    BY <2>1 DEF Posting
  <2>6. CASE Head(inbox).kind = "ContextMenu"
    <3>1. \A k \in 1..Len(pending) : pending[k].kind # "ShowMenu"
      BY <2>3, <2>6 DEF MenuLast
    <3>2. ~Running
      BY <1>1, <2>2, <3>1, PopFacts DEF Pumping, MenuOpen, Running, Now
    <3>3. pending = <<>>
      BY <3>2 DEF Running
    <3>4. pending' = t[2]
      BY <2>1, <2>5, <3>3
    <3>5. \A i \in 1..Len(pending') : pending'[i].kind = "ShowMenu" => i = Len(pending')
      BY <2>1, <3>4 DEF Posting
    <3>6. \A j \in 1..Len(inbox') : inbox'[j].kind # "ContextMenu"
      <4>1. ASSUME NEW j \in 1..Len(inbox'), inbox'[j].kind = "ContextMenu" PROVE FALSE
        <5>1. j + 1 = 1
          BY <2>3, <2>6, <4>1 DEF MenuLast
        <5> QED
          BY <5>1
      <4> QED
        BY <4>1
    <3> QED
      BY <2>4, <3>5, <3>6 DEF MenuLast
  <2>7. CASE Head(inbox).kind # "ContextMenu"
    <3>1. \A i \in 1..Len(t[2]) : t[2][i].kind # "ShowMenu"
      BY <2>1, <2>7 DEF Posting
    <3>2. ASSUME NEW i \in 1..Len(pending'), pending'[i].kind = "ShowMenu"
          PROVE  i = Len(pending') /\ \E k \in 1..Len(pending) : pending[k].kind = "ShowMenu"
      <4>1. i - Len(t[2]) \in 1..Len(pending) /\ pending'[i] = pending[i - Len(t[2])]
        BY <1>1, <2>1, <2>5, <3>1, <3>2, JoinFacts
      <4>2. i - Len(t[2]) = Len(pending)
        BY <3>2, <4>1 DEF MenuLast
      <4>3. /\ Len(pending') = Len(t[2]) + Len(pending)
            /\ Len(t[2]) \in Nat /\ Len(pending) \in Nat
        BY <1>1, <2>1, <2>5, JoinFacts
      <4> QED
        BY <3>2, <4>1, <4>2, <4>3
    <3>3. \A i \in 1..Len(pending'), j \in 1..Len(inbox') :
            pending'[i].kind = "ShowMenu" => inbox'[j].kind # "ContextMenu"
      BY <2>3, <3>2 DEF MenuLast
    <3> QED
      BY <2>4, <3>2, <3>3 DEF MenuLast
  <2> QED
    BY <2>6, <2>7
<1>3. CASE ~Dispatch
  <2>1. \A i \in 1..Len(pending') : pending'[i].kind = "ShowMenu" =>
          i = Len(pending') /\ \E k \in 1..Len(pending) : pending[k].kind = "ShowMenu"
    BY <1>3, MenusMove
  <2>2. CASE inbox' = inbox
    BY <2>1, <2>2 DEF MenuLast
  <2>3. CASE LoopEnds
    <3>1. inbox' = <<>> /\ Len(inbox') = 0
      BY <2>3, NoneFacts DEF LoopEnds
    <3>2. \A j \in 1..Len(inbox') : FALSE
      BY <3>1
    <3> QED
      BY <2>1, <3>2 DEF MenuLast
  <2>4. CASE IconUsed /\ \E kind \in {"ContextMenu", "Capture"} : InboxGrows(Message(kind, ""))
    <3>1. PICK kind \in {"ContextMenu", "Capture"} : InboxGrows(Message(kind, ""))
      BY <2>4
    <3> DEFINE msg == Message(kind, "")
    <3>2. inbox' = Append(inbox, msg) /\ msg \in Posts
      BY <3>1 DEF InboxGrows
    <3> HIDE DEF msg
    <3>3. /\ \A i \in 1..Len(inbox) : i \in 1..Len(inbox') /\ inbox'[i] = inbox[i]
          /\ \A i \in 1..Len(inbox') : i \in 1..Len(inbox) \/ i = Len(inbox) + 1
      BY <1>1, <3>2, PushFacts
    <3>4. /\ \A j \in 1..Len(inbox) : inbox[j].kind # "ContextMenu"
          /\ \A k \in 1..Len(pending) : pending[k].kind # "ShowMenu"
      BY <2>4 DEF IconUsed
    <3>5. \A i \in 1..Len(pending') : pending'[i].kind # "ShowMenu"
      BY <2>1, <3>4
    <3>6. \A i \in 1..Len(inbox') : inbox'[i].kind = "ContextMenu" => i = Len(inbox) + 1
      BY <3>3, <3>4
    <3> QED
      BY <3>5, <3>6 DEF MenuLast
  <2>5. ASSUME NEW msg, InboxGrows(msg), msg.kind # "ContextMenu" PROVE MenuLast'
    <3>1. inbox' = Append(inbox, msg) /\ msg \in Posts
      BY <2>5 DEF InboxGrows
    <3>2. \A j \in 1..Len(inbox') :
            \/ j \in 1..Len(inbox) /\ inbox'[j] = inbox[j]
            \/ inbox'[j] = msg
      BY <1>1, <3>1, PushFacts
    <3>3. \A j \in 1..Len(inbox') : inbox'[j].kind = "ContextMenu" =>
            j \in 1..Len(inbox) /\ inbox[j].kind = "ContextMenu"
      BY <2>5, <3>2
    <3> QED
      BY <2>1, <3>3 DEF MenuLast
  <2>6. CASE \E msg : InboxGrows(msg) /\ msg.kind # "ContextMenu"
    BY <2>5, <2>6
  <2> QED
    BY <1>3, <2>2, <2>3, <2>4, <2>6, InboxMoves DEF TrayShapes
<1> QED
  BY <1>2, <1>3

-----------------------------------------------------------------------------
(* The block reason of the session's end.                                  *)

\* The blocks Windows holds, the session, and the calls owed agree, and a window that is gone
\* owes nothing but what its end handed out.
BlocksAgree ==
    /\ Settles(blocks, model.session, pending)
    /\ window = "destroyed" =>
          /\ model.session = "Idle"
          /\ \A i \in 1..Len(pending) : pending[i].kind \in {"DestroyBlock", "PostQuit"}

\* Where no call that settles can be owed, none is, and the blocks are those of the session.
LEMMA NoneOwed ==
    ASSUME TrayTyped, BlocksAgree, ~Running \/ Now.kind \notin Blocking \cup Waits
    PROVE  /\ \A i \in 1..Len(pending) : pending[i].kind \notin Blocking
           /\ Square(blocks, model.session)
<1>1. \A i \in 1..Len(pending) : pending[i].kind \notin Blocking
  <2>1. CASE ~Running
    BY <2>1, NoneFacts DEF Running
  <2>2. CASE Running /\ Now.kind \notin Blocking \cup Waits
    BY <2>2, AtHand DEF BlocksAgree, Settles, Blocking, Waits
  <2> QED
    BY <2>1, <2>2
<1> QED
  BY <1>1 DEF BlocksAgree, Settles, Square

\* What a step hands out settles as much before what is left to do, when none of that does.
LEMMA SettlesBefore ==
    ASSUME NEW b, NEW session, NEW fx \in Seq(Tasks), NEW rest \in Seq(Tasks),
           Settles(b, session, fx), \A i \in 1..Len(rest) : rest[i].kind \notin Blocking
    PROVE  Settles(b, session, fx \o rest)
<1> DEFINE all == fx \o rest
<1>1. /\ Len(fx) \in Nat /\ Len(rest) \in Nat /\ Len(all) = Len(fx) + Len(rest)
      /\ \A i \in 1..Len(fx) : i \in 1..Len(all) /\ all[i] = fx[i]
      /\ \A i \in 1..Len(all) :
            \/ i \in 1..Len(fx) /\ all[i] = fx[i]
            \/ i - Len(fx) \in 1..Len(rest) /\ all[i] = rest[i - Len(fx)]
  BY JoinFacts
<1> HIDE DEF all
<1>2. \A i \in 1..Len(all) : all[i].kind \in Blocking => i \in 1..Len(fx) /\ all[i] = fx[i]
  BY <1>1
<1>3. \A i \in 1..Len(fx) : 1 \in 1..Len(fx)
  BY <1>1
<1>4. Settles(b, session, all)
  <2>1. \A i \in 1..Len(all) :
          /\ all[i].kind = "CreateBlock" => i = 1
          /\ all[i].kind = "DestroyBlock" => i = 1 \/ (i = 2 /\ all[1].kind \in Waits)
    BY <1>1, <1>2, <1>3 DEF Settles, Blocking
  <2>2. \A kind \in Blocking : (\E i \in 1..Len(all) : all[i].kind = kind)
                               => \E i \in 1..Len(fx) : fx[i].kind = kind
    BY <1>2
  <2>3. (\A i \in 1..Len(all) : all[i].kind \notin Blocking)
          => \A i \in 1..Len(fx) : fx[i].kind \notin Blocking
    BY <1>1
  <2> QED
    BY <2>1, <2>2, <2>3 DEF Settles, Blocking
<1> QED
  BY <1>4 DEF all

\* A call that is not owed to Windows is done with.
LEMMA PopSettles ==
    ASSUME NEW b, NEW session, NEW todo \in Seq(Tasks), todo # <<>>,
           Settles(b, session, todo), todo[1].kind \notin Blocking
    PROVE  Settles(b, session, Tail(todo))
<1> DEFINE rest == Tail(todo)
<1>1. /\ rest \in Seq(Tasks) /\ Len(rest) = Len(todo) - 1 /\ Len(todo) \in Nat
      /\ \A i \in 1..Len(rest) : i + 1 \in 1..Len(todo) /\ rest[i] = todo[i + 1]
      /\ \A i \in 1..Len(todo) : i = 1 \/ (i - 1 \in 1..Len(rest) /\ rest[i - 1] = todo[i])
  BY PopFacts
<1> HIDE DEF rest
<1>2. \A i \in 1..Len(rest) : rest[i].kind # "CreateBlock"
  <2>1. ASSUME NEW i \in 1..Len(rest), rest[i].kind = "CreateBlock" PROVE FALSE
    <3>1. i + 1 = 1
      BY <1>1, <2>1 DEF Settles
    <3> QED
      BY <3>1
  <2> QED
    BY <2>1
<1>3. \A i \in 1..Len(rest) : rest[i].kind = "DestroyBlock" => i = 1
  <2>1. ASSUME NEW i \in 1..Len(rest), rest[i].kind = "DestroyBlock" PROVE i = 1
    <3>1. i + 1 = 1 \/ i + 1 = 2
      BY <1>1, <2>1 DEF Settles
    <3> QED
      BY <3>1
  <2> QED
    BY <2>1
<1>4. (\E i \in 1..Len(rest) : rest[i].kind = "DestroyBlock") => session = "Idle" /\ b = 1
  BY <1>1 DEF Settles
<1>5. (\A i \in 1..Len(rest) : rest[i].kind \notin Blocking)
        => b = IF session = "Idle" THEN 0 ELSE 1
  BY <1>1 DEF Settles
<1>6. Settles(b, session, rest)
  BY <1>2, <1>3, <1>4, <1>5 DEF Settles
<1> QED
  BY <1>6 DEF rest

\* Nothing that settles, and a session's blocks.
LEMMA SquareSettles ==
    ASSUME NEW b, NEW session, NEW todo, Square(b, session),
           \A i \in 1..Len(todo) : todo[i].kind \notin Blocking
    PROVE  Settles(b, session, todo)
BY DEF Square, Settles, Blocking

\* A call that settles is the only one owed.
LEMMA OneCallOwed ==
    ASSUME TrayTyped, BlocksAgree, Running, Now.kind \in Blocking
    PROVE  /\ \A i \in 1..Len(Rest) : Rest[i].kind \notin Blocking
           /\ Now.kind = "CreateBlock" => model.session = "QueryReceived" /\ blocks = 0
           /\ Now.kind = "DestroyBlock" => model.session = "Idle" /\ blocks = 1
<1>1. /\ Now = pending[1] /\ 1 \in 1..Len(pending)
      /\ \A i \in 1..Len(Rest) : i + 1 \in 1..Len(pending) /\ Rest[i] = pending[i + 1]
      /\ Len(pending) \in Nat /\ Len(Rest) = Len(pending) - 1
  BY AtHand
<1>2. ASSUME NEW i \in 1..Len(Rest), Rest[i].kind \in Blocking PROVE FALSE
  <2>1. i + 1 # 1 /\ pending[i + 1].kind \in Blocking /\ i + 1 \in 1..Len(pending)
    BY <1>1, <1>2
  <2>2. pending[1].kind \in Waits
    BY <2>1 DEF BlocksAgree, Settles, Blocking
  <2> QED
    BY <1>1, <2>2 DEF Waits, Blocking
<1> QED
  BY <1>1, <1>2 DEF BlocksAgree, Settles

\* Every step keeps it.
LEMMA BlocksKept ==
    ASSUME TrayShapes, BlocksAgree, [TrayNext]_allVars PROVE BlocksAgree'
<1>1. TrayTyped /\ pending \in Seq(Tasks) /\ model \in TrayModels
  BY DEF TrayShapes, TrayTyped
<1>2. CASE UNCHANGED <<model, pending, blocks>> /\ (window' = window \/ window' = "closing")
  BY <1>2 DEF BlocksAgree
<1>3. ASSUME NEW t, NEW rest \in Seq(Tasks), t[2] \in Seq(Tasks), model' = t[1],
             pending' = t[2] \o rest, \A i \in 1..Len(rest) : rest[i].kind \notin Blocking,
             Settles(blocks, t[1].session, t[2]), blocks' = blocks, window' # "destroyed"
      PROVE  BlocksAgree'
  <2>1. Settles(blocks, t[1].session, t[2] \o rest)
    BY <1>3, SettlesBefore
  <2> QED
    BY <1>3, <2>1 DEF BlocksAgree
<1>4. CASE Dispatch
  <2>1. PICK t : Posting(model, Head(inbox), t) /\ model' = t[1] /\ pending' = t[2] \o pending
    BY <1>4, DispatchDoes DEF TrayShapes
  <2>2. /\ window = "open" /\ window' = window /\ blocks' = blocks
        /\ ~Running \/ Now.kind \notin Blocking \cup Waits
    BY <1>4 DEF Dispatch, Pumping, MenuOpen, Blocking, Waits
  <2>3. /\ \A i \in 1..Len(pending) : pending[i].kind \notin Blocking
        /\ Square(blocks, model.session)
    BY <1>1, <2>2, NoneOwed
  <2>4. /\ t[1].session = model.session /\ t[2] \in Seq(Tasks)
        /\ \A i \in 1..Len(t[2]) : t[2][i].kind \notin Blocking
    BY <2>1 DEF Posting
  <2>5. Settles(blocks, t[1].session, t[2])
    BY <2>3, <2>4, SquareSettles
  <2> QED
    BY <1>1, <1>3, <2>1, <2>2, <2>3, <2>4, <2>5
<1>5. CASE SystemSends
  <2>1. PICK t : /\ Quiet(model, t) /\ model' = t[1] /\ pending' = t[2] \o pending
                 /\ \A b : Square(b, model.session) => Settles(b, t[1].session, t[2])
    BY <1>5, SystemDoes DEF TrayShapes
  <2>2. /\ Reachable /\ window' = window /\ blocks' = blocks
    BY <1>5 DEF SystemSends
  <2>3. ~Running \/ Now.kind \notin Blocking \cup Waits
    BY <2>2 DEF Reachable, Pumping, MenuOpen, CallsOut, Blocking, Waits
  <2>4. /\ \A i \in 1..Len(pending) : pending[i].kind \notin Blocking
        /\ Square(blocks, model.session)
    BY <1>1, <2>3, NoneOwed
  <2>5. window # "destroyed"
    <3>1. ASSUME window = "destroyed" PROVE FALSE
      <4>1. Running /\ Now.kind \in CallsOut
        BY <2>2, <3>1 DEF Reachable, Pumping
      <4>2. Now.kind \in {"DestroyBlock", "PostQuit"}
        BY <1>1, <3>1, <4>1, AtHand DEF BlocksAgree
      <4> QED
        BY <4>1, <4>2 DEF CallsOut
    <3> QED
      BY <3>1
  <2> QED
    BY <1>1, <1>3, <2>1, <2>2, <2>4, <2>5 DEF Quiet
<1>6. CASE AddIconReturns
  <2>1. PICK t : /\ Quiet(model, t) /\ model' = t[1] /\ pending' = t[2] \o Rest
                 /\ \A b : Square(b, model.session) => Settles(b, t[1].session, t[2])
    BY <1>6, AddIconDoes DEF TrayShapes
  <2>2. Running /\ Now.kind = "AddIcon" /\ window' = window /\ blocks' = blocks
    BY <1>6 DEF AddIconReturns, Effects
  <2>3. /\ Rest \in Seq(Tasks) /\ Now = pending[1] /\ 1 \in 1..Len(pending)
        /\ \A i \in 1..Len(Rest) : i + 1 \in 1..Len(pending) /\ Rest[i] = pending[i + 1]
    BY <1>1, <2>2, AtHand
  <2>4. /\ \A i \in 1..Len(pending) : pending[i].kind \notin Blocking
        /\ Square(blocks, model.session)
    BY <1>1, <2>2, NoneOwed DEF Blocking, Waits
  <2>5. window # "destroyed"
    BY <2>2, <2>3 DEF BlocksAgree
  <2>6. \A i \in 1..Len(Rest) : Rest[i].kind \notin Blocking
    BY <2>3, <2>4
  <2> QED
    BY <1>3, <2>1, <2>2, <2>3, <2>4, <2>5, <2>6 DEF Quiet
<1>7. CASE DestroyWindow
  <2>1. PICK t : /\ Quiet(model, t) /\ model' = t[1] /\ pending' = t[2] \o <<>>
                 /\ \A b : Square(b, model.session) => Settles(b, t[1].session, t[2])
                 /\ t[1].session = "Idle"
                 /\ \A i \in 1..Len(t[2]) : t[2][i].kind \in {"DestroyBlock", "PostQuit"}
    BY <1>7, DestroyDoes DEF TrayShapes
  <2>2. ~Running /\ blocks' = blocks
    BY <1>7 DEF DestroyWindow
  <2>3. Square(blocks, model.session)
    BY <1>1, <2>2, NoneOwed
  <2>4. t[2] \in Seq(Tasks)
    BY <2>1 DEF Quiet
  <2>5. pending' = t[2]
    BY <2>1, <2>4
  <2> QED
    BY <2>1, <2>2, <2>3, <2>5 DEF BlocksAgree
<1>8. CASE DrainTakes
  <2> DEFINE e == Effect("Balloon", "")
             fx == <<e>>
  <2>1. /\ e \in Tasks /\ e.kind = "Balloon"
    BY Makes
  <2>2. /\ Running /\ Now.kind = "DrainNotifications" /\ pending' = fx \o pending
        /\ UNCHANGED <<model, window, blocks>>
    BY <1>8 DEF DrainTakes, Effects
  <2> HIDE DEF e
  <2>3. fx \in Seq(Tasks) /\ Len(fx) = 1 /\ fx[1] = e
    BY <2>1, OneFacts
  <2> HIDE DEF fx
  <2>4. /\ \A i \in 1..Len(pending) : pending[i].kind \notin Blocking
        /\ Square(blocks, model.session)
    BY <1>1, <2>2, NoneOwed DEF Blocking, Waits
  <2>5. window # "destroyed"
    BY <1>1, <2>2, AtHand DEF BlocksAgree
  <2>6. Settles(blocks, model.session, fx)
    BY <2>1, <2>3, <2>4, SquareSettles DEF Blocking
  <2>7. Settles(blocks, model.session, fx \o pending)
    BY <1>1, <2>3, <2>4, <2>6, SettlesBefore
  <2> QED
    BY <2>2, <2>5, <2>7 DEF BlocksAgree
<1>9. CASE WaitBegins
  <2> DEFINE e == Effect("Waiting", "")
             fx == <<e>>
  <2>1. /\ e \in Tasks /\ e.kind = "Waiting"
    BY Makes
  <2>2. /\ Running /\ Now.kind = "WaitForSessionDrain" /\ pending' = fx \o Rest
        /\ UNCHANGED <<model, window, blocks>>
    BY <1>9 DEF WaitBegins, Effects
  <2> HIDE DEF e
  <2>3. fx \in Seq(Tasks) /\ Len(fx) = 1 /\ fx[1] = e
    BY <2>1, OneFacts
  <2> HIDE DEF fx
  <2>4. Now = pending[1] /\ 1 \in 1..Len(pending) /\ pending # <<>>
    BY <1>1, <2>2, AtHand DEF Running
  <2>5. /\ Len(pending') = Len(pending) /\ pending'[1] = e
        /\ \A i \in 1..Len(pending) : i # 1 => pending'[i] = pending[i]
    BY <1>1, <2>2, <2>3, <2>4, ReplaceFacts DEF Rest
  <2>6. 1 \in 1..Len(pending')
    BY <2>4, <2>5
  <2>7. \A i \in 1..Len(pending) :
          /\ pending'[i].kind \in Blocking <=> pending[i].kind \in Blocking
          /\ \A kind \in Blocking : pending'[i].kind = kind <=> pending[i].kind = kind
    BY <2>1, <2>2, <2>4, <2>5, <2>6 DEF Blocking
  <2>8. Settles(blocks', model'.session, pending')
    BY <2>1, <2>2, <2>5, <2>7 DEF BlocksAgree, Settles, Blocking, Waits
  <2>9. window # "destroyed"
    BY <2>2, <2>4 DEF BlocksAgree
  <2> QED
    BY <2>2, <2>8, <2>9 DEF BlocksAgree
<1>10. CASE BlockCalls
  <2>1. /\ Running /\ pending' = Rest /\ model' = model /\ window' = window
        /\ \/ Now.kind = "CreateBlock" /\ blocks' = blocks + 1
           \/ Now.kind = "DestroyBlock" /\ blocks' = blocks - 1
    BY <1>10 DEF BlockCalls, Effects
  <2>2. /\ \A i \in 1..Len(Rest) : Rest[i].kind \notin Blocking
        /\ Now.kind = "CreateBlock" => model.session = "QueryReceived" /\ blocks = 0
        /\ Now.kind = "DestroyBlock" => model.session = "Idle" /\ blocks = 1
    BY <1>1, <2>1, OneCallOwed DEF Blocking
  <2>3. Square(blocks', model.session)
    BY <2>1, <2>2 DEF Square
  <2>4. Settles(blocks', model.session, Rest)
    BY <2>2, <2>3, SquareSettles
  <2>5. window = "destroyed" => \A i \in 1..Len(Rest) : Rest[i].kind \in {"DestroyBlock", "PostQuit"}
    BY <1>1, <2>1, AtHand DEF BlocksAgree
  <2> QED
    BY <2>1, <2>4, <2>5 DEF BlocksAgree
<1>11. ASSUME Running, pending' = Rest, Now.kind \notin Blocking,
              UNCHANGED <<model, blocks, window>>
       PROVE  BlocksAgree'
  <2>1. /\ Now = pending[1] /\ pending # <<>>
        /\ \A i \in 1..Len(Rest) : i + 1 \in 1..Len(pending) /\ Rest[i] = pending[i + 1]
    BY <1>1, <1>11, AtHand DEF Running
  <2>2. Settles(blocks, model.session, Rest)
    BY <1>1, <1>11, <2>1, PopSettles DEF BlocksAgree, Rest
  <2> QED
    BY <1>11, <2>1, <2>2 DEF BlocksAgree
<1>12. CASE MenuCloses \/ MenuQuits \/ CallReturns \/ DrainEnds \/ BalloonReturns \/ SendEvent
            \/ WaitReturns(TRUE) \/ WaitReturns(FALSE)
  BY <1>11, <1>12 DEF MenuCloses, MenuQuits, MenuOpen, CallReturns, DrainEnds, BalloonReturns,
     SendEvent, WaitReturns, Effects, Blocking
<1>13. CASE LoopEnds \/ ShellRestarts
  BY <1>2, <1>13 DEF LoopEnds, ShellRestarts
<1>14. CASE DaemonStep
  BY <1>2, <1>14 DEF DaemonStep, DaemonTop, DaemonWaits, DaemonNotifies, DaemonPosts,
     DaemonChanges, DaemonTurns, TakesEvent, OnCapture, OnPausedChanged, OnToggle, OnExit,
     DaemonTicks, Teardown, SignalDrained, StopTray, JoinTray, trayVars
<1>15. CASE IconUsed \/ HotkeyPressed \/ HotkeyChecks \/ HotkeySends \/ WorkerSteps
            \/ DeadlinePasses \/ JoinTray(FALSE) \/ Ended \/ UNCHANGED allVars
  BY <1>2, <1>15 DEF IconUsed, HotkeyPressed, HotkeyChecks, HotkeySends, WorkerSteps,
     DeadlinePasses, JoinTray, Ended, allVars, trayVars
<1> QED
  BY <1>4, <1>5, <1>6, <1>7, <1>8, <1>9, <1>10, <1>12, <1>13, <1>14, <1>15
     DEF TrayNext, TrayStep, Timeouts, Others

-----------------------------------------------------------------------------
(* The pause: what the daemon was told.                                    *)

SaysPause(event) == event.kind = "PausedChanged"

\* Every pause on its way out is the model's, and unless one was dropped or the workers stop,
\* the last pause told, on its way or taken, is the model's.
PauseTold ==
    /\ \A i \in 1..Len(pending) : IsPause(pending[i]) => pending[i].value.value = model.paused
    /\ \/ ghost.pauseLost \/ stopRequested
       \/ \E i \in 1..Len(pending) : IsPause(pending[i])
       \/ \E i \in 1..Len(events) :
             /\ SaysPause(events[i]) /\ events[i].value = model.paused
             /\ \A j \in 1..Len(events) : j > i => ~SaysPause(events[j])
       \/ paused = model.paused /\ \A j \in 1..Len(events) : ~SaysPause(events[j])

\* The flag changes when the workers are asked to stop, or when an event says so.
LEMMA PausedMoves ==
    ASSUME [TrayNext]_allVars
    PROVE  \/ OnPausedChanged
           \/ /\ paused' = paused \/ stopRequested'
              /\ events' = events \/ SendEvent
                 \/ \E kind : TakesEvent(kind) /\ kind # "PausedChanged"
<1>1. CASE TrayStep
  BY <1>1 DEF TrayStep, Dispatch, AddIconReturns, CallReturns, DrainTakes, DrainEnds,
     BalloonReturns, SendEvent, BlockCalls, WaitBegins, WaitReturns, MenuQuits, LoopEnds,
     DestroyWindow, daemonVars
<1>2. CASE DaemonTop \/ DaemonTicks \/ Teardown
  BY <1>2 DEF DaemonTop, DaemonTicks, Teardown, BeginShutdown
<1>3. CASE OnCapture
  BY <1>3, "Capture" # "PausedChanged" DEF OnCapture
<1>4. CASE OnToggle
  BY <1>4, "Toggle" # "PausedChanged" DEF OnToggle
<1>5. CASE OnExit
  BY <1>5, "Exit" # "PausedChanged" DEF OnExit
<1>6. CASE DaemonWaits \/ DaemonNotifies \/ DaemonPosts \/ DaemonChanges \/ DaemonTurns
           \/ SignalDrained \/ StopTray \/ JoinTray(TRUE)
  BY <1>6 DEF DaemonWaits, DaemonNotifies, DaemonPosts, DaemonChanges, DaemonTurns,
     SignalDrained, StopTray, JoinTray
<1>7. CASE DeadlinePasses \/ Timeouts \/ Others \/ Ended \/ UNCHANGED allVars
  BY <1>7 DEF DeadlinePasses, Timeouts, WaitReturns, JoinTray, Others, IconUsed, MenuCloses,
     SystemSends, ShellRestarts, HotkeyPressed, HotkeyChecks, HotkeySends, WorkerSteps, Ended,
     allVars, daemonVars
<1> QED
  BY <1>1, <1>2, <1>3, <1>4, <1>5, <1>6, <1>7 DEF TrayNext, DaemonStep

\* While messages are taken, no pause is on its way out.
LEMMA QuietTakes ==
    ASSUME TrayShapes, MenuLast, Pumping
    PROVE  \A i \in 1..Len(pending) : ~IsPause(pending[i]) /\ pending[i].kind = "ShowMenu"
<1>1. TrayTyped /\ pending \in Seq(Tasks)
  BY DEF TrayShapes, TrayTyped
<1>2. CASE ~Running
  BY <1>2, NoneFacts DEF Running
<1>3. CASE MenuOpen
  <2>1. /\ pending[1].kind = "ShowMenu" /\ 1 \in 1..Len(pending) /\ Len(pending) \in Nat
    BY <1>1, <1>3, AtHand DEF MenuOpen
  <2>2. 1 = Len(pending)
    BY <2>1 DEF MenuLast
  <2>3. \A i \in 1..1 : i = 1
    OBVIOUS
  <2> QED
    BY <2>1, <2>2, <2>3 DEF IsPause
<1> QED
  BY <1>2, <1>3 DEF Pumping

\* Every pause on its way out is the model's after a step, and is still on its way.
LEMMA PausesMove ==
    ASSUME TrayShapes, MenuLast, PauseTold, [TrayNext]_allVars
    PROVE  /\ \A i \in 1..Len(pending') :
                 IsPause(pending'[i]) => pending'[i].value.value = model'.paused
           /\ model'.paused # model.paused => \E i \in 1..Len(pending') : IsPause(pending'[i])
           /\ (\E i \in 1..Len(pending) : IsPause(pending[i])) =>
                 \/ \E i \in 1..Len(pending') : IsPause(pending'[i])
                 \/ SendEvent /\ SaysPause(Now.value) /\ Now.value.value = model.paused
<1>1. TrayTyped /\ pending \in Seq(Tasks)
  BY DEF TrayShapes, TrayTyped
<1>2. CASE UNCHANGED <<pending, model>>
  BY <1>2 DEF PauseTold
<1>3. CASE Pops
  <2>1. /\ pending' = Rest /\ model' = model /\ Now = pending[1]
        /\ \A i \in 1..Len(Rest) : i + 1 \in 1..Len(pending) /\ Rest[i] = pending[i + 1]
        /\ \A i \in 1..Len(pending) :
              i = 1 \/ (i - 1 \in 1..Len(Rest) /\ Rest[i - 1] = pending[i])
        /\ 1 \in 1..Len(pending) /\ (Now.kind = "SendEvent" => SendEvent)
    BY <1>1, <1>3, AtHand DEF Pops
  <2>2. \A i \in 1..Len(pending') :
          IsPause(pending'[i]) => pending'[i].value.value = model'.paused
    BY <2>1 DEF PauseTold
  <2>3. ASSUME NEW k \in 1..Len(pending), IsPause(pending[k])
        PROVE  \/ \E i \in 1..Len(pending') : IsPause(pending'[i])
               \/ SendEvent /\ SaysPause(Now.value) /\ Now.value.value = model.paused
    <3>1. CASE k = 1
      <4>1. Now.value.value = model.paused
        BY <2>1, <2>3, <3>1 DEF PauseTold
      <4> QED
        BY <2>1, <2>3, <3>1, <4>1 DEF IsPause, SaysPause
    <3>2. CASE k # 1
      BY <2>1, <2>3, <3>2
    <3> QED
      BY <3>1, <3>2
  <2> QED
    BY <2>1, <2>2, <2>3
<1>4. CASE Dispatch
  <2>1. PICK t : Posting(model, Head(inbox), t) /\ model' = t[1] /\ pending' = t[2] \o pending
    BY <1>4, DispatchDoes DEF TrayShapes
  <2>2. \A i \in 1..Len(pending) : ~IsPause(pending[i])
    BY <1>4, QuietTakes DEF Dispatch
  <2>3. t[2] \in Seq(Tasks)
    BY <2>1 DEF Posting
  <2>4. /\ \A i \in 1..Len(t[2]) : i \in 1..Len(pending') /\ pending'[i] = t[2][i]
        /\ \A i \in 1..Len(pending') :
              \/ i \in 1..Len(t[2]) /\ pending'[i] = t[2][i]
              \/ i - Len(t[2]) \in 1..Len(pending) /\ pending'[i] = pending[i - Len(t[2])]
    BY <1>1, <2>1, <2>3, JoinFacts
  <2>5. \A i \in 1..Len(pending') :
          IsPause(pending'[i]) => pending'[i].value.value = model'.paused
    BY <2>1, <2>2, <2>4 DEF Posting
  <2>6. model'.paused # model.paused => \E i \in 1..Len(pending') : IsPause(pending'[i])
    BY <2>1, <2>4 DEF Posting
  <2> QED
    BY <2>2, <2>5, <2>6
<1>5. CASE \E fx : Adds(fx)
  <2>1. PICK fx : Adds(fx)
    BY <1>5
  <2>2. \A i \in 1..Len(fx) : ~IsPause(fx[i])
    BY <2>1 DEF Adds, IsPause
  <2>3. model'.paused = model.paused
    BY <2>1 DEF Adds
  <2>4. \A i \in 1..Len(pending') : IsPause(pending'[i]) =>
          \E k \in 1..Len(pending) : pending'[i] = pending[k]
    BY <1>1, <2>1, <2>2, AddedAt
  <2>5. ASSUME NEW k \in 1..Len(pending), IsPause(pending[k])
        PROVE  \E i \in 1..Len(pending') : IsPause(pending'[i])
    <3>1. ~(k = 1 /\ Running /\ Now.kind \in {"AddIcon", "WaitForSessionDrain"})
      BY <1>1, <2>5, AtHand DEF IsPause
    <3>2. \E i \in 1..Len(pending') : pending'[i] = pending[k]
      BY <1>1, <2>1, <3>1, AddedKeeps
    <3> QED
      BY <2>5, <3>2
  <2> QED
    BY <2>3, <2>4, <2>5 DEF PauseTold
<1> QED
  BY <1>2, <1>3, <1>4, <1>5, PendingMoves

\* Every step keeps it.
LEMMA PauseKept ==
    ASSUME TrayShapes, MenuLast, PauseTold, [TrayNext]_allVars PROVE PauseTold'
<1> DEFINE Told(m) ==
             \E i \in 1..Len(events) :
                /\ SaysPause(events[i]) /\ events[i].value = m
                /\ \A j \in 1..Len(events) : j > i => ~SaysPause(events[j])
           Silent == \A j \in 1..Len(events) : ~SaysPause(events[j])
<1>1. /\ \A i \in 1..Len(pending') :
            IsPause(pending'[i]) => pending'[i].value.value = model'.paused
      /\ model'.paused # model.paused => \E i \in 1..Len(pending') : IsPause(pending'[i])
      /\ (\E i \in 1..Len(pending) : IsPause(pending[i])) =>
            \/ \E i \in 1..Len(pending') : IsPause(pending'[i])
            \/ SendEvent /\ SaysPause(Now.value) /\ Now.value.value = model.paused
  BY PausesMove
<1>2. /\ stopRequested => stopRequested'
      /\ ghost'.pauseLost = ghost.pauseLost \/ SendEvent
      /\ events \in Seq(Events) /\ ChannelsTyped
  BY StopStays, GhostMoves DEF TrayShapes, ChannelsTyped
<1>3. SUFFICES ASSUME model'.paused = model.paused, ~stopRequested', ~ghost'.pauseLost,
                      ~\E i \in 1..Len(pending') : IsPause(pending'[i])
               PROVE  \/ \E i \in 1..Len(events') :
                            /\ SaysPause(events'[i]) /\ events'[i].value = model.paused
                            /\ \A j \in 1..Len(events') : j > i => ~SaysPause(events'[j])
                      \/ /\ paused' = model.paused
                         /\ \A j \in 1..Len(events') : ~SaysPause(events'[j])
  BY <1>1 DEF PauseTold
<1>4. CASE SendEvent
  <2>1. /\ Now.value \in Events /\ paused' = paused
        /\ events' = IF Len(events) < EventCapacity THEN Append(events, Now.value) ELSE events
        /\ ghost' = [ghost EXCEPT !.pauseLost = IF Now.value.kind = "PausedChanged"
                                                THEN ~(Len(events) < EventCapacity) ELSE @]
    BY <1>4, SentIs DEF SendEvent, TrayShapes, daemonVars
  <2>2. ghost \in Ghosts
    BY DEF TrayShapes, GhostTyped
  <2>3. ghost'.pauseLost = IF Now.value.kind = "PausedChanged"
                           THEN ~(Len(events) < EventCapacity) ELSE ghost.pauseLost
    BY <2>1, <2>2 DEF Ghosts
  <2>4. ASSUME Len(events) < EventCapacity
        PROVE  /\ events' = Append(events, Now.value) /\ Len(events') = Len(events) + 1
               /\ Len(events) \in Nat
               /\ \A i \in 1..Len(events) : i \in 1..Len(events') /\ events'[i] = events[i]
               /\ Len(events) + 1 \in 1..Len(events')
               /\ events'[Len(events) + 1] = Now.value
               /\ \A i \in 1..Len(events') : i \in 1..Len(events) \/ i = Len(events) + 1
    BY <1>2, <2>1, <2>4, PushFacts
  <2>5. CASE SaysPause(Now.value)
    <3>1. Len(events) < EventCapacity
      BY <1>3, <2>3, <2>5 DEF SaysPause
    <3>2. Now.value.value = model.paused
      <4>1. Running /\ Now = pending[1] /\ 1 \in 1..Len(pending) /\ Now.kind = "SendEvent"
        BY <1>4, AtHand DEF SendEvent, Effects, TrayShapes
      <4> QED
        BY <2>5, <4>1 DEF PauseTold, IsPause, SaysPause
    <3>3. \A j \in 1..Len(events') : ~(j > Len(events) + 1)
      BY <2>4, <3>1
    <3> QED
      BY <2>4, <2>5, <3>1, <3>2, <3>3
  <2>6. CASE ~SaysPause(Now.value)
    <3>1. ghost'.pauseLost = ghost.pauseLost
      BY <2>3, <2>6 DEF SaysPause
    <3>2. Told(model.paused) \/ (paused = model.paused /\ Silent)
      BY <1>1, <1>2, <1>3, <2>6, <3>1 DEF PauseTold
    <3>3. CASE Len(events) < EventCapacity
      <4>1. \A j \in 1..Len(events') : SaysPause(events'[j]) => j \in 1..Len(events)
        BY <2>4, <2>6, <3>3
      <4>2. CASE Told(model.paused)
        BY <2>4, <3>3, <4>1, <4>2
      <4>3. CASE paused = model.paused /\ Silent
        BY <2>1, <2>4, <3>3, <4>1, <4>3
      <4> QED
        BY <3>2, <4>2, <4>3
    <3>4. CASE ~(Len(events) < EventCapacity)
      BY <2>1, <3>2, <3>4
    <3> QED
      BY <3>3, <3>4
  <2> QED
    BY <2>5, <2>6
<1>5. CASE ~SendEvent
  <2>1. Told(model.paused) \/ (paused = model.paused /\ Silent)
    BY <1>1, <1>2, <1>3, <1>5 DEF PauseTold
  <2>2. ASSUME NEW kind, TakesEvent(kind)
        PROVE  /\ Head(events) = events[1] /\ Head(events).kind = kind
               /\ Len(events') = Len(events) - 1 /\ Len(events) \in Nat
               /\ \A i \in 1..Len(events') : i + 1 \in 1..Len(events) /\ events'[i] = events[i + 1]
               /\ \A i \in 1..Len(events) :
                     i = 1 \/ (i - 1 \in 1..Len(events') /\ events'[i - 1] = events[i])
               /\ 1 \in 1..Len(events)
    BY <1>2, <2>2, TakenIs, PopFacts
  <2>3. ASSUME NEW kind, TakesEvent(kind), NEW i \in 1..Len(events), i # 1,
               SaysPause(events[i]), events[i].value = model.paused,
               \A j \in 1..Len(events) : j > i => ~SaysPause(events[j])
        PROVE  \E k \in 1..Len(events') :
                  /\ SaysPause(events'[k]) /\ events'[k].value = model.paused
                  /\ \A j \in 1..Len(events') : j > k => ~SaysPause(events'[j])
    <3>1. i - 1 \in 1..Len(events') /\ events'[i - 1] = events[i]
      BY <2>2, <2>3
    <3>2. \A j \in 1..Len(events') : j > i - 1 => ~SaysPause(events'[j])
      BY <2>2, <2>3
    <3> QED
      BY <2>3, <3>1, <3>2
  <2>4. CASE OnPausedChanged
    <3>1. TakesEvent("PausedChanged") /\ paused' = Head(events).value
      BY <2>4 DEF OnPausedChanged
    <3>2. SaysPause(events[1]) /\ paused' = events[1].value /\ 1 \in 1..Len(events)
      BY <2>2, <3>1 DEF SaysPause
    <3>3. PICK i \in 1..Len(events) :
             /\ SaysPause(events[i]) /\ events[i].value = model.paused
             /\ \A j \in 1..Len(events) : j > i => ~SaysPause(events[j])
      BY <2>1, <3>2
    <3>4. CASE i = 1
      <4>1. \A j \in 1..Len(events') : ~SaysPause(events'[j])
        BY <2>2, <3>1, <3>3, <3>4
      <4> QED
        BY <3>2, <3>3, <3>4, <4>1
    <3>5. CASE i # 1
      BY <2>3, <3>1, <3>3, <3>5
    <3> QED
      BY <3>4, <3>5
  <2>5. CASE paused' = paused /\ \E kind : TakesEvent(kind) /\ kind # "PausedChanged"
    <3>1. PICK kind : TakesEvent(kind) /\ kind # "PausedChanged"
      BY <2>5
    <3>2. ~SaysPause(events[1])
      BY <2>2, <3>1 DEF SaysPause
    <3>3. CASE Told(model.paused)
      <4>1. PICK i \in 1..Len(events) :
               /\ SaysPause(events[i]) /\ events[i].value = model.paused
               /\ \A j \in 1..Len(events) : j > i => ~SaysPause(events[j])
        BY <3>3
      <4> QED
        BY <2>3, <3>1, <3>2, <4>1
    <3>4. CASE paused = model.paused /\ Silent
      BY <2>2, <2>5, <3>1, <3>4
    <3> QED
      BY <2>1, <3>3, <3>4
  <2>6. CASE paused' = paused /\ events' = events
    BY <2>1, <2>6
  <2> QED
    BY <1>3, <1>5, <2>4, <2>5, <2>6, PausedMoves
<1> QED
  BY <1>4, <1>5

-----------------------------------------------------------------------------
(* The settings: what the tray was told.                                   *)

\* The last report of a setting that waits for the tray says what the setting is; when none
\* waits, the model says it.  A post that failed excuses its setting.
SettingsTold ==
    window = "open" => \A s \in Settings \ ghost.unposted :
      \/ \E i \in 1..Len(inbox) :
            /\ IsSet(inbox[i], s) /\ inbox[i].value[2] = actual[s]
            /\ \A j \in 1..Len(inbox) : j > i => ~IsSet(inbox[j], s)
      \/ model.shown[s] = actual[s] /\ \A j \in 1..Len(inbox) : ~IsSet(inbox[j], s)

\* A window that is open was open.
LEMMA OpenWas ==
    ASSUME [TrayNext]_allVars, window' = "open" PROVE window = "open"
<1>1. CASE TrayStep
  BY <1>1 DEF TrayStep, Dispatch, AddIconReturns, CallReturns, DrainTakes, DrainEnds,
     BalloonReturns, SendEvent, BlockCalls, WaitBegins, WaitReturns, MenuQuits, LoopEnds,
     DestroyWindow
<1>2. CASE DaemonStep
  BY <1>2 DEF DaemonStep, DaemonTop, DaemonWaits, DaemonNotifies, DaemonPosts, DaemonChanges,
     DaemonTurns, TakesEvent, OnCapture, OnPausedChanged, OnToggle, OnExit, DaemonTicks,
     Teardown, SignalDrained, StopTray, JoinTray, trayVars
<1>3. CASE DeadlinePasses \/ Timeouts \/ Others \/ Ended \/ UNCHANGED allVars
  BY <1>3 DEF DeadlinePasses, Timeouts, WaitReturns, JoinTray, Others, IconUsed, MenuCloses,
     SystemSends, ShellRestarts, HotkeyPressed, HotkeyChecks, HotkeySends, WorkerSteps, Ended,
     allVars, trayVars
<1> QED
  BY <1>1, <1>2, <1>3 DEF TrayNext

\* A setting changes where the daemon changes it.
LEMMA ActualMoves ==
    ASSUME [TrayNext]_allVars PROVE actual' = actual \/ DaemonChanges \/ OnToggle
<1>1. CASE TrayStep
  BY <1>1 DEF TrayStep, Dispatch, AddIconReturns, CallReturns, DrainTakes, DrainEnds,
     BalloonReturns, SendEvent, BlockCalls, WaitBegins, WaitReturns, MenuQuits, LoopEnds,
     DestroyWindow, daemonVars
<1>2. CASE DaemonStep
  BY <1>2 DEF DaemonStep, DaemonTop, DaemonWaits, DaemonNotifies, DaemonPosts, DaemonTurns,
     OnCapture, OnPausedChanged, OnExit, DaemonTicks, Teardown, SignalDrained, StopTray,
     JoinTray
<1>3. CASE DeadlinePasses \/ Timeouts \/ Others \/ Ended \/ UNCHANGED allVars
  BY <1>3 DEF DeadlinePasses, Timeouts, WaitReturns, JoinTray, Others, IconUsed, MenuCloses,
     SystemSends, ShellRestarts, HotkeyPressed, HotkeyChecks, HotkeySends, WorkerSteps, Ended,
     allVars, daemonVars
<1> QED
  BY <1>1, <1>2, <1>3 DEF TrayNext

\* A change of a setting, whoever asks for it: the event names one of them.
LEMMA ChangeIs ==
    ASSUME TrayShapes, DaemonChanges \/ OnToggle
    PROVE  /\ model' = model /\ pending' = pending
           /\ \/ actual' = actual /\ inbox' = inbox /\ ghost' = ghost
              \/ \E s \in Settings, g \in Ghosts : g.unposted = ghost.unposted /\ Change(s, g)
<1> USE DEF TrayShapes, GhostTyped
<1>1. CASE DaemonChanges
  <2>1. Chose(ghost) \in Ghosts /\ Chose(ghost).unposted = ghost.unposted
    BY ChoseIs
  <2>2. PICK s \in Settings : Change(s, Chose(ghost))
    BY <1>1 DEF DaemonChanges
  <2>3. model' = model /\ pending' = pending
    BY <1>1 DEF DaemonChanges, trayVars
  <2> QED
    BY <2>1, <2>2, <2>3
<1>2. CASE OnToggle
  <2>1. Head(events) \in Events /\ Head(events).kind = "Toggle"
    BY <1>2, TakenIs DEF OnToggle
  <2>2. Head(events).value \in Settings
    BY <2>1 DEF Events
  <2>3. model' = model /\ pending' = pending
    BY <1>2 DEF OnToggle, TakesEvent, trayVars
  <2>4. Change(Head(events).value, ghost) \/ UNCHANGED <<inbox, actual, ghost>>
    BY <1>2 DEF OnToggle
  <2> QED
    BY <2>2, <2>3, <2>4
<1> QED
  BY <1>1, <1>2

\* One more message joins the line: what was last stays last, unless it is about the same.
LEMMA ToldStays ==
    ASSUME NEW line \in Seq(Posts), NEW msg \in Posts, NEW s, ~IsSet(msg, s), NEW v, NEW shown
    PROVE  LET more == Append(line, msg) IN
           /\ (\E i \in 1..Len(line) :
                  /\ IsSet(line[i], s) /\ line[i].value[2] = v
                  /\ \A j \in 1..Len(line) : j > i => ~IsSet(line[j], s))
                => \E i \in 1..Len(more) :
                      /\ IsSet(more[i], s) /\ more[i].value[2] = v
                      /\ \A j \in 1..Len(more) : j > i => ~IsSet(more[j], s)
           /\ (\A j \in 1..Len(line) : ~IsSet(line[j], s))
                => \A j \in 1..Len(more) : ~IsSet(more[j], s)
<1> DEFINE more == Append(line, msg)
<1>1. /\ \A i \in 1..Len(line) : i \in 1..Len(more) /\ more[i] = line[i]
      /\ \A i \in 1..Len(more) : i \in 1..Len(line) \/ i = Len(line) + 1
      /\ more[Len(line) + 1] = msg
  BY PushFacts
<1> HIDE DEF more
<1>2. \A j \in 1..Len(more) : IsSet(more[j], s) => j \in 1..Len(line)
  BY <1>1
<1>3. ASSUME NEW i \in 1..Len(line), IsSet(line[i], s), line[i].value[2] = v,
             \A j \in 1..Len(line) : j > i => ~IsSet(line[j], s)
      PROVE  \E k \in 1..Len(more) : /\ IsSet(more[k], s) /\ more[k].value[2] = v
                                     /\ \A j \in 1..Len(more) : j > k => ~IsSet(more[j], s)
  BY <1>1, <1>2, <1>3
<1>4. (\A j \in 1..Len(line) : ~IsSet(line[j], s)) => \A j \in 1..Len(more) : ~IsSet(more[j], s)
  BY <1>1, <1>2
<1>5. (\E i \in 1..Len(line) :
          /\ IsSet(line[i], s) /\ line[i].value[2] = v
          /\ \A j \in 1..Len(line) : j > i => ~IsSet(line[j], s))
        => \E i \in 1..Len(more) : /\ IsSet(more[i], s) /\ more[i].value[2] = v
                                   /\ \A j \in 1..Len(more) : j > i => ~IsSet(more[j], s)
  BY <1>3
<1> QED
  BY <1>4, <1>5 DEF more

\* A report that joins the line is the last of its setting.
LEMMA ToldLast ==
    ASSUME NEW line \in Seq(Posts), NEW msg \in Posts, NEW s, IsSet(msg, s)
    PROVE  LET more == Append(line, msg) IN
           \E i \in 1..Len(more) : /\ IsSet(more[i], s) /\ more[i].value[2] = msg.value[2]
                                   /\ \A j \in 1..Len(more) : j > i => ~IsSet(more[j], s)
<1> DEFINE more == Append(line, msg)
           last == Len(line) + 1
<1>1. /\ Len(line) \in Nat /\ Len(more) = Len(line) + 1
      /\ last \in 1..Len(more) /\ more[last] = msg
  BY PushFacts
<1> HIDE DEF more
<1>2. \A j \in 1..Len(more) : ~(j > last)
  BY <1>1
<1>3. \E i \in 1..Len(more) : /\ IsSet(more[i], s) /\ more[i].value[2] = msg.value[2]
                              /\ \A j \in 1..Len(more) : j > i => ~IsSet(more[j], s)
  BY <1>1, <1>2
<1> QED
  BY <1>3 DEF more

\* What else is posted reports no setting.
LEMMA SetsOnlyChange ==
    ASSUME TrayShapes, [TrayNext]_allVars, ~Dispatch, ~LoopEnds, ~DaemonChanges, ~OnToggle
    PROVE  inbox' = inbox \/ \E msg : InboxGrows(msg) /\ msg.kind # "Set"
<1>1. CASE IconUsed
  <2>1. PICK kind \in {"ContextMenu", "Capture"} : inbox' = Append(inbox, Message(kind, ""))
    BY <1>1 DEF IconUsed
  <2>2. Message(kind, "") \in Posts /\ Message(kind, "").kind # "Set"
    BY DEF Message, Posts
  <2> QED
    BY <2>1, <2>2 DEF InboxGrows
<1>2. CASE DaemonPosts
  <2>1. Message("Notify", "") \in Posts /\ Message("Notify", "").kind # "Set"
    BY DEF Message, Posts
  <2>2. inbox' = inbox \/ inbox' = Append(inbox, Message("Notify", ""))
    BY <1>2 DEF DaemonPosts, Post
  <2> QED
    BY <2>1, <2>2 DEF InboxGrows
<1>3. CASE StopTray
  <2>1. Message("Quit", "") \in Posts /\ Message("Quit", "").kind # "Set"
    BY DEF Message, Posts
  <2>2. inbox' = inbox \/ inbox' = Append(inbox, Message("Quit", ""))
    BY <1>3 DEF StopTray
  <2> QED
    BY <2>1, <2>2 DEF InboxGrows
<1>4. CASE DaemonStep /\ ~DaemonPosts /\ ~StopTray
  BY <1>4 DEF DaemonStep, DaemonTop, DaemonWaits, DaemonNotifies, DaemonTurns, OnCapture,
     OnPausedChanged, OnExit, DaemonTicks, Teardown, SignalDrained, JoinTray
<1>5. CASE ~DaemonStep /\ ~IconUsed
  BY <1>5, InboxMoves DEF TrayShapes
<1> QED
  BY <1>1, <1>2, <1>3, <1>4, <1>5

\* Every step keeps it.
LEMMA SettingsKept ==
    ASSUME TrayShapes, SettingsTold, [TrayNext]_allVars PROVE SettingsTold'
<1> DEFINE Awaits(line, s, v) ==
             \E i \in 1..Len(line) : /\ IsSet(line[i], s) /\ line[i].value[2] = v
                                     /\ \A j \in 1..Len(line) : j > i => ~IsSet(line[j], s)
           Unsaid(line, s) == \A j \in 1..Len(line) : ~IsSet(line[j], s)
<1>1. inbox \in Seq(Posts) /\ GhostTyped /\ TrayTyped /\ DaemonTyped
  BY DEF TrayShapes, InboxTyped
<1>2. SUFFICES ASSUME window' = "open", NEW s \in Settings \ ghost'.unposted
               PROVE  \/ Awaits(inbox', s, actual'[s])
                      \/ model'.shown[s] = actual'[s] /\ Unsaid(inbox', s)
  BY DEF SettingsTold
<1>3. window = "open"
  BY <1>2, OpenWas
<1>4. s \notin ghost.unposted =>
        Awaits(inbox, s, actual[s]) \/ (model.shown[s] = actual[s] /\ Unsaid(inbox, s))
  BY <1>2, <1>3 DEF SettingsTold
<1>5. CASE DaemonChanges \/ OnToggle
  <2>1. model' = model
    BY <1>5, ChangeIs
  <2>2. CASE actual' = actual /\ inbox' = inbox /\ ghost' = ghost
    BY <1>2, <1>4, <2>1, <2>2
  <2>3. ASSUME NEW c \in Settings, NEW g \in Ghosts, g.unposted = ghost.unposted, Change(c, g)
        PROVE  \/ Awaits(inbox', s, actual'[s])
               \/ model'.shown[s] = actual'[s] /\ Unsaid(inbox', s)
    <3> DEFINE msg == Message("Set", <<c, actual'[c]>>)
    <3>1. /\ actual' = [actual EXCEPT ![c] = ~actual[c]] /\ msg \in Posts
          /\ \/ ghost'.unposted = ghost.unposted \ {c} /\ inbox' = Append(inbox, msg)
             \/ inbox' = inbox /\ ghost'.unposted = ghost.unposted \cup {c}
      BY <1>1, <1>3, <2>3, ChangeDoes
    <3>2. \A x : IsSet(msg, x) <=> x = c
      BY DEF IsSet, Message
    <3>3. msg.value[2] = actual'[c]
      BY DEF Message
    <3> HIDE DEF msg
    <3>4. s # c => actual'[s] = actual[s]
      BY <1>1, <3>1 DEF DaemonTyped
    <3>5. CASE inbox' = inbox /\ ghost'.unposted = ghost.unposted \cup {c}
      <4>1. s # c /\ s \notin ghost.unposted
        BY <1>2, <3>5
      <4> QED
        BY <1>4, <2>1, <3>4, <3>5, <4>1
    <3>6. CASE ghost'.unposted = ghost.unposted \ {c} /\ inbox' = Append(inbox, msg)
      <4>1. CASE s = c
        BY <1>1, <3>1, <3>2, <3>3, <3>6, <4>1, ToldLast
      <4>2. CASE s # c
        <5>1. s \notin ghost.unposted
          BY <1>2, <3>6, <4>2
        <5>2. ~IsSet(msg, s)
          BY <3>2, <4>2
        <5>3. CASE Awaits(inbox, s, actual[s])
          <6>1. Awaits(inbox', s, actual[s])
            BY <1>1, <3>1, <3>6, <5>2, <5>3, ToldStays
          <6> QED
            BY <3>4, <4>2, <6>1
        <5>4. CASE model.shown[s] = actual[s] /\ Unsaid(inbox, s)
          <6>1. Unsaid(inbox', s)
            BY <1>1, <3>1, <3>6, <5>2, <5>4, ToldStays
          <6> QED
            BY <2>1, <3>4, <4>2, <5>4, <6>1
        <5> QED
          BY <1>4, <5>1, <5>3, <5>4
      <4> QED
        BY <4>1, <4>2
    <3> QED
      BY <3>1, <3>5, <3>6
  <2> QED
    BY <1>5, <2>2, <2>3, ChangeIs
<1>6. CASE ~DaemonChanges /\ ~OnToggle
  <2>1. actual' = actual
    BY <1>6, ActualMoves
  <2>2. s \notin ghost.unposted
    <3>1. CASE ghost'.unposted = ghost.unposted
      BY <1>2, <3>1
    <3>2. CASE DrainEnds
      <4>1. ghost' = [ghost EXCEPT !.unposted = ghost.unposted \ {"notes"}]
        BY <3>2 DEF DrainEnds
      <4>2. ghost.unposted \ {"notes"} \in SUBSET (Settings \cup {"notes"})
        BY <1>1 DEF GhostTyped, Ghosts
      <4>3. ghost'.unposted = ghost.unposted \ {"notes"}
        BY <1>1, <4>1, <4>2, UnpostedIs DEF GhostTyped
      <4> QED
        BY <1>2, <4>3, SettingsAssumption
    <3>3. CASE DaemonPosts
      <4>1. Message("Notify", "") \in Posts /\ Post(Message("Notify", ""), "notes", ghost)
        BY <3>3 DEF DaemonPosts, Message, Posts
      <4>2. \/ ghost'.unposted = ghost.unposted \ {"notes"}
            \/ ghost'.unposted = ghost.unposted \cup {"notes"}
        BY <1>1, <4>1, PostDoes DEF GhostTyped
      <4> QED
        BY <1>2, <4>2, SettingsAssumption
    <3> QED
      BY <1>6, <3>1, <3>2, <3>3, GhostMoves DEF TrayShapes
  <2>3. Awaits(inbox, s, actual[s]) \/ (model.shown[s] = actual[s] /\ Unsaid(inbox, s))
    BY <1>4, <2>2
  <2>4. CASE Dispatch
    <3>1. PICK t : Posting(model, Head(inbox), t) /\ model' = t[1]
      BY <1>1, <2>4, DispatchDoes DEF TrayShapes
    <3>2. /\ inbox # <<>> /\ Head(inbox) \in Posts /\ inbox' = Tail(inbox)
      BY <1>1, <2>4, DispatchDoes DEF TrayShapes
    <3>3. /\ Head(inbox) = inbox[1] /\ 1 \in 1..Len(inbox)
          /\ \A j \in 1..Len(inbox') : j + 1 \in 1..Len(inbox) /\ inbox'[j] = inbox[j + 1]
          /\ \A i \in 1..Len(inbox) :
                i = 1 \/ (i - 1 \in 1..Len(inbox') /\ inbox'[i - 1] = inbox[i])
      BY <1>1, <3>2, PopFacts
    <3>4. model'.shown = IF Head(inbox).kind = "Set"
                         THEN [model.shown EXCEPT ![Head(inbox).value[1]] = Head(inbox).value[2]]
                         ELSE model.shown
      BY <3>1 DEF Posting
    <3>5. model.shown \in [Settings -> BOOLEAN]
      BY <1>1 DEF TrayTyped, TrayModels
    <3>6. IsSet(inbox[1], s) => model'.shown[s] = inbox[1].value[2]
      BY <1>2, <3>3, <3>4, <3>5 DEF IsSet
    <3>7. ~IsSet(inbox[1], s) => model'.shown[s] = model.shown[s]
      <4>1. CASE Head(inbox).kind = "Set"
        <5>1. Head(inbox).value[1] \in Settings
          BY <3>2, <4>1 DEF Posts
        <5> QED
          BY <1>2, <3>3, <3>4, <3>5, <4>1, <5>1 DEF IsSet
      <4>2. CASE Head(inbox).kind # "Set"
        BY <3>4, <4>2
      <4> QED
        BY <4>1, <4>2
    <3>8. CASE Awaits(inbox, s, actual[s])
      <4>1. PICK i \in 1..Len(inbox) :
               /\ IsSet(inbox[i], s) /\ inbox[i].value[2] = actual[s]
               /\ \A j \in 1..Len(inbox) : j > i => ~IsSet(inbox[j], s)
        BY <3>8
      <4>2. CASE i = 1
        <5>1. Unsaid(inbox', s)
          BY <3>3, <4>1, <4>2
        <5> QED
          BY <2>1, <3>6, <4>1, <4>2, <5>1
      <4>3. CASE i # 1
        <5>1. i - 1 \in 1..Len(inbox') /\ inbox'[i - 1] = inbox[i]
          BY <3>3, <4>3
        <5>2. \A j \in 1..Len(inbox') : j > i - 1 => ~IsSet(inbox'[j], s)
          BY <3>3, <4>1
        <5> QED
          BY <2>1, <4>1, <5>1, <5>2
      <4> QED
        BY <4>2, <4>3
    <3>9. CASE model.shown[s] = actual[s] /\ Unsaid(inbox, s)
      BY <2>1, <3>3, <3>7, <3>9
    <3> QED
      BY <2>3, <3>8, <3>9
  <2>5. CASE ~Dispatch
    <3>1. model'.shown = model.shown
      BY <2>5, PendingMoves DEF Pops, Adds
    <3>2. CASE inbox' = inbox
      BY <2>1, <2>3, <3>1, <3>2
    <3>3. CASE \E msg : InboxGrows(msg) /\ msg.kind # "Set"
      <4>1. PICK msg : InboxGrows(msg) /\ msg.kind # "Set"
        BY <3>3
      <4>2. msg \in Posts /\ inbox' = Append(inbox, msg) /\ ~IsSet(msg, s)
        BY <4>1 DEF InboxGrows, IsSet
      <4>3. CASE Awaits(inbox, s, actual[s])
        <5>2. PICK i \in 1..Len(inbox) :
                 /\ IsSet(inbox[i], s) /\ inbox[i].value[2] = actual[s]
                 /\ \A j \in 1..Len(inbox) : j > i => ~IsSet(inbox[j], s)
          BY <4>3
        <5>3. /\ \A j \in 1..Len(inbox) : j \in 1..Len(inbox') /\ inbox'[j] = inbox[j]
              /\ \A j \in 1..Len(inbox') : j \in 1..Len(inbox) \/ inbox'[j] = msg
          BY <1>1, <4>2, PushFacts
        <5>1. Awaits(inbox', s, actual[s])
          BY <4>2, <5>2, <5>3
        <5> QED
          BY <2>1, <5>1
      <4>4. CASE model.shown[s] = actual[s] /\ Unsaid(inbox, s)
        <5>1. Unsaid(inbox', s)
          BY <1>1, <4>2, <4>4, ToldStays
        <5> QED
          BY <2>1, <3>1, <4>4, <5>1
      <4> QED
        BY <2>3, <4>3, <4>4
    <3>4. CASE LoopEnds
      BY <1>2, <3>4 DEF LoopEnds
    <3> QED
      BY <1>6, <2>5, <3>2, <3>3, <3>4, SetsOnlyChange DEF TrayShapes
  <2> QED
    BY <2>4, <2>5
<1> QED
  BY <1>5, <1>6

-----------------------------------------------------------------------------
(* A notification waits for somebody.                                      *)

Owed(kind) == \E i \in 1..Len(pending) : pending[i].kind = kind

\* NoNotificationStuck, with the drain that is owed as one of the effects left to do.
NotesWait ==
    notes > 0 /\ model.icon = "Present" /\ window = "open" =>
      \/ "notes" \in ghost.unposted \/ daemonPc = "post"
      \/ \E i \in 1..Len(inbox) : inbox[i].kind = "Notify"
      \/ \E i \in 1..Len(pending) : pending[i].kind = "DrainNotifications"

\* The daemon posts before it goes on.
LEMMA PostStays ==
    ASSUME daemonPc = "post", [TrayNext]_allVars, ~DaemonPosts PROVE daemonPc' = "post"
<1>1. CASE TrayStep
  BY <1>1 DEF TrayStep, Dispatch, AddIconReturns, CallReturns, DrainTakes, DrainEnds,
     BalloonReturns, SendEvent, BlockCalls, WaitBegins, WaitReturns, MenuQuits, LoopEnds,
     DestroyWindow, daemonVars
<1>2. CASE DaemonStep
  BY <1>2 DEF DaemonStep, DaemonTop, DaemonWaits, DaemonNotifies, DaemonChanges, DaemonTurns,
     TakesEvent, OnCapture, OnPausedChanged, OnToggle, OnExit, DaemonTicks, Teardown,
     SignalDrained, StopTray, JoinTray, Steps
<1>3. CASE DeadlinePasses \/ Timeouts \/ Others \/ Ended \/ UNCHANGED allVars
  BY <1>3 DEF DeadlinePasses, Timeouts, WaitReturns, JoinTray, Steps, Others, IconUsed,
     MenuCloses, SystemSends, ShellRestarts, HotkeyPressed, HotkeyChecks, HotkeySends,
     WorkerSteps, Ended, allVars, daemonVars
<1> QED
  BY <1>1, <1>2, <1>3 DEF TrayNext

\* A post that failed is on record until its notifications are taken or posted again.
LEMMA UnpostedStays ==
    ASSUME TrayShapes, [TrayNext]_allVars, "notes" \in ghost.unposted, ~DrainEnds, ~DaemonPosts
    PROVE  "notes" \in ghost'.unposted
<1>1. CASE ghost'.unposted = ghost.unposted
  BY <1>1
<1>2. CASE DaemonChanges \/ OnToggle
  <2>1. CASE ghost' = ghost
    BY <2>1
  <2>2. CASE \E s \in Settings, g \in Ghosts : g.unposted = ghost.unposted /\ Change(s, g)
    <3>1. PICK s \in Settings, g \in Ghosts : g.unposted = ghost.unposted /\ Change(s, g)
      BY <2>2
    <3>2. \/ ghost'.unposted = g.unposted \ {s}
          \/ ghost'.unposted = g.unposted \cup {s}
      BY <3>1, ChangeDoes DEF TrayShapes
    <3>3. s # "notes"
      BY SettingsAssumption
    <3> QED
      BY <3>1, <3>2, <3>3
  <2> QED
    BY <1>2, <2>1, <2>2, ChangeIs
<1> QED
  BY <1>1, <1>2, GhostMoves DEF TrayShapes

\* A drain that is owed stays owed until nothing is left to drain.
LEMMA DrainStays ==
    ASSUME TrayShapes, [TrayNext]_allVars, Owed("DrainNotifications"), ~DrainEnds
    PROVE  \E i \in 1..Len(pending') : pending'[i].kind = "DrainNotifications"
<1>1. TrayTyped /\ pending \in Seq(Tasks)
  BY DEF TrayShapes, TrayTyped
<1>2. PICK k \in 1..Len(pending) : pending[k].kind = "DrainNotifications"
  BY DEF Owed
<1>3. CASE UNCHANGED <<pending, model>>
  BY <1>2, <1>3
<1>4. CASE Pops
  <2>1. /\ pending' = Rest /\ Now = pending[1] /\ Now.kind # "DrainNotifications"
        /\ \A i \in 1..Len(pending) :
              i = 1 \/ (i - 1 \in 1..Len(Rest) /\ Rest[i - 1] = pending[i])
    BY <1>1, <1>4, AtHand DEF Pops
  <2> QED
    BY <1>2, <2>1
<1>5. CASE Dispatch
  <2>1. PICK t : Posting(model, Head(inbox), t) /\ pending' = t[2] \o pending
    BY <1>5, DispatchDoes DEF TrayShapes
  <2>2. t[2] \in Seq(Tasks)
    BY <2>1 DEF Posting
  <2>3. /\ Len(t[2]) + k \in 1..Len(pending') /\ pending'[Len(t[2]) + k] = pending[k]
    BY <1>1, <2>1, <2>2, JoinFacts
  <2> QED
    BY <1>2, <2>3
<1>6. CASE \E fx : Adds(fx)
  <2>1. PICK fx : Adds(fx)
    BY <1>6
  <2>2. ~(k = 1 /\ Running /\ Now.kind \in {"AddIcon", "WaitForSessionDrain"})
    BY <1>1, <1>2, AtHand
  <2>3. \E i \in 1..Len(pending') : pending'[i] = pending[k]
    BY <1>1, <2>1, <2>2, AddedKeeps
  <2> QED
    BY <1>2, <2>3
<1> QED
  BY <1>3, <1>4, <1>5, <1>6, PendingMoves

\* A wake-up that was posted stays, or owes a drain, or the window goes.
LEMMA WakeStays ==
    ASSUME TrayShapes, [TrayNext]_allVars, model.icon = "Present", window' = "open",
           \E i \in 1..Len(inbox) : inbox[i].kind = "Notify"
    PROVE  \/ \E i \in 1..Len(inbox') : inbox'[i].kind = "Notify"
           \/ \E i \in 1..Len(pending') : pending'[i].kind = "DrainNotifications"
<1>1. inbox \in Seq(Posts) /\ pending \in Seq(Tasks)
  BY DEF TrayShapes, InboxTyped, TrayTyped
<1>2. PICK k \in 1..Len(inbox) : inbox[k].kind = "Notify"
  OBVIOUS
<1>3. CASE inbox' = inbox
  BY <1>2, <1>3
<1>4. CASE Dispatch
  <2>1. PICK t : Posting(model, Head(inbox), t) /\ pending' = t[2] \o pending
    BY <1>4, DispatchDoes DEF TrayShapes
  <2>2. inbox # <<>> /\ inbox' = Tail(inbox)
    BY <1>4, DispatchDoes DEF TrayShapes
  <2>3. /\ Head(inbox) = inbox[1]
        /\ \A i \in 1..Len(inbox) :
              i = 1 \/ (i - 1 \in 1..Len(inbox') /\ inbox'[i - 1] = inbox[i])
    BY <1>1, <2>2, PopFacts
  <2>4. CASE k = 1
    <3>1. t[2] \in Seq(Tasks) /\ \E i \in 1..Len(t[2]) : t[2][i].kind = "DrainNotifications"
      BY <1>2, <2>1, <2>3, <2>4 DEF Posting
    <3>2. \A i \in 1..Len(t[2]) : i \in 1..Len(pending') /\ pending'[i] = t[2][i]
      BY <1>1, <2>1, <3>1, JoinFacts
    <3> QED
      BY <3>1, <3>2
  <2>5. CASE k # 1
    BY <1>2, <2>3, <2>5
  <2> QED
    BY <2>4, <2>5
<1>5. CASE \E msg : InboxGrows(msg)
  <2>1. PICK msg : msg \in Posts /\ inbox' = Append(inbox, msg)
    BY <1>5 DEF InboxGrows
  <2>2. k \in 1..Len(inbox') /\ inbox'[k] = inbox[k]
    BY <1>1, <2>1, PushFacts
  <2> QED
    BY <1>2, <2>2
<1>6. CASE LoopEnds
  BY <1>6 DEF LoopEnds
<1> QED
  BY <1>3, <1>4, <1>5, <1>6, InboxMoves DEF TrayShapes

\* An icon that comes back owes a drain.
LEMMA IconOwes ==
    ASSUME TrayShapes, [TrayNext]_allVars, model.icon # "Present", model'.icon = "Present"
    PROVE  \E i \in 1..Len(pending') : pending'[i].kind = "DrainNotifications"
<1>1. CASE Dispatch
  BY <1>1, DispatchDoes DEF TrayShapes, Posting
<1>2. CASE \E fx : Adds(fx)
  <2>1. PICK fx : Adds(fx)
    BY <1>2
  <2> QED
    BY <2>1, AddedKeeps DEF Adds, TrayShapes
<1> QED
  BY <1>1, <1>2, PendingMoves DEF Pops

\* Every step keeps it.
LEMMA NotesKept ==
    ASSUME TrayShapes, NotesWait, [TrayNext]_allVars PROVE NotesWait'
<1>1. SUFFICES ASSUME notes' > 0, model'.icon = "Present", window' = "open"
               PROVE  \/ "notes" \in ghost'.unposted \/ daemonPc' = "post"
                      \/ \E i \in 1..Len(inbox') : inbox'[i].kind = "Notify"
                      \/ \E i \in 1..Len(pending') : pending'[i].kind = "DrainNotifications"
  BY DEF NotesWait
<1>2. window = "open"
  BY <1>1, OpenWas
<1>3. /\ inbox \in Seq(Posts) /\ ghost \in Ghosts /\ notes \in 0..NoteCapacity
      /\ NoteCapacity \in Nat
  BY BoundAssumption DEF TrayShapes, InboxTyped, GhostTyped, ChannelsTyped
<1>4. CASE DaemonPosts
  <2> DEFINE msg == Message("Notify", "")
  <2>1. msg \in Posts /\ msg.kind = "Notify" /\ Post(msg, "notes", ghost)
    BY <1>4 DEF DaemonPosts, Message, Posts
  <2> HIDE DEF msg
  <2>2. \/ inbox' = Append(inbox, msg)
        \/ ghost'.unposted = ghost.unposted \cup {"notes"}
    BY <1>2, <1>3, <2>1, PostDoes
  <2>3. CASE inbox' = Append(inbox, msg)
    <3>1. Len(inbox) + 1 \in 1..Len(inbox') /\ inbox'[Len(inbox) + 1] = msg
      BY <1>3, <2>1, <2>3, PushFacts
    <3> QED
      BY <2>1, <3>1
  <2> QED
    BY <2>2, <2>3
<1>5. CASE DaemonNotifies
  <2>1. CASE notes < NoteCapacity
    BY <1>5, <2>1 DEF DaemonNotifies, Steps
  <2>2. CASE ~(notes < NoteCapacity)
    <3>1. /\ notes' = notes /\ daemonPc # "post" /\ ghost' = Chose(ghost)
          /\ UNCHANGED <<inbox, pending, model>>
      BY <1>5, <2>2 DEF DaemonNotifies, Steps, trayVars
    <3>2. ghost'.unposted = ghost.unposted
      BY <1>3, <3>1, ChoseIs
    <3> QED
      BY <1>1, <1>2, <3>1, <3>2 DEF NotesWait
  <2> QED
    BY <2>1, <2>2
<1>6. CASE ~DaemonPosts /\ ~DaemonNotifies
  <2>1. notes > 0 /\ ~DrainEnds
    <3>1. ~DrainEnds
      BY <1>1 DEF DrainEnds
    <3>2. CASE notes' = notes
      BY <1>1, <3>1, <3>2
    <3>3. CASE DrainTakes
      BY <3>1, <3>3 DEF DrainTakes
    <3> QED
      BY <1>6, <3>2, <3>3, NotesMove
  <2>2. CASE model.icon # "Present"
    BY <1>1, <2>2, IconOwes
  <2>3. CASE model.icon = "Present"
    <3>1. \/ "notes" \in ghost.unposted \/ daemonPc = "post"
          \/ \E i \in 1..Len(inbox) : inbox[i].kind = "Notify"
          \/ Owed("DrainNotifications")
      BY <1>2, <2>1, <2>3 DEF NotesWait, Owed
    <3>2. CASE "notes" \in ghost.unposted
      BY <1>6, <2>1, <3>2, UnpostedStays
    <3>3. CASE daemonPc = "post"
      BY <1>6, <3>3, PostStays
    <3>4. CASE \E i \in 1..Len(inbox) : inbox[i].kind = "Notify"
      BY <1>1, <2>3, <3>4, WakeStays
    <3>5. CASE Owed("DrainNotifications")
      BY <2>1, <3>5, DrainStays
    <3> QED
      BY <3>1, <3>2, <3>3, <3>4, <3>5
  <2> QED
    BY <2>2, <2>3
<1> QED
  BY <1>4, <1>5, <1>6

-----------------------------------------------------------------------------
(* How many effects of a kind are owed.                                    *)

\* What is counted is finite.
LEMMA OwedFinite ==
    ASSUME TrayTyped, NEW kind
    PROVE  /\ IsFiniteSet({i \in 1..Len(pending) : pending[i].kind = kind})
           /\ Owing(kind) \in Nat
<1> DEFINE S == {i \in 1..Len(pending) : pending[i].kind = kind}
<1>1. Len(pending) \in Nat
  BY DEF TrayTyped
<1>2. IsFiniteSet(1..Len(pending))
  BY <1>1, FS_Interval
<1>3. IsFiniteSet(S)
  <2>1. S \subseteq 1..Len(pending)
    OBVIOUS
  <2> HIDE DEF S
  <2> QED
    BY <1>2, <2>1, FS_Subset
<1>4. Cardinality(S) \in Nat
  <2> HIDE DEF S
  <2> QED
    BY <1>3, FS_CardinalityType
<1> QED
  BY <1>3, <1>4 DEF Owing

\* None is owed.
LEMMA OwingNone ==
    ASSUME NEW kind, \A i \in 1..Len(pending) : pending[i].kind # kind
    PROVE  Owing(kind) = 0
<1>1. {i \in 1..Len(pending) : pending[i].kind = kind} = {}
  OBVIOUS
<1> QED
  BY <1>1, FS_EmptySet DEF Owing

\* Some is.
LEMMA OwingSome ==
    ASSUME TrayTyped, NEW kind, NEW i \in 1..Len(pending), pending[i].kind = kind
    PROVE  Owing(kind) > 0
<1> DEFINE S == {j \in 1..Len(pending) : pending[j].kind = kind}
<1>1. IsFiniteSet(S) /\ Cardinality(S) \in Nat
  BY OwedFinite DEF Owing
<1>2. S # {}
  OBVIOUS
<1>3. Cardinality(S) # 0
  <2> HIDE DEF S
  <2> QED
    BY <1>1, <1>2, FS_EmptySet
<1> QED
  BY <1>1, <1>3 DEF Owing

\* One is, when it has one place.
LEMMA OwingOne ==
    ASSUME NEW kind, NEW i \in 1..Len(pending), pending[i].kind = kind,
           \A j \in 1..Len(pending) : pending[j].kind = kind => j = i
    PROVE  Owing(kind) = 1
<1>1. {j \in 1..Len(pending) : pending[j].kind = kind} = {i}
  OBVIOUS
<1>2. Cardinality({i}) = 1
  BY FS_Singleton
<1> QED
  BY <1>1, <1>2 DEF Owing

-----------------------------------------------------------------------------
(* The theorems.                                                           *)

TrayInv == /\ TrayShapes /\ LateKnown /\ MenuLast /\ BlocksAgree
           /\ PauseTold /\ SettingsTold /\ NotesWait

\* It holds when the tray's thread starts.
LEMMA TrayInvInit == TrayInit => TrayInv
<1> SUFFICES ASSUME TrayInit PROVE TrayInv
  OBVIOUS
<1>1. TrayShapes
  BY TrayShapesInit
<1>2. Len(pending) = 0 /\ Len(inbox) = 0 /\ Len(events) = 0
  BY NoneFacts DEF TrayInit
<1>3. /\ window = "open" /\ blocks = 0 /\ notes = 0 /\ hotkey = "idle" /\ paused = FALSE
      /\ ghost.late = FALSE
  BY DEF TrayInit
<1>4. model.session = "Idle" /\ model.paused = FALSE /\ model.shown = actual
  BY DEF TrayInit
<1>5. LateKnown
  BY <1>3 DEF LateKnown, LatePressesProduceNothing
<1>6. MenuLast
  BY <1>2 DEF MenuLast
<1>7. BlocksAgree
  BY <1>2, <1>3, <1>4 DEF BlocksAgree, Settles
<1>8. PauseTold
  <2>1. 1..Len(pending) = {} /\ 1..Len(events) = {}
    BY <1>2
  <2>2. paused = model.paused
    BY <1>3, <1>4
  <2> QED
    BY <2>1, <2>2 DEF PauseTold
<1>9. SettingsTold
  BY <1>2, <1>4 DEF SettingsTold
<1>10. NotesWait
  BY <1>3 DEF NotesWait
<1> QED
  BY <1>1, <1>5, <1>6, <1>7, <1>8, <1>9, <1>10 DEF TrayInv

\* Every step keeps it.
LEMMA TrayInvKept == TrayInv /\ [TrayNext]_allVars => TrayInv'
BY TrayShapesKept, LateKept, MenuLastKept, BlocksKept, PauseKept, SettingsKept, NotesKept
   DEF TrayInv

\* The inductive invariant of the two threads.
THEOREM TrayInvAlways == TraySpec => []TrayInv
BY TrayInvInit, TrayInvKept, PTL DEF TraySpec

\* The tray's model is of its type, one menu is open at most, and Windows is told of one
\* reason at most.
THEOREM TrayTypeCorrect == TraySpec => []TrayTypeOK
<1>1. TrayInv => TrayTypeOK
  <2> SUFFICES ASSUME TrayInv PROVE TrayTypeOK
    OBVIOUS
  <2>1. /\ model \in TrayModels /\ window \in {"open", "closing", "destroyed"}
        /\ shellIcon \in BOOLEAN /\ Len(events) <= EventCapacity /\ notes \in 0..NoteCapacity
        /\ Len(commands) <= CommandCapacity
    BY DEF TrayInv, TrayShapes, TrayTyped, ChannelsTyped, CommandsTyped
  <2>2. blocks \in {0, 1}
    <3>1. CASE \E i \in 1..Len(pending) : pending[i].kind = "CreateBlock"
      BY <3>1 DEF TrayInv, BlocksAgree, Settles
    <3>2. CASE \E i \in 1..Len(pending) : pending[i].kind = "DestroyBlock"
      BY <3>2 DEF TrayInv, BlocksAgree, Settles
    <3>3. CASE \A i \in 1..Len(pending) : pending[i].kind \notin Blocking
      BY <3>3 DEF TrayInv, BlocksAgree, Settles
    <3> QED
      BY <3>1, <3>2, <3>3 DEF Blocking
  <2>3. Owing("ShowMenu") <= 1
    <3>1. CASE \A i \in 1..Len(pending) : pending[i].kind # "ShowMenu"
      BY <3>1, OwingNone
    <3>2. ASSUME NEW i \in 1..Len(pending), pending[i].kind = "ShowMenu"
          PROVE  Owing("ShowMenu") = 1
      <4>1. \A j \in 1..Len(pending) : pending[j].kind = "ShowMenu" => j = i
        BY <3>2 DEF TrayInv, MenuLast
      <4> QED
        BY <3>2, <4>1, OwingOne
    <3> QED
      BY <3>1, <3>2
  <2> QED
    BY <2>1, <2>2, <2>3 DEF TrayTypeOK, TrayModels
<1> QED
  BY <1>1, TrayInvAlways, PTL

\* While the window is open, the menu shows the settings and the pause the daemon has, once
\* nothing is under way between the threads and nothing was lost.
THEOREM MenuAlwaysTellsTheTruth == TraySpec => []MenuTellsTheTruth
<1>1. TrayInv => MenuTellsTheTruth
  <2> SUFFICES ASSUME TrayInv, window = "open" PROVE MenuTellsTheTruth
    BY DEF MenuTellsTheTruth
  <2>1. ASSUME NEW s \in Settings \ ghost.unposted
        PROVE  (\E i \in 1..Len(inbox) : IsSet(inbox[i], s)) \/ model.shown[s] = actual[s]
    BY <2>1 DEF TrayInv, SettingsTold
  <2>2. ghost.pauseLost \/ stopRequested \/ Sending("PausedChanged") \/ model.paused = paused
    <3>1. CASE \E i \in 1..Len(pending) : IsPause(pending[i])
      BY <3>1 DEF IsPause, Sending
    <3>2. CASE \E i \in 1..Len(events) : SaysPause(events[i])
      BY <3>2 DEF SaysPause, Sending
    <3> QED
      BY <3>1, <3>2 DEF TrayInv, PauseTold
  <2> QED
    BY <2>1, <2>2 DEF MenuTellsTheTruth
<1> QED
  BY <1>1, TrayInvAlways, PTL

\* A notification waits for an icon, or for a post that failed.
THEOREM NoNotificationIsStuck == TraySpec => []NoNotificationStuck
<1>1. TrayInv => NoNotificationStuck
  <2> SUFFICES ASSUME TrayInv PROVE NoNotificationStuck
    OBVIOUS
  <2>1. (\E i \in 1..Len(pending) : pending[i].kind = "DrainNotifications")
          => Owing("DrainNotifications") > 0
    BY OwingSome DEF TrayInv, TrayShapes
  <2> QED
    BY <2>1 DEF TrayInv, NotesWait, NoNotificationStuck
<1> QED
  BY <1>1, TrayInvAlways, PTL

\* Windows holds one reason for a query that is not settled, and none once the tray is gone.
THEOREM BlockReasonAlwaysSettled == TraySpec => []BlockReasonSettled
<1>1. TrayInv => BlockReasonSettled
  <2> SUFFICES ASSUME TrayInv PROVE BlockReasonSettled
    OBVIOUS
  <2>1. BlocksAgree /\ TrayTyped
    BY DEF TrayInv, TrayShapes
  <2>2. blocks + Owing("CreateBlock")
          = (IF model.session = "QueryReceived" THEN 1 ELSE 0) + Owing("DestroyBlock")
    <3>1. ASSUME NEW i \in 1..Len(pending), pending[i].kind = "CreateBlock"
          PROVE  /\ Owing("CreateBlock") = 1 /\ Owing("DestroyBlock") = 0
                 /\ model.session = "QueryReceived" /\ blocks = 0
      <4>1. \A j \in 1..Len(pending) : pending[j].kind = "CreateBlock" => j = i
        BY <2>1, <3>1 DEF BlocksAgree, Settles
      <4>2. model.session = "QueryReceived" /\ blocks = 0
        BY <2>1, <3>1 DEF BlocksAgree, Settles
      <4>3. \A j \in 1..Len(pending) : pending[j].kind # "DestroyBlock"
        BY <2>1, <4>2 DEF BlocksAgree, Settles
      <4> QED
        BY <3>1, <4>1, <4>2, <4>3, OwingOne, OwingNone
    <3>2. ASSUME NEW i \in 1..Len(pending), pending[i].kind = "DestroyBlock"
          PROVE  /\ Owing("DestroyBlock") = 1 /\ Owing("CreateBlock") = 0
                 /\ model.session = "Idle" /\ blocks = 1
      <4>1. \A j \in 1..Len(pending) : pending[j].kind = "DestroyBlock" => j = i
        BY <2>1, <3>2 DEF BlocksAgree, Settles, Waits
      <4>2. model.session = "Idle" /\ blocks = 1
        BY <2>1, <3>2 DEF BlocksAgree, Settles
      <4>3. \A j \in 1..Len(pending) : pending[j].kind # "CreateBlock"
        BY <2>1, <4>2 DEF BlocksAgree, Settles
      <4> QED
        BY <3>2, <4>1, <4>2, <4>3, OwingOne, OwingNone
    <3>3. ASSUME \A i \in 1..Len(pending) : pending[i].kind \notin Blocking
          PROVE  /\ Owing("DestroyBlock") = 0 /\ Owing("CreateBlock") = 0
                 /\ blocks = IF model.session = "Idle" THEN 0 ELSE 1
      BY <2>1, <3>3, OwingNone DEF BlocksAgree, Settles, Blocking
    <3>4. model.session \in {"Idle", "QueryReceived"}
      BY <2>1 DEF TrayTyped, TrayModels
    <3> QED
      BY <3>1, <3>2, <3>3, <3>4 DEF Blocking
  <2>3. TrayGone => blocks = 0
    <3> SUFFICES ASSUME TrayGone PROVE blocks = 0
      OBVIOUS
    <3>1. window = "destroyed" /\ Len(pending) = 0
      BY NoneFacts DEF TrayGone, Running
    <3> QED
      BY <2>1, <3>1 DEF BlocksAgree, Settles
  <2> QED
    BY <2>2, <2>3 DEF BlockReasonSettled
<1> QED
  BY <1>1, TrayInvAlways, PTL

\* A press after the workers were asked to stop offers no work.
THEOREM LatePressesNeverProduce == TraySpec => []LatePressesProduceNothing
<1>1. TrayInv => LatePressesProduceNothing
  BY DEF TrayInv, LateKnown
<1> QED
  BY <1>1, TrayInvAlways, PTL
=============================================================================
