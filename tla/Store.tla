-------------------------------- MODULE Store --------------------------------
(***************************************************************************)
(* One file that several writers update: the daemon's threads and one-shot *)
(* commands, in any number of processes.  Each update takes the advisory   *)
(* lock beside the file, reads the file, applies its change, writes a      *)
(* temporary file, flushes it, and renames it into place.  The lock is a   *)
(* file whose existence is the lock; one left by a process that died is    *)
(* removed by whoever finds it old.                                        *)
(*                                                                         *)
(* The remembered UI state and the capture history are rewritten whole and *)
(* may be created; the user's configuration is edited, and created by an   *)
(* update only if nothing is there.  Two others touch the configuration    *)
(* and take no lock: whoever makes it first (`ensure_default_config`, or   *)
(* an editor) creates it empty, then writes it, and flushes nothing; and   *)
(* the daemon's start moves a damaged one aside.                           *)
(*                                                                         *)
(* A document is the set of updates it holds.  What an update changes, the *)
(* text, attributes, permissions, the names of temporary files and of what *)
(* was moved aside, and the sweeping of both are left out.  The file       *)
(* system is that of Windows: a rename is written through, and refuses in  *)
(* one step what it must not replace.                                      *)
(* A writer that lives finishes before its lock looks old                  *)
(* (LOCK_STALE_AFTER against a few milliseconds of work).                  *)
(***************************************************************************)
EXTENDS Integers, FiniteSets

CONSTANTS
    Writer,      \* one update each
    Starter,     \* one start of the daemon each
    User,        \* what the user's own file holds
    None,        \* no lock
    MaxCrashes   \* bound on processes that die and power cuts

ASSUME WriterAssumption == IsFiniteSet(Writer) /\ User \notin Writer
                           /\ None \notin [of : Writer, old : BOOLEAN]
ASSUME CrashAssumption == MaxCrashes \in Nat

VARIABLES
    mode,        \* "state": rewritten whole; "setting": the configuration
    file,        \* what a reader finds
    disk,        \* what a reader may find instead after a power cut
    lock,        \* the lock file: its writer, and whether it looks old
    pc,          \* what each writer is doing
    copy,        \* the updates in the document it has read
    found,       \* it has read a document, not an absence
    again,       \* set_setting's second attempt
    temporary,   \* its temporary file: "none", "part", "full" or "flushed"
    saved,       \* the updates reported as saved
    robbed,      \* history: a lock in use was removed
    starter,     \* what each start of the daemon is doing
    misplaced,   \* history: a start moved a configuration aside that was not damaged
    hasty,       \* history: an update that had read an empty configuration replaced it
    crashes      \* deaths and power cuts so far

writerVars == <<copy, found, again, temporary>>
startVars == <<starter, misplaced>>
vars == <<mode, file, disk, lock, pc, writerVars, saved, robbed, startVars, hasty, crashes>>

\* "foreign" is what an update cannot read: of the configuration what is not
\* TOML, of the state and the history a newer schema too.  "making" is a
\* configuration created and not yet written, "empty" one whose maker failed,
\* and "torn" an update's document that a power cut left incomplete.
Missing == [kind |-> "missing", holds |-> {}, flushed |-> TRUE]
Foreign == [kind |-> "foreign", holds |-> {}, flushed |-> TRUE]
Torn    == [kind |-> "torn",    holds |-> {}, flushed |-> TRUE]
Making  == [kind |-> "making",  holds |-> {}, flushed |-> FALSE]
Empty   == [kind |-> "empty",   holds |-> {}, flushed |-> TRUE]
Document(updates, flushed) ==
    [kind |-> "document", holds |-> updates, flushed |-> flushed]

Kinds == {"missing", "foreign", "torn", "making", "empty", "document"}
Files == {f \in [kind : Kinds, holds : SUBSET (Writer \cup {User}), flushed : BOOLEAN] :
             f.kind # "document" => f \in {Missing, Foreign, Torn, Making, Empty}}

IsDamaged(f) == f \in {Foreign, Torn}

Holding == {"reading", "opening", "writing", "flushing", "moving", "settling",
            "leaving"}
States  == {"idle", "locking", "checking", "breaking", "waiting"} \cup Holding
           \cup {"ended", "dead"}

TypeOK ==
    /\ mode \in {"state", "setting"}
    /\ {file, disk} \subseteq Files
    /\ lock \in {None} \cup [of : Writer, old : BOOLEAN]
    /\ pc \in [Writer -> States]
    /\ copy \in [Writer -> SUBSET (Writer \cup {User})]
    /\ {found, again} \subseteq [Writer -> BOOLEAN]
    /\ temporary \in [Writer -> {"none", "part", "full", "flushed"}]
    /\ saved \subseteq Writer
    /\ {robbed, misplaced, hasty} \subseteq BOOLEAN
    /\ starter \in [Starter -> {"idle", "judged", "moved", "ended"}]
    /\ crashes \in 0..MaxCrashes

Init ==
    /\ mode \in {"state", "setting"}
    /\ file \in {Missing, Foreign, Document({User}, TRUE)}
    /\ disk = file
    /\ lock = None
    /\ pc = [w \in Writer |-> "idle"]
    /\ copy = [w \in Writer |-> {}]
    /\ found = [w \in Writer |-> FALSE]
    /\ again = [w \in Writer |-> FALSE]
    /\ temporary = [w \in Writer |-> "none"]
    /\ saved = {}
    /\ robbed = FALSE
    /\ starter = [s \in Starter |-> "idle"]
    /\ misplaced = FALSE
    /\ hasty = FALSE
    /\ crashes = 0

Goto(w, where) == pc' = [pc EXCEPT ![w] = where]

\* What an update that is over knew.
Forgets(w) ==
    /\ copy' = [copy EXCEPT ![w] = {}]
    /\ found' = [found EXCEPT ![w] = FALSE]
    /\ again' = [again EXCEPT ![w] = FALSE]
    /\ temporary' = [temporary EXCEPT ![w] = "none"]

-------------------------------------------------------------------------------
(* FileLock.                                                                *)

Begin(w) ==
    /\ pc[w] = "idle"
    /\ Goto(w, "locking")
    /\ UNCHANGED <<mode, file, disk, lock, writerVars, saved, robbed, startVars, hasty, crashes>>

\* create_new: one of the writers that try makes the file.
CreateLock(w) ==
    /\ pc[w] = "locking"
    /\ lock = None
    /\ lock' = [of |-> w, old |-> FALSE]
    /\ Goto(w, "reading")
    /\ UNCHANGED <<mode, file, disk, writerVars, saved, robbed, startVars, hasty, crashes>>

LockExists(w) ==
    /\ pc[w] = "locking"
    /\ lock # None
    /\ Goto(w, "checking")
    /\ UNCHANGED <<mode, file, disk, lock, writerVars, saved, robbed, startVars, hasty, crashes>>

\* Neither made nor there: the directory is gone, the disk is full.
LockRefused(w) ==
    /\ pc[w] = "locking"
    /\ Goto(w, "ended")
    /\ UNCHANGED <<mode, file, disk, lock, writerVars, saved, robbed, startVars, hasty, crashes>>

\* break_stale_lock up to its decision: gone, old, or in use.
CheckLock(w) ==
    /\ pc[w] = "checking"
    /\ Goto(w, IF lock = None THEN "locking"
               ELSE IF lock.old THEN "breaking" ELSE "waiting")
    /\ UNCHANGED <<mode, file, disk, lock, writerVars, saved, robbed, startVars, hasty, crashes>>

\* It removes whatever lock file is there by now.
BreakLock(w) ==
    /\ pc[w] = "breaking"
    /\ Goto(w, IF lock = None THEN "waiting" ELSE "locking")
    /\ lock' = None
    /\ robbed' = (robbed \/ (lock # None /\ ~lock.old))
    /\ UNCHANGED <<mode, file, disk, writerVars, saved, startVars, hasty, crashes>>

\* The deadline of LOCK_TIMEOUT is past, or it is tried again.
WaitForLock(w) ==
    /\ pc[w] = "waiting"
    /\ \/ Goto(w, "locking")
       \/ Goto(w, "ended")
    /\ UNCHANGED <<mode, file, disk, lock, writerVars, saved, robbed, startVars, hasty, crashes>>

\* Drop: whatever lock file is there by now.
ReleaseLock(w) ==
    /\ pc[w] = "leaving"
    /\ Goto(w, "ended")
    /\ Forgets(w)
    /\ lock' = None
    /\ robbed' = (robbed \/ (lock # None /\ lock.of # w))
    /\ UNCHANGED <<mode, file, disk, saved, startVars, hasty, crashes>>

\* A lock looks old long after its writer died.
LockGrowsOld ==
    /\ lock # None
    /\ ~lock.old
    /\ pc[lock.of] = "dead"
    /\ lock' = [lock EXCEPT !.old = TRUE]
    /\ UNCHANGED <<mode, file, disk, pc, writerVars, saved, robbed, startVars, hasty, crashes>>

-------------------------------------------------------------------------------
(* One read-modify-write cycle.                                             *)

\* read_state, read_history, set_setting's read.  A document that cannot be
\* read ends the update, and stays; a configuration with nothing in it yet is
\* a document.
Read(w) ==
    /\ pc[w] = "reading"
    /\ \/ /\ ~IsDamaged(file)
          /\ Goto(w, "opening")
          /\ copy' = [copy EXCEPT ![w] = file.holds]
          /\ found' = [found EXCEPT ![w] = (file # Missing)]
       \/ /\ Goto(w, "leaving")
          /\ UNCHANGED <<copy, found>>
    /\ UNCHANGED <<mode, file, disk, lock, again, temporary, saved, robbed, startVars, hasty, crashes>>

\* create_temporary_file, under a name nobody else uses.
OpenTemporary(w) ==
    /\ pc[w] = "opening"
    /\ \/ Goto(w, "writing") /\ temporary' = [temporary EXCEPT ![w] = "part"]
       \/ Goto(w, "leaving") /\ UNCHANGED temporary
    /\ UNCHANGED <<mode, file, disk, lock, copy, found, again, saved, robbed, startVars, hasty, crashes>>

\* An error of write_all, sync_all or the rename removes the temporary file.
GiveUp(w) ==
    /\ Goto(w, "leaving")
    /\ temporary' = [temporary EXCEPT ![w] = "none"]
    /\ UNCHANGED <<mode, file, disk, lock, copy, found, again, saved, robbed, startVars, hasty, crashes>>

WriteTemporary(w) ==
    /\ pc[w] = "writing"
    /\ \/ /\ Goto(w, "flushing")
          /\ temporary' = [temporary EXCEPT ![w] = "full"]
          /\ UNCHANGED <<mode, file, disk, lock, copy, found, again, saved, robbed, startVars, hasty, crashes>>
       \/ GiveUp(w)

\* Variation: the rename does not wait for the data.
FlushNothing(w) ==
    /\ pc[w] = "flushing"
    /\ Goto(w, "moving")
    /\ UNCHANGED <<mode, file, disk, lock, writerVars, saved, robbed, startVars, hasty, crashes>>

FlushTemporary(w) ==
    /\ pc[w] = "flushing"
    /\ \/ /\ Goto(w, "moving")
          /\ temporary' = [temporary EXCEPT ![w] = "flushed"]
          /\ UNCHANGED <<mode, file, disk, lock, copy, found, again, saved, robbed, startVars, hasty, crashes>>
       \/ GiveUp(w)

\* Variation: a configuration that was not there is written over whatever is.
MayReplaceAlways(w) == TRUE
\* finalize_new for a configuration that was not there, replace_file otherwise.
MayReplace(w) == mode = "state" \/ found[w]

\* It read a configuration that was there and had nothing in it.
ReadEmpty(w) == found[w] /\ copy[w] = {}

MoveIntoPlace(w) ==
    /\ pc[w] = "moving"
    /\ MayReplace(w) \/ file = Missing
    /\ hasty' = (hasty \/ ReadEmpty(w))
    /\ file' = Document(copy[w] \cup {w}, temporary[w] = "flushed")
    /\ temporary' = [temporary EXCEPT ![w] = "none"]
    /\ Goto(w, "settling")
    /\ UNCHANGED <<mode, disk, lock, copy, found, again, saved, robbed, startVars, crashes>>

\* Somebody made the file first: the second attempt reads it.
CreatedByAnother(w) ==
    /\ pc[w] = "moving"
    /\ ~MayReplace(w)
    /\ file # Missing
    /\ temporary' = [temporary EXCEPT ![w] = "none"]
    /\ Goto(w, IF again[w] THEN "leaving" ELSE "reading")
    /\ again' = [again EXCEPT ![w] = TRUE]
    /\ UNCHANGED <<mode, file, disk, lock, copy, found, saved, robbed, startVars, hasty, crashes>>

MoveFails(w) == pc[w] = "moving" /\ GiveUp(w)

\* Write-through or the directory's flush: the rename has reached the disk, and
\* the update is reported saved.
Settle(w) ==
    /\ pc[w] = "settling"
    /\ Goto(w, "leaving")
    /\ disk' = file
    /\ saved' = saved \cup {w}
    /\ UNCHANGED <<mode, file, lock, writerVars, robbed, startVars, hasty, crashes>>

-------------------------------------------------------------------------------
(* Everything else that touches the file.                                   *)

\* ensure_default_config, or an editor's first save: the file is created, and
\* is empty for everybody else until it is written.
MakerCreates ==
    /\ file = Missing
    /\ file' = Making
    /\ UNCHANGED <<mode, disk, lock, pc, writerVars, saved, robbed, startVars, hasty, crashes>>

\* What it writes is not flushed.  A maker whose file was replaced or moved
\* aside meanwhile writes where nobody looks.
MakerWrites ==
    /\ file = Making
    /\ file' = Document({User}, FALSE)
    /\ UNCHANGED <<mode, disk, lock, pc, writerVars, saved, robbed, startVars, hasty, crashes>>

MakerFails ==
    /\ file = Making
    /\ file' = Empty
    /\ UNCHANGED <<mode, disk, lock, pc, writerVars, saved, robbed, startVars, hasty, crashes>>

\* The user saves a configuration that can be read in the place of one that cannot.
UserRepairs ==
    /\ IsDamaged(file)
    /\ file' = Document({User}, FALSE)
    /\ UNCHANGED <<mode, disk, lock, pc, writerVars, saved, robbed, startVars, hasty, crashes>>

StarterGoto(s, where) == starter' = [starter EXCEPT ![s] = where]

\* load_recovering at the daemon's start: what is not TOML will be moved aside.
StartReads(s) ==
    /\ starter[s] = "idle"
    /\ StarterGoto(s, IF IsDamaged(file) THEN "judged" ELSE "ended")
    /\ UNCHANGED <<mode, file, disk, lock, pc, writerVars, saved, robbed, misplaced, hasty,
                   crashes>>

\* It renames whatever is there by now.
Quarantines(s) ==
    /\ starter[s] = "judged" /\ file # Missing
    /\ file' = Missing
    /\ misplaced' = (misplaced \/ ~IsDamaged(file))
    /\ StarterGoto(s, "moved")
    /\ UNCHANGED <<mode, disk, lock, pc, writerVars, saved, robbed, hasty, crashes>>

\* Nothing is there, the rename is refused, or the process dies.
QuarantineEnds(s) ==
    /\ starter[s] = "judged"
    /\ StarterGoto(s, "ended")
    /\ UNCHANGED <<mode, file, disk, lock, pc, writerVars, saved, robbed, misplaced, hasty,
                   crashes>>

\* The rename has been written through.
QuarantineSettles(s) ==
    /\ starter[s] = "moved"
    /\ StarterGoto(s, "ended")
    /\ disk' = file
    /\ UNCHANGED <<mode, file, lock, pc, writerVars, saved, robbed, misplaced, hasty, crashes>>

\* Its lock file stays behind, and a temporary file nobody will look at.
Dies(w) ==
    /\ crashes < MaxCrashes
    /\ crashes' = crashes + 1
    /\ pc[w] \notin {"idle", "ended", "dead"}
    /\ Goto(w, "dead")
    /\ Forgets(w)
    /\ UNCHANGED <<mode, file, disk, lock, saved, robbed, startVars, hasty>>

\* What a power cut may leave of a file that was on its way to the disk.
Remains(f) ==
    LET whole == [f EXCEPT !.flushed = TRUE] IN
    CASE f.flushed -> {f}
      [] f = Making -> {Empty}
      [] ~f.flushed /\ f # Making /\ f.holds \subseteq {User} -> {whole, Empty, Foreign}
      [] OTHER -> {whole, Torn}

\* Everybody dies; a creation or a rename may be undone, data not flushed may
\* be lost, and the lock file may have reached the disk or not.
PowerCut ==
    /\ crashes < MaxCrashes
    /\ crashes' = crashes + 1
    /\ file' \in Remains(file) \cup Remains(disk)
    /\ disk' = file'
    /\ lock' \in {lock, None}
    /\ pc' = [w \in Writer |-> IF pc[w] \in {"idle", "ended"} THEN pc[w] ELSE "dead"]
    /\ copy' = [w \in Writer |-> {}]
    /\ found' = [w \in Writer |-> FALSE]
    /\ again' = [w \in Writer |-> FALSE]
    /\ temporary' = [w \in Writer |-> "none"]
    /\ starter' = [s \in Starter |-> IF starter[s] = "idle" THEN "idle" ELSE "ended"]
    /\ UNCHANGED <<mode, saved, robbed, misplaced, hasty>>

Acquiring(w) ==
    Begin(w) \/ CreateLock(w) \/ LockExists(w) \/ LockRefused(w) \/ CheckLock(w)
    \/ BreakLock(w) \/ WaitForLock(w)

Updating(w) ==
    Read(w) \/ OpenTemporary(w) \/ WriteTemporary(w) \/ FlushTemporary(w)
    \/ MoveIntoPlace(w) \/ CreatedByAnother(w) \/ MoveFails(w) \/ Settle(w)
    \/ ReleaseLock(w)

\* Only the configuration is made, repaired or moved aside.
Unlocked ==
    /\ mode = "setting"
    /\ MakerCreates \/ MakerWrites \/ MakerFails \/ UserRepairs

Starting(s) ==
    /\ mode = "setting"
    /\ StartReads(s) \/ Quarantines(s) \/ QuarantineEnds(s) \/ QuarantineSettles(s)

Next ==
    \/ \E w \in Writer : Acquiring(w) \/ Updating(w) \/ Dies(w)
    \/ \E s \in Starter : Starting(s)
    \/ LockGrowsOld
    \/ Unlocked
    \/ PowerCut

Spec == Init /\ [][Next]_vars

-------------------------------------------------------------------------------
(* Properties.                                                              *)

\* atomic_write's promise and the lock's together: whatever dies and whenever
\* the power goes, no update leaves half a document, and the file holds every
\* update that was reported saved - unless a lock in use was removed, or a
\* start of the daemon moved a configuration aside that had been put in the
\* place of the damaged one it read.
UpdatesSurvive ==
    /\ file.kind # "torn"
    /\ ~robbed /\ ~misplaced => saved \subseteq file.holds

\* No update writes over what it could not read: a file that cannot be read
\* goes away only if a start of the daemon moves it aside or the user repairs
\* it, both of the configuration only.  What the user's file held is in every
\* later version, unless an update had read the configuration between its
\* creation and its first contents, a start moved the wrong one aside, or the
\* power went before those contents had ever been flushed.
UnreadIsKept ==
    [][/\ file = Foreign /\ file' # Foreign =>
            mode = "setting" /\ file' \in {Missing, Document({User}, FALSE)}
       /\ User \in file.holds \ file'.holds =>
            \/ hasty' \/ misplaced'
            \/ crashes' > crashes /\ ~(disk.flushed /\ User \in disk.holds)]_vars

\* What fsio.rs says of break_stale_lock: two processes that both find a lock
\* stale are harmless, since one of them goes back to waiting.
OneUpdaterAtATime ==
    \A v, w \in Writer : pc[v] \in Holding /\ pc[w] \in Holding => v = w
==============================================================================
