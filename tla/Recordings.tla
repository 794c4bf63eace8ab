----------------------------- MODULE Recordings -----------------------------
(***************************************************************************)
(* The daemon's recordings from Record to their file: RecordingHost, the   *)
(* threads it runs on and what happens to a recording nobody has saved     *)
(* when Captastic exits.                                                   *)
(*                                                                         *)
(*   selection thread  starts a recording                                  *)
(*   recorder r        one thread per recording (RecordingPipeline inside) *)
(*   UI thread u       the indicator and the review windows; a host is     *)
(*                     started on demand and a later one may replace it    *)
(*   saver r           encodes an edited recording                         *)
(*   exit              the daemon thread in SelectionWorker::stop_inner,   *)
(*                     which its Drop runs a second time                   *)
(*                                                                         *)
(* The `desktop_ui` mutex is held across a step only by exit, which waits  *)
(* for the UI thread under it; every other use is one atomic step that is  *)
(* disabled meanwhile.  A wait of exit's gives up when its deadline ends:   *)
(* at any moment if "deadline" is a fault, otherwise only on a UI thread   *)
(* that waits for exit itself.  The capture thread, whose frames a         *)
(* recording needs, may be gone from the moment exit begins.  Frames, file *)
(* names and notices are left out.                                         *)
(***************************************************************************)
EXTENDS Integers, Sequences, FiniteSets

CONSTANTS
    Recording,   \* the recordings a run of the daemon is asked for
    Ui,          \* the UI threads it may start
    Fault,       \* what may go wrong: see Faults
    None         \* no recording, no UI thread

ASSUME NoneAssumption == None \notin Recording \cup Ui /\ Recording \cap Ui = {}

\* A PostMessage after its command was queued, a file, a window, the start of a
\* thread, a recording's source, and a wait of exit's that its deadline ends.
Faults == {"post", "file", "window", "thread", "source", "deadline"}
ASSUME FaultAssumption == Fault \subseteq Faults

VARIABLES
    selPc, starting,      \* the selection thread and the request it holds
    active,               \* HostInner::active
    stop,                 \* HostInner::stop: whose flag is there to be raised
    flagged,              \* recordings whose stop flag is raised
    join,                 \* HostInner::join
    exiting,              \* HostInner::exiting
    inMemory,             \* recordings with Destination::Review
    recPc, result,        \* each recorder and how its recording ended
    reviewOpen, waiting,  \* HostInner::reviews
    savers, unsaved,      \* HostInner::savers; drafts a saver has not taken
    saverPc,              \* each saver
    task,                 \* what a recorder or a UI thread does about a review
    host,                 \* the DesktopUi behind the mutex
    uiPc, uiQueue,        \* each UI thread and its commands
    indicator, windows,   \* the border it shows and the reviews it has open
    shared,               \* drafts whose review has been requested, unanswered
    fate,                 \* what has become of each recording
    files,                \* files written for each recording
    exitPc, pass,         \* the exit
    hosting, taken        \* the UI thread and the savers it waits for

selVars    == <<selPc, starting>>
hostVars   == <<active, stop, flagged, join, exiting, inMemory>>
recVars    == <<recPc, result>>
reviewVars == <<reviewOpen, waiting>>
saverVars  == <<savers, unsaved, saverPc>>
uiVars     == <<host, uiPc, uiQueue, indicator, windows>>
endVars    == <<fate, files>>
exitVars   == <<exitPc, pass, hosting, taken>>
vars == <<selVars, hostVars, recVars, reviewVars, saverVars, task,
          uiVars, shared, endVars, exitVars>>

Thread  == Recording \cup Ui     \* the threads a review is concluded on
Answer  == {"edit", "save", "discard", "closed", "failed"}   \* ReviewOutcome
Idle    == [do |-> "idle", rec |-> None, with |-> "none"]
Do(what, r, answer) == [do |-> what, rec |-> r, with |-> answer]
Settled == {"refused", "saved", "edited", "discarded", "failed", "starved"}

Init ==
    /\ selPc = "idle" /\ starting = None
    /\ active = FALSE /\ stop = None /\ flagged = {} /\ join = None
    /\ exiting = FALSE /\ inMemory = {}
    /\ recPc = [r \in Recording |-> "none"]
    /\ result = [r \in Recording |-> "none"]
    /\ reviewOpen = FALSE /\ waiting = <<>>
    /\ savers = {} /\ unsaved = {}
    /\ saverPc = [r \in Recording |-> "none"]
    /\ task = [t \in Thread |-> Idle]
    /\ host = None
    /\ uiPc = [u \in Ui |-> "none"]
    /\ uiQueue = [u \in Ui |-> <<>>]
    /\ indicator = [u \in Ui |-> None]
    /\ windows = [u \in Ui |-> {}]
    /\ shared = {}
    /\ fate = [r \in Recording |-> "none"]
    /\ files = [r \in Recording |-> 0]
    /\ exitPc = "running" /\ pass = 1
    /\ hosting = None /\ taken = {}

-----------------------------------------------------------------------------
(* The mutex around the desktop UI, and what is asked of it.               *)

LockFree == exitPc # "stopHost"

Command(what, r) == [show |-> what, rec |-> r]

\* DesktopUi::request: queued, then posted.
Request(u, what, r) == uiQueue' = [uiQueue EXCEPT ![u] = Append(@, Command(what, r))]

HideIndicator(r) ==
    /\ LockFree
    /\ IF host = None THEN UNCHANGED uiQueue ELSE Request(host, "hide", r)
    /\ UNCHANGED <<host, uiPc, indicator, windows>>

\* A file is written, or cannot be.
Writes(r, good) ==
    \/ fate' = [fate EXCEPT ![r] = good] /\ files' = [files EXCEPT ![r] = @ + 1]
    \/ "file" \in Fault /\ fate' = [fate EXCEPT ![r] = "failed"] /\ UNCHANGED files

-----------------------------------------------------------------------------
(* RecordingHost::start, on the selection thread.                          *)

StopRequested == exitPc # "running"

Confirm(r) ==
    /\ selPc = "idle" /\ ~StopRequested
    /\ recPc[r] = "none" /\ fate[r] = "none"
    /\ selPc' = "start" /\ starting' = r
    /\ UNCHANGED <<hostVars, recVars, reviewVars, saverVars, task,
                   uiVars, shared, endVars, exitVars>>

Leave(pc) == selPc' = pc /\ starting' = None

Refuse ==
    /\ selPc = "start" /\ active
    /\ fate' = [fate EXCEPT ![starting] = "refused"]
    /\ Leave("idle")
    /\ UNCHANGED <<hostVars, recVars, reviewVars, saverVars, task,
                   uiVars, shared, files, exitVars>>

\* Nobody else can claim what is being claimed, so the destination is part of
\* the step.  The Review Recordings switch may be either way by now; set_review
\* does nothing else to a recording.
Claim ==
    /\ selPc = "start" /\ ~active
    /\ active' = TRUE
    /\ selPc' = "publish"
    /\ \E review \in BOOLEAN :
          inMemory' = IF review THEN inMemory \cup {starting} ELSE inMemory
    /\ UNCHANGED <<starting, stop, flagged, join, exiting, recVars,
                   reviewVars, saverVars, task, uiVars, shared, endVars, exitVars>>

\* Not to be reviewed, and no file to be had for it: the claim is given up.
NoDestination ==
    /\ selPc = "start" /\ ~active
    /\ "file" \in Fault
    /\ fate' = [fate EXCEPT ![starting] = "failed"]
    /\ Leave("idle")
    /\ UNCHANGED <<hostVars, recVars, reviewVars, saverVars, task, uiVars, shared,
                   files, exitVars>>

PublishStop ==
    /\ selPc = "publish"
    /\ stop' = starting
    /\ selPc' = "show"
    /\ UNCHANGED <<starting, active, flagged, join, exiting, inMemory, recVars,
                   reviewVars, saverVars, task, uiVars, shared, endVars, exitVars>>

\* show_indicator: a host is started if there is none.  A recording that
\* cannot be shown is stopped at once.
ShowIndicator ==
    /\ selPc = "show" /\ LockFree
    /\ selPc' = "spawn"
    /\ \/ /\ host # None
          /\ Request(host, "show", starting)
          /\ \/ UNCHANGED flagged
             \/ "post" \in Fault /\ flagged' = flagged \cup {starting}
          /\ UNCHANGED <<host, uiPc>>
       \/ \E u \in Ui :
          /\ host = None /\ uiPc[u] = "none"
          /\ host' = u /\ uiPc' = [uiPc EXCEPT ![u] = "running"]
          /\ Request(u, "show", starting)
          /\ UNCHANGED flagged
       \/ /\ host = None /\ "window" \in Fault
          /\ flagged' = flagged \cup {starting}
          /\ UNCHANGED <<host, uiPc, uiQueue>>
    /\ UNCHANGED <<starting, active, stop, join, exiting, inMemory, recVars,
                   reviewVars, saverVars, task, indicator, windows, shared,
                   endVars, exitVars>>

Spawn ==
    /\ selPc = "spawn"
    /\ recPc' = [recPc EXCEPT ![starting] = "record"]
    /\ selPc' = "keepJoin"
    /\ UNCHANGED <<starting, hostVars, result, reviewVars, saverVars, task,
                   uiVars, shared, endVars, exitVars>>

\* The handle of a recording that has ended meanwhile is replaced.
KeepJoin ==
    /\ selPc = "keepJoin"
    /\ join' = starting
    /\ Leave("idle")
    /\ UNCHANGED <<active, stop, flagged, exiting, inMemory, recVars,
                   reviewVars, saverVars, task, uiVars, shared, endVars, exitVars>>

SpawnFails ==
    /\ selPc = "spawn" /\ "thread" \in Fault
    /\ active' = FALSE
    /\ HideIndicator(starting)
    /\ fate' = [fate EXCEPT ![starting] = "failed"]
    /\ Leave("idle")
    /\ UNCHANGED <<stop, flagged, join, exiting, inMemory, recVars, reviewVars,
                   saverVars, task, shared, files, exitVars>>

SelectionLeaves ==
    /\ selPc = "idle" /\ StopRequested
    /\ Leave("gone")
    /\ UNCHANGED <<hostVars, recVars, reviewVars, saverVars, task,
                   uiVars, shared, endVars, exitVars>>

-----------------------------------------------------------------------------
(* RecordingHost::run, on the recorder thread.                             *)

RecorderMoves(r, from, to) ==
    /\ recPc[r] = from
    /\ recPc' = [recPc EXCEPT ![r] = to]

\* Stopped, out of time, its window closed: it is finished.
RecordingFinishes(r) ==
    /\ RecorderMoves(r, "record", "hide")
    /\ result' = [result EXCEPT ![r] = "ok"]
    /\ IF r \in inMemory
       THEN UNCHANGED endVars
       ELSE fate' = [fate EXCEPT ![r] = "saved"] /\ files' = [files EXCEPT ![r] = @ + 1]
    /\ UNCHANGED <<selVars, hostVars, reviewVars, saverVars, task,
                   uiVars, shared, exitVars>>

RecordingFails(r) ==
    /\ "source" \in Fault
    /\ RecorderMoves(r, "record", "hide")
    /\ result' = [result EXCEPT ![r] = "error"]
    /\ UNCHANGED <<selVars, hostVars, reviewVars, saverVars, task,
                   uiVars, shared, endVars, exitVars>>

\* The capture thread has left and the stop flag is not raised: the
\* failed captures exhaust what a recording rides out.
RecordingStarves(r) ==
    /\ StopRequested /\ r \notin flagged
    /\ RecorderMoves(r, "record", "hide")
    /\ result' = [result EXCEPT ![r] = "starved"]
    /\ UNCHANGED <<selVars, hostVars, reviewVars, saverVars, task,
                   uiVars, shared, endVars, exitVars>>

\* Variation: the claim is released with the border, before the flag is cleared.
HideAndRelease(r) ==
    /\ RecorderMoves(r, "hide", "clearStop")
    /\ HideIndicator(r)
    /\ active' = FALSE
    /\ UNCHANGED <<selVars, stop, flagged, join, exiting, inMemory, result,
                   reviewVars, saverVars, task, shared, endVars, exitVars>>

Hide(r) ==
    /\ RecorderMoves(r, "hide", "clearStop")
    /\ HideIndicator(r)
    /\ UNCHANGED <<selVars, hostVars, result, reviewVars, saverVars, task,
                   shared, endVars, exitVars>>

ClearStop(r) ==
    /\ RecorderMoves(r, "clearStop", "clearActive")
    /\ stop' = None
    /\ UNCHANGED <<selVars, active, flagged, join, exiting, inMemory, result,
                   reviewVars, saverVars, task, uiVars, shared, endVars, exitVars>>

ClearActive(r) ==
    /\ RecorderMoves(r, "clearActive", "settle")
    /\ active' = FALSE
    /\ UNCHANGED <<selVars, stop, flagged, join, exiting, inMemory, result,
                   reviewVars, saverVars, task, uiVars, shared, endVars, exitVars>>

\* A draft is reviewed, unless Captastic is exiting by now.
Settle(r) ==
    /\ result[r] = "ok" /\ r \in inMemory
    /\ RecorderMoves(r, "settle", IF exiting THEN "save" ELSE "queue")
    /\ UNCHANGED <<selVars, hostVars, result, reviewVars, saverVars, task,
                   uiVars, shared, endVars, exitVars>>

Announce(r) ==
    /\ result[r] = "ok" => r \notin inMemory
    /\ RecorderMoves(r, "settle", "gone")
    /\ fate' = [fate EXCEPT ![r] = CASE result[r] = "ok" -> "saved"
                                     [] result[r] = "error" -> "failed"
                                     [] OTHER -> "starved"]
    /\ UNCHANGED <<selVars, hostVars, result, reviewVars, saverVars, task,
                   uiVars, shared, files, exitVars>>

SaveAtExit(r) ==
    /\ RecorderMoves(r, "save", "gone")
    /\ Writes(r, "saved")
    /\ UNCHANGED <<selVars, hostVars, result, reviewVars, saverVars, task,
                   uiVars, shared, exitVars>>

\* queue_review: one review at a time.
QueueBehind(r) ==
    /\ reviewOpen
    /\ RecorderMoves(r, "queue", "gone")
    /\ waiting' = Append(waiting, r)
    /\ UNCHANGED <<selVars, hostVars, result, reviewOpen, saverVars, task,
                   uiVars, shared, endVars, exitVars>>

QueueFirst(r) ==
    /\ ~reviewOpen
    /\ RecorderMoves(r, "queue", "flow")
    /\ reviewOpen' = TRUE
    /\ task' = [task EXCEPT ![r] = Do("open", r, "none")]
    /\ UNCHANGED <<selVars, hostVars, result, waiting, saverVars,
                   uiVars, shared, endVars, exitVars>>

RecorderReturns(r) ==
    /\ task[r].do = "idle"
    /\ RecorderMoves(r, "flow", "gone")
    /\ UNCHANGED <<selVars, hostVars, result, reviewVars, saverVars, task,
                   uiVars, shared, endVars, exitVars>>

-----------------------------------------------------------------------------
(* open_review and conclude_review, on a recorder or a UI thread.          *)

Becomes(t, job) == task' = [task EXCEPT ![t] = job]

RequestReview(t) ==
    /\ task[t].do = "open" /\ LockFree /\ host # None
    /\ LET r == task[t].rec IN
       /\ Request(host, "review", r)
       /\ shared' = shared \cup {r}
       /\ \/ Becomes(t, Idle)
          \/ "post" \in Fault /\ Becomes(t, Do("reclaim", r, "none"))
    /\ UNCHANGED <<selVars, hostVars, recVars, reviewVars, saverVars,
                   host, uiPc, indicator, windows, endVars, exitVars>>

\* Variation: concluded here whether or not it was answered.
ReclaimAnyway(t) ==
    /\ task[t].do = "reclaim"
    /\ Becomes(t, Do("conclude", task[t].rec, "closed"))
    /\ shared' = shared \ {task[t].rec}
    /\ UNCHANGED <<selVars, hostVars, recVars, reviewVars, saverVars,
                   uiVars, endVars, exitVars>>

\* The request failed; the draft is concluded here unless it was answered.
Reclaim(t) ==
    /\ task[t].do = "reclaim"
    /\ LET r == task[t].rec IN
       /\ Becomes(t, IF r \in shared THEN Do("conclude", r, "closed") ELSE Idle)
       /\ shared' = shared \ {r}
    /\ UNCHANGED <<selVars, hostVars, recVars, reviewVars, saverVars,
                   uiVars, endVars, exitVars>>

NoHostForReview(t) ==
    /\ task[t].do = "open" /\ LockFree /\ host = None
    /\ Becomes(t, Do("conclude", task[t].rec, "closed"))
    /\ UNCHANGED <<selVars, hostVars, recVars, reviewVars, saverVars,
                   uiVars, shared, endVars, exitVars>>

GoOn(t) == Do("next", None, task[t].with)

\* Save unchanged, Captastic exiting, a review that failed.
ConcludeUnchanged(t) ==
    /\ task[t].do = "conclude" /\ task[t].with \in {"save", "closed", "failed"}
    /\ Writes(task[t].rec, "saved")
    /\ Becomes(t, GoOn(t))
    /\ UNCHANGED <<selVars, hostVars, recVars, reviewVars, saverVars,
                   uiVars, shared, exitVars>>

ConcludeDiscard(t) ==
    /\ task[t].do = "conclude" /\ task[t].with = "discard"
    /\ fate' = [fate EXCEPT ![task[t].rec] = "discarded"]
    /\ Becomes(t, GoOn(t))
    /\ UNCHANGED <<selVars, hostVars, recVars, reviewVars, saverVars,
                   uiVars, shared, files, exitVars>>

SpawnSaver(t) ==
    /\ task[t].do = "conclude" /\ task[t].with = "edit"
    /\ LET r == task[t].rec IN
       /\ unsaved' = unsaved \cup {r}
       /\ saverPc' = [saverPc EXCEPT ![r] = "encode"]
       /\ Becomes(t, Do("push", r, "edit"))
    /\ UNCHANGED <<selVars, hostVars, recVars, reviewVars, savers,
                   uiVars, shared, endVars, exitVars>>

\* The saver thread could not start: edit_failed saves the draft unchanged.
NoSaver(t) ==
    /\ "thread" \in Fault
    /\ task[t].do = "conclude" /\ task[t].with = "edit"
    /\ Writes(task[t].rec, "saved")
    /\ Becomes(t, GoOn(t))
    /\ UNCHANGED <<selVars, hostVars, recVars, reviewVars, saverVars,
                   uiVars, shared, exitVars>>

PushSaver(t) ==
    /\ task[t].do = "push"
    /\ savers' = {s \in savers : saverPc[s] # "gone"} \cup {task[t].rec}
    /\ Becomes(t, GoOn(t))
    /\ UNCHANGED <<selVars, hostVars, recVars, reviewVars, unsaved, saverPc,
                   uiVars, shared, endVars, exitVars>>

\* Variation: nobody looks for a draft that waits.
NextReviewForgotten(t) ==
    /\ task[t].do = "next"
    /\ reviewOpen' = FALSE
    /\ Becomes(t, Idle)
    /\ UNCHANGED <<selVars, hostVars, recVars, waiting, saverVars,
                   uiVars, shared, endVars, exitVars>>

\* The next draft waiting: reviewed, or saved if the last review was closed
\* by exit.
NextReview(t) ==
    /\ task[t].do = "next"
    /\ IF waiting = <<>>
       THEN /\ reviewOpen' = FALSE
            /\ Becomes(t, Idle)
            /\ UNCHANGED waiting
       ELSE /\ waiting' = Tail(waiting)
            /\ reviewOpen' = TRUE
            /\ Becomes(t, IF task[t].with = "closed"
                          THEN Do("conclude", Head(waiting), "closed")
                          ELSE Do("open", Head(waiting), "none"))
    /\ UNCHANGED <<selVars, hostVars, recVars, saverVars,
                   uiVars, shared, endVars, exitVars>>

-----------------------------------------------------------------------------
(* save_edited, on the saver thread.                                       *)

SaverEncodes(r) ==
    /\ saverPc[r] = "encode"
    /\ saverPc' = [saverPc EXCEPT ![r] = IF r \in unsaved THEN "take" ELSE "gone"]
    /\ UNCHANGED <<selVars, hostVars, recVars, reviewVars, savers, unsaved,
                   task, uiVars, shared, endVars, exitVars>>

\* Variation: the draft is written without being taken.
SaverTakesNothing(r) ==
    /\ saverPc[r] = "take"
    /\ saverPc' = [saverPc EXCEPT ![r] = "write"]
    /\ UNCHANGED <<selVars, hostVars, recVars, reviewVars, savers, unsaved,
                   task, uiVars, shared, endVars, exitVars>>

\* Whoever takes the draft saves it.
SaverTakes(r) ==
    /\ saverPc[r] = "take"
    /\ saverPc' = [saverPc EXCEPT ![r] = IF r \in unsaved THEN "write" ELSE "gone"]
    /\ unsaved' = unsaved \ {r}
    /\ UNCHANGED <<selVars, hostVars, recVars, reviewVars, savers,
                   task, uiVars, shared, endVars, exitVars>>

\* As edited; as recorded if the edit failed.
SaverWrites(r) ==
    /\ saverPc[r] = "write"
    /\ \/ Writes(r, "edited")
       \/ "file" \in Fault /\ Writes(r, "saved")
    /\ saverPc' = [saverPc EXCEPT ![r] = "gone"]
    /\ UNCHANGED <<selVars, hostVars, recVars, reviewVars, savers, unsaved,
                   task, uiVars, shared, exitVars>>

-----------------------------------------------------------------------------
(* The desktop UI thread.                                                  *)

UiFree(u) == uiPc[u] \in {"running", "stopping"} /\ task[u].do = "idle"

\* `apply` of the oldest command.  A border or a review may fail to open.
ApplyCommand(u) ==
    /\ UiFree(u) /\ uiQueue[u] # <<>>
    /\ uiQueue' = [uiQueue EXCEPT ![u] = Tail(@)]
    /\ LET what == Head(uiQueue[u]).show
           r    == Head(uiQueue[u]).rec
       IN \/ /\ what = "show"
             /\ \E shown \in {r} \cup (IF "window" \in Fault THEN {None} ELSE {}) :
                   indicator' = [indicator EXCEPT ![u] = shown]
             /\ UNCHANGED <<windows, shared, task>>
          \/ /\ what = "hide"
             /\ indicator' = [indicator EXCEPT ![u] = None]
             /\ UNCHANGED <<windows, shared, task>>
          \/ /\ what = "review"
             /\ windows' = [windows EXCEPT ![u] = @ \cup {r}]
             /\ UNCHANGED <<indicator, shared, task>>
          \/ /\ what = "review" /\ "window" \in Fault
             /\ shared' = shared \ {r}
             /\ IF r \in shared THEN Becomes(u, Do("conclude", r, "failed")) ELSE UNCHANGED task
             /\ UNCHANGED <<indicator, windows>>
    /\ UNCHANGED <<selVars, hostVars, recVars, reviewVars, saverVars,
                   host, uiPc, endVars, exitVars>>

\* Stop on the indicator's bar.
UserStops(u) ==
    /\ UiFree(u) /\ indicator[u] # None
    /\ indicator[u] \notin flagged
    /\ flagged' = flagged \cup {indicator[u]}
    /\ UNCHANGED <<selVars, active, stop, join, exiting, inMemory, recVars,
                   reviewVars, saverVars, task, uiVars, shared, endVars, exitVars>>

\* A review window goes, and its answer is given if its draft is still there.
Answers(u, r, answer) ==
    /\ r \in windows[u]
    /\ windows' = [windows EXCEPT ![u] = @ \ {r}]
    /\ shared' = shared \ {r}
    /\ IF r \in shared THEN Becomes(u, Do("conclude", r, answer)) ELSE UNCHANGED task

UserAnswers(u) ==
    /\ UiFree(u)
    /\ \E r \in windows[u], answer \in {"edit", "save", "discard"} : Answers(u, r, answer)
    /\ UNCHANGED <<selVars, hostVars, recVars, reviewVars, saverVars,
                   host, uiPc, uiQueue, indicator, endVars, exitVars>>

\* Variation: a review that is closed gives no answer.
CloseReviewSilently(u) ==
    /\ UiFree(u) /\ uiPc[u] = "stopping" /\ uiQueue[u] = <<>>
    /\ \E r \in windows[u] : windows' = [windows EXCEPT ![u] = @ \ {r}]
    /\ UNCHANGED <<selVars, hostVars, recVars, reviewVars, saverVars, task, shared,
                   host, uiPc, uiQueue, indicator, endVars, exitVars>>

\* HOST_STOP, posted after every command: the reviews are closed one by one,
\* each keeping its recording.
CloseReview(u) ==
    /\ UiFree(u) /\ uiPc[u] = "stopping" /\ uiQueue[u] = <<>>
    /\ \E r \in windows[u] : Answers(u, r, "closed")
    /\ UNCHANGED <<selVars, hostVars, recVars, reviewVars, saverVars,
                   host, uiPc, uiQueue, indicator, endVars, exitVars>>

UiLeaves(u) ==
    /\ UiFree(u) /\ uiPc[u] = "stopping" /\ uiQueue[u] = <<>> /\ windows[u] = {}
    /\ uiPc' = [uiPc EXCEPT ![u] = "gone"]
    /\ indicator' = [indicator EXCEPT ![u] = None]
    /\ UNCHANGED <<selVars, hostVars, recVars, reviewVars, saverVars, task,
                   host, uiQueue, windows, shared, endVars, exitVars>>

-----------------------------------------------------------------------------
(* Exit, on the daemon thread.                                             *)

ExitMoves(from, to) == exitPc = from /\ exitPc' = to

\* WorkerRegistry::begin_shutdown asks every worker to stop, the capture
\* thread first of all.
ExitBegins ==
    /\ ExitMoves("running", "draining")
    /\ UNCHANGED <<selVars, hostVars, recVars, reviewVars, saverVars, task,
                   uiVars, shared, endVars, pass, hosting, taken>>

\* teardown: the capture thread is joined, or left running.
JoinCapture ==
    /\ ExitMoves("draining", "setExiting")
    /\ UNCHANGED <<selVars, hostVars, recVars, reviewVars, saverVars, task,
                   uiVars, shared, endVars, pass, hosting, taken>>

SetExiting ==
    /\ ExitMoves("setExiting", "raiseStop")
    /\ exiting' = TRUE
    /\ UNCHANGED <<selVars, active, stop, flagged, join, inMemory, recVars,
                   reviewVars, saverVars, task, uiVars, shared, endVars,
                   pass, hosting, taken>>

RaiseStop ==
    /\ ExitMoves("raiseStop", "joinRecording")
    /\ flagged' = IF stop = None THEN flagged ELSE flagged \cup {stop}
    /\ UNCHANGED <<selVars, active, stop, join, exiting, inMemory, recVars,
                   reviewVars, saverVars, task, uiVars, shared, endVars,
                   pass, hosting, taken>>

\* A recording that misses the deadline ends stop_before at once: the edited
\* recordings are not looked at in this pass.
JoinRecording ==
    /\ \/ join = None /\ ExitMoves("joinRecording", "takeSavers")
       \/ join # None /\ recPc[join] = "gone" /\ ExitMoves("joinRecording", "takeSavers")
       \/ join # None /\ recPc[join] # "gone" /\ "deadline" \in Fault
          /\ ExitMoves("joinRecording", "joinSelection")
    /\ join' = None
    /\ UNCHANGED <<selVars, active, stop, flagged, exiting, inMemory, recVars,
                   reviewVars, saverVars, task, uiVars, shared, endVars,
                   pass, hosting, taken>>

TakeSavers ==
    /\ ExitMoves("takeSavers", "joinSavers")
    /\ taken' = savers
    /\ savers' = {}
    /\ UNCHANGED <<selVars, hostVars, recVars, reviewVars, unsaved, saverPc, task,
                   uiVars, shared, endVars, pass, hosting>>

JoinSaver(r) ==
    /\ exitPc = "joinSavers" /\ r \in taken /\ saverPc[r] = "gone"
    /\ taken' = taken \ {r}
    /\ UNCHANGED <<selVars, hostVars, recVars, reviewVars, saverVars, task,
                   uiVars, shared, endVars, exitPc, pass, hosting>>

\* Past the deadline exit saves the draft itself, if the saver has not
\* taken it.
OvertakeSaver(r) ==
    /\ exitPc = "joinSavers" /\ r \in taken /\ saverPc[r] # "gone" /\ "deadline" \in Fault
    /\ taken' = taken \ {r}
    /\ unsaved' = unsaved \ {r}
    /\ IF r \in unsaved THEN Writes(r, "saved") ELSE UNCHANGED endVars
    /\ UNCHANGED <<selVars, hostVars, recVars, reviewVars, savers, saverPc, task,
                   uiVars, shared, exitPc, pass, hosting>>

SaversJoined ==
    /\ taken = {}
    /\ ExitMoves("joinSavers", "joinSelection")
    /\ UNCHANGED <<selVars, hostVars, recVars, reviewVars, saverVars, task,
                   uiVars, shared, endVars, pass, hosting, taken>>

\* The second pass has no selection thread to join.
JoinSelection ==
    /\ selPc = "gone" \/ "deadline" \in Fault \/ pass = 2
    /\ ExitMoves("joinSelection", "takeHost")
    /\ UNCHANGED <<selVars, hostVars, recVars, reviewVars, saverVars, task,
                   uiVars, shared, endVars, pass, hosting, taken>>

\* `if let Some(host) = lock(desktop_ui).take()`: the guard lives until the
\* end of the statement, which waits for the UI thread.
TakeHost ==
    /\ host # None
    /\ ExitMoves("takeHost", "stopHost")
    /\ hosting' = host
    /\ host' = None
    /\ uiPc' = [uiPc EXCEPT ![host] = "stopping"]
    /\ UNCHANGED <<selVars, hostVars, recVars, reviewVars, saverVars, task,
                   uiQueue, indicator, windows, shared, endVars,
                   pass, taken>>

\* Variation: the UI thread is waited for as long as it takes.
EndPassPatient ==
    /\ \/ exitPc = "takeHost" /\ host = None
       \/ exitPc = "stopHost" /\ uiPc[hosting] = "gone"
    /\ hosting' = None
    /\ IF pass = 1
       THEN exitPc' = "setExiting" /\ pass' = 2
       ELSE exitPc' = "done" /\ UNCHANGED pass
    /\ UNCHANGED <<selVars, hostVars, recVars, reviewVars, saverVars, task,
                   uiVars, shared, endVars, taken>>

\* The UI thread is past the deadline, as it is sure to be when it waits for
\* the mutex exit holds.
Overrun(u) == "deadline" \in Fault \/ task[u].do = "open"

\* Dropping the worker at the end of stop_before runs stop_inner once more,
\* with a deadline of its own.
EndPass ==
    /\ \/ exitPc = "takeHost" /\ host = None
       \/ exitPc = "stopHost" /\ (uiPc[hosting] = "gone" \/ Overrun(hosting))
    /\ hosting' = None
    /\ IF pass = 1
       THEN exitPc' = "setExiting" /\ pass' = 2
       ELSE exitPc' = "done" /\ UNCHANGED pass
    /\ UNCHANGED <<selVars, hostVars, recVars, reviewVars, saverVars, task,
                   uiVars, shared, endVars, taken>>

\* The process ends, and every thread with it.
ProcessEnds ==
    /\ ExitMoves("done", "ended")
    /\ UNCHANGED <<selVars, hostVars, recVars, reviewVars, saverVars, task,
                   uiVars, shared, endVars, pass, hosting, taken>>

-----------------------------------------------------------------------------
SelectionStep ==
    \/ \E r \in Recording : Confirm(r)
    \/ Refuse \/ Claim \/ NoDestination \/ PublishStop
    \/ ShowIndicator \/ Spawn \/ KeepJoin \/ SpawnFails \/ SelectionLeaves

FlowStep(t) ==
    \/ RequestReview(t) \/ Reclaim(t) \/ NoHostForReview(t)
    \/ ConcludeUnchanged(t) \/ ConcludeDiscard(t) \/ SpawnSaver(t) \/ NoSaver(t)
    \/ PushSaver(t) \/ NextReview(t)

RecorderStep(r) ==
    \/ RecordingFinishes(r) \/ RecordingFails(r) \/ RecordingStarves(r)
    \/ Hide(r) \/ ClearStop(r) \/ ClearActive(r) \/ Settle(r) \/ Announce(r)
    \/ SaveAtExit(r) \/ QueueBehind(r) \/ QueueFirst(r) \/ RecorderReturns(r)
    \/ FlowStep(r)

SaverStep(r) == SaverEncodes(r) \/ SaverTakes(r) \/ SaverWrites(r)

UiStep(u) == ApplyCommand(u) \/ CloseReview(u) \/ UiLeaves(u) \/ FlowStep(u)

UserStep(u) == UserStops(u) \/ UserAnswers(u)

ExitStep ==
    \/ JoinCapture \/ SetExiting \/ RaiseStop \/ JoinRecording \/ TakeSavers
    \/ \E r \in Recording : JoinSaver(r) \/ OvertakeSaver(r)
    \/ SaversJoined \/ JoinSelection \/ TakeHost \/ EndPass \/ ProcessEnds

RunNext ==
    \/ SelectionStep
    \/ \E r \in Recording : RecorderStep(r) \/ SaverStep(r)
    \/ \E u \in Ui : UiStep(u) \/ UserStep(u)

Next ==
    /\ exitPc # "ended"
    /\ RunNext \/ ExitBegins \/ ExitStep

Spec == Init /\ [][Next]_vars

\* The threads are scheduled; a recording ends, by its time limit if not
\* before; a UI thread answers its messages; exit's deadlines pass.
Threads ==
    /\ WF_vars(SelectionStep /\ exitPc # "ended")
    /\ \A r \in Recording : WF_vars((RecorderStep(r) \/ SaverStep(r)) /\ exitPc # "ended")
    /\ \A u \in Ui : WF_vars(UiStep(u) /\ exitPc # "ended")
    /\ WF_vars(ExitStep /\ exitPc # "ended")

\* A person answers each review sooner or later.
ReviewsAreAnswered == \A u \in Ui : WF_vars(UserAnswers(u))

-----------------------------------------------------------------------------
(* Properties.                                                             *)

\* Every variable stays in its range; a recording is never written twice.
TypeOK ==
    /\ selPc \in {"idle", "start", "publish", "show", "spawn", "keepJoin", "gone"}
    /\ starting \in Recording \cup {None}
    /\ active \in BOOLEAN /\ exiting \in BOOLEAN
    /\ stop \in Recording \cup {None} /\ join \in Recording \cup {None}
    /\ flagged \subseteq Recording /\ inMemory \subseteq Recording
    /\ recPc \in [Recording -> {"none", "record", "hide", "clearStop", "clearActive",
                                "settle", "save", "queue", "flow", "gone"}]
    /\ result \in [Recording -> {"none", "ok", "error", "starved"}]
    /\ reviewOpen \in BOOLEAN /\ waiting \in Seq(Recording)
    /\ savers \subseteq Recording /\ unsaved \subseteq Recording
    /\ saverPc \in [Recording -> {"none", "encode", "take", "write", "gone"}]
    /\ task \in [Thread -> [do : {"idle", "open", "reclaim", "conclude", "push", "next"},
                            rec : Recording \cup {None},
                            with : Answer \cup {"none"}]]
    /\ host \in Ui \cup {None}
    /\ uiPc \in [Ui -> {"none", "running", "stopping", "gone"}]
    /\ uiQueue \in [Ui -> Seq([show : {"show", "hide", "review"}, rec : Recording])]
    /\ indicator \in [Ui -> Recording \cup {None}]
    /\ windows \in [Ui -> SUBSET Recording]
    /\ shared \subseteq Recording
    /\ fate \in [Recording -> Settled \cup {"none"}]
    /\ files \in [Recording -> 0..1]
    /\ exitPc \in {"running", "draining", "setExiting", "raiseStop", "joinRecording",
                   "takeSavers", "joinSavers", "joinSelection", "takeHost", "stopHost",
                   "done", "ended"}
    /\ pass \in {1, 2} /\ hosting \in Ui \cup {None} /\ taken \subseteq Recording

UiAlive(u) == uiPc[u] \in {"running", "stopping"}

RequestedAt(u, r) ==
    r \in windows[u] \/ \E i \in DOMAIN uiQueue[u] : uiQueue[u][i] = Command("review", r)

\* The places a draft can be: each is a thread that will do something about
\* it, or a queue such a thread empties.
Holders(r) ==
    {<<"recorder", s>> : s \in {s \in {r} :
        recPc[s] \in {"hide", "clearStop", "clearActive", "settle", "save", "queue"}}}
    \cup {<<"task", t>> : t \in {t \in Thread :
        task[t].do \in {"open", "conclude"} /\ task[t].rec = r}}
    \cup {<<"waiting", i>> : i \in {i \in DOMAIN waiting : waiting[i] = r /\ reviewOpen}}
    \cup {<<"review", u>> : u \in {u \in Ui :
        r \in shared /\ UiAlive(u) /\ RequestedAt(u, r)}}
    \cup {<<"saver", s>> : s \in {s \in {r} :
        \/ s \in unsaved /\ saverPc[s] \in {"encode", "take"}
        \/ saverPc[s] = "write"}}

\* A finished recording that has not been saved is held exactly once: no
\* order of answers, stops and failed requests makes two threads save it or
\* leaves it with nobody, while the process lives.
OneHolder ==
    \A r \in inMemory :
        result[r] = "ok" =>
            Cardinality(Holders(r)) = IF fate[r] = "none" THEN 1 ELSE 0

\* A recording is settled once and written at most once.
SettledOnce ==
    [][\A r \in Recording :
          /\ fate[r] \in Settled => fate'[r] = fate[r]
          /\ files[r] = 1 => files'[r] = 1]_vars

\* Whoever records can be stopped: one recorder at a time, and while it
\* records, HostInner::stop is its flag, so that exit stops it and not a
\* recording that is over.
Recorder(r) == recPc[r] \in {"record", "hide", "clearStop", "clearActive"}

OneRecorder ==
    /\ \A r, s \in Recording : Recorder(r) /\ Recorder(s) => r = s
    /\ \A r \in Recording :
          /\ Recorder(r) => active
          /\ recPc[r] \in {"record", "hide", "clearStop"} => stop = r

\* What exit may lose: when the process ends, a recording that was started
\* and not settled is in the hands of a thread exit gave up waiting for or
\* never knew of - a recorder, a UI thread, or a saver that is writing or was
\* pushed after exit had taken the savers.
OnlyUnfinishedIsLost ==
    exitPc = "ended" =>
        \A r \in Recording :
            recPc[r] # "none" /\ fate[r] = "none" =>
                \/ \E s \in Recording : recPc[s] \notin {"none", "gone"}
                \/ \E u \in Ui : UiAlive(u)
                \/ saverPc[r] = "write"
                \/ r \in savers

\* With a person to answer each review, every recording is settled unless
\* Captastic exits.
EveryRecordingSettles ==
    ReviewsAreAnswered =>
        \A r \in Recording :
            recPc[r] # "none" ~> (fate[r] \in Settled \/ exitPc # "running")

\* Exit ends whatever the threads are doing: a review nobody answers, a saver
\* that never finishes, a UI thread waiting for the lock exit holds.
ExitEnds == exitPc = "draining" ~> exitPc = "ended"

===============================================================================
