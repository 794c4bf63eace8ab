----------------------------- MODULE CaptureEngine -----------------------------
(***************************************************************************)
(* The capture thread and the parts of the daemon it talks to: the bounded *)
(* command queue, the selection worker with its own bounded queue, the     *)
(* recording thread that borrows the engine, the notices for the           *)
(* notification area, and the event loop that asks for a stop.             *)
(*                                                                         *)
(* Every send between the threads is a try_send: a full queue refuses, and *)
(* what was sent is dropped or handed back.  An attempt moves between the  *)
(* capture thread and the selection worker until it ends; the capture      *)
(* thread counts those the selection worker holds, because leaving at the  *)
(* capture limit would cancel an overlay still in use.                     *)
(*                                                                         *)
(* Delays are abstracted to a choice (an outage's next try becomes due at  *)
(* some moment), engine calls to their class of result, and a press to     *)
(* whether its action may open an overlay.  Pixels, traces, JSON output,   *)
(* the destinations and the editor are left out.                           *)
(***************************************************************************)
EXTENDS Integers, Sequences, FiniteSets

CONSTANTS
    Overlay,            \* presses whose action may open an overlay
    Direct,             \* presses whose action captures without one
    MaxCaptures,        \* --max-captures
    CommandCapacity,    \* daemon.trigger_queue_capacity
    SelectionCapacity,  \* selection.queue_capacity
    NoticeCapacity,     \* capacity of the notice channel
    Retries,            \* CAPTURE_RECOVERY_RETRIES
    NoticeAfter,        \* BACKEND_OUTAGE_NOTICE_ATTEMPTS
    None                \* no attempt, no outage

ASSUME CapacityAssumption ==
    /\ CommandCapacity \in Nat \ {0}
    /\ SelectionCapacity \in Nat \ {0}
    /\ NoticeCapacity \in Nat \ {0}
ASSUME LimitAssumption   == MaxCaptures \in Nat
ASSUME RetryAssumption   == Retries \in Nat /\ NoticeAfter \in Nat \ {0}
ASSUME AttemptAssumption ==
    /\ IsFiniteSet(Overlay) /\ IsFiniteSet(Direct)
    /\ None \notin Overlay \cup Direct
    /\ None \notin [failures : 0..NoticeAfter, waiting : BOOLEAN]

Attempt == Overlay \cup Direct

VARIABLES
    capPc,        \* what the capture thread is doing
    hand,         \* the attempt it is working on
    purpose,      \* what it has called the engine for
    tries,        \* rebuilds inside the current engine call
    engine,       \* `backend` is Some
    recovery,     \* `recovery`: the outage being recovered from, if any
    due,          \* the outage's next_attempt has been reached
    notified,     \* recovery_notified
    attempts,     \* attempts counted against the limit
    inFlight,     \* selections_in_flight
    exitBy,       \* why the capture thread left its loop
    commands,     \* the command queue
    place,        \* where each press and attempt is
    job,          \* what each SelectionJob carries
    selPc,        \* what the selection worker is doing
    selHand,      \* the attempt it is working on
    selQueue,     \* its bounded queue
    recPc,        \* the recording thread; not "off" while `active` is set
    notices,      \* the notice channel
    told,         \* what the notification area last said of the engine
    noticeLost,   \* history: a notice about the engine found the channel full
    daemonPc,     \* the event loop, or what comes after it
    stopping,     \* stop_requested, set for every worker in one pass
    shutdownSent  \* the Shutdown command has been queued

engineVars  == <<engine, recovery, due, notified>>
captureVars == <<capPc, hand, purpose, tries, attempts, inFlight, exitBy>>
jobVars     == <<place, job>>
selVars     == <<selPc, selHand>>
noticeVars  == <<notices, told, noticeLost>>
daemonVars  == <<daemonPc, stopping, shutdownSent>>
vars == <<engineVars, captureVars, commands, jobVars, selVars, selQueue, recPc,
          noticeVars, daemonVars>>

CaptureStates   == {"top", "receiving", "calling", "backoff", "rebuilding",
                    "fatal", "ended"}
Purposes        == {"none", "validate", "capture", "confirm"}
Exits           == {"none", "stop", "limit", "shutdown", "fatal"}
SelectionStates == {"top", "polling", "working", "closing", "ended"}
Places          == {"idle", "pressed", "dropped", "refused",
                    "capturing", "queued", "overlay", "confirmed", "confirming",
                    "closing", "reported", "unreported", "ended"}
JobStates       == {"fresh", "resumed", "terminal"}
NoticeKinds     == {"unavailable", "recovered", "other"}
CommandKinds    == {"trigger", "live", "finished", "frame", "shutdown"}

Cmd(kind, a) == [kind |-> kind, of |-> a]
Outage(n, w) == [failures |-> n, waiting |-> w]

\* after_failure(0, true), and the engine that was there at startup.
Init ==
    /\ \/ engine = TRUE /\ recovery = None
       \/ engine = FALSE /\ recovery = Outage(0, TRUE)
    /\ due = FALSE
    /\ notified = FALSE
    /\ capPc = "top"
    /\ hand = None
    /\ purpose = "none"
    /\ tries = 0
    /\ attempts = 0
    /\ inFlight = 0
    /\ exitBy = "none"
    /\ commands = <<>>
    /\ place = [a \in Attempt |-> "idle"]
    /\ job = [a \in Attempt |-> "fresh"]
    /\ selPc = "top"
    /\ selHand = None
    /\ selQueue = <<>>
    /\ recPc = "off"
    /\ notices = <<>>
    /\ told = "nothing"
    /\ noticeLost = FALSE
    /\ daemonPc = "loop"
    /\ stopping = FALSE
    /\ shutdownSent = FALSE

-------------------------------------------------------------------------------
(* Bounded channels.  A receiver that is gone refuses like a full queue.    *)

CommandRoom   == capPc # "ended" /\ Len(commands) < CommandCapacity
SelectionRoom == selPc # "ended" /\ Len(selQueue) < SelectionCapacity

\* The channel after a try_send of each of the notices in turn.
AfterNotices(sent) ==
    LET all == notices \o sent
    IN  SubSeq(all, 1, IF Len(all) < NoticeCapacity THEN Len(all)
                                                    ELSE NoticeCapacity)

Notify(sent) == notices' = AfterNotices(sent) /\ UNCHANGED <<told, noticeLost>>

\* A notice about the engine: its loss is remembered.
NotifyEngine(kind) ==
    /\ notices' = AfterNotices(<<kind>>)
    /\ noticeLost' = (noticeLost \/ Len(notices) >= NoticeCapacity)
    /\ UNCHANGED told

Move(a, where) == place' = [place EXCEPT ![a] = where]

-------------------------------------------------------------------------------
(* The top of the capture loop: the stop flag, the capture limit, and the   *)
(* next step of an outage.                                                  *)

StopSeenNever == FALSE    \* Variation: the stop flag is not looked at.
StopSeen == stopping

BudgetExhausted == attempts >= MaxCaptures

\* Variation: attempts still held by the selection worker are not waited for.
LimitReachedIgnoringSelections == BudgetExhausted
LimitReached == inFlight = 0 /\ BudgetExhausted

LeaveLoop(why) ==
    /\ capPc' = "ended"
    /\ exitBy' = why
    /\ UNCHANGED <<hand, purpose, tries, attempts, inFlight>>

LeaveOnStop ==
    /\ capPc = "top"
    /\ StopSeen
    /\ LeaveLoop("stop")
    /\ UNCHANGED <<engineVars, commands, jobVars, selVars, selQueue, recPc,
                   noticeVars, daemonVars>>

LeaveAtLimit ==
    /\ capPc = "top"
    /\ ~StopSeen
    /\ LimitReached
    /\ LeaveLoop("limit")
    /\ UNCHANGED <<engineVars, commands, jobVars, selVars, selQueue, recPc,
                   noticeVars, daemonVars>>

\* On to the command queue, past both checks.
GoOn ==
    /\ capPc = "top"
    /\ ~StopSeen
    /\ ~LimitReached
    /\ capPc' = "receiving"
    /\ UNCHANGED <<hand, purpose, tries, attempts, inFlight, exitBy, commands,
                   jobVars, selVars, selQueue, recPc, daemonVars>>

NothingDue ==
    /\ GoOn
    /\ recovery = None \/ ~due
    /\ UNCHANGED <<engineVars, noticeVars>>

\* capture_source_wait: the session or the displays are not back.
SourceNotReady ==
    /\ GoOn
    /\ recovery # None /\ due
    /\ recovery.waiting
    /\ due' = FALSE
    /\ UNCHANGED <<engine, recovery, notified, noticeVars>>

\* Variation: the outage is over and nobody is told.
EngineReturnsSilently ==
    /\ GoOn
    /\ recovery # None /\ due
    /\ engine' = TRUE
    /\ recovery' = None
    /\ due' = FALSE
    /\ notified' = FALSE
    /\ UNCHANGED noticeVars

EngineReturns ==
    /\ GoOn
    /\ recovery # None /\ due
    /\ engine' = TRUE
    /\ recovery' = None
    /\ due' = FALSE
    /\ notified' = FALSE
    /\ IF notified THEN NotifyEngine("recovered") ELSE UNCHANGED noticeVars

\* failed_attempts is only ever compared with the notice threshold.
OneMoreFailure == IF recovery.failures < NoticeAfter THEN recovery.failures + 1
                                                     ELSE NoticeAfter

EngineStaysAway(waiting) ==
    /\ GoOn
    /\ recovery # None /\ due
    /\ engine' = FALSE
    /\ recovery' = Outage(OneMoreFailure, waiting)
    /\ due' = FALSE
    /\ IF ~waiting /\ ~notified /\ OneMoreFailure >= NoticeAfter
         THEN /\ notified' = TRUE
              /\ NotifyEngine("unavailable")
         ELSE UNCHANGED <<notified, noticeVars>>

RetryComesDue ==
    /\ recovery # None
    /\ ~due
    /\ due' = TRUE
    /\ UNCHANGED <<engine, recovery, notified, captureVars, commands, jobVars,
                   selVars, selQueue, recPc, noticeVars, daemonVars>>

-------------------------------------------------------------------------------
(* The command queue.                                                       *)

\* Variation: recv instead of recv_timeout.
ReceiveTimeoutNever == FALSE

\* recv_timeout, used only during an outage.
ReceiveTimeout ==
    /\ capPc = "receiving"
    /\ commands = <<>>
    /\ recovery # None /\ due
    /\ capPc' = "top"
    /\ UNCHANGED <<engineVars, hand, purpose, tries, attempts, inFlight, exitBy,
                   commands, jobVars, selVars, selQueue, recPc, noticeVars,
                   daemonVars>>

\* The capture thread takes the next command, which is of this kind.
Take(kind) ==
    /\ capPc = "receiving"
    /\ commands # <<>>
    /\ Head(commands).kind = kind
    /\ commands' = Tail(commands)

Taken == Head(commands).of

Recording == recPc # "off"

\* Not an attempt: nothing was captured.
RefuseTrigger ==
    /\ Take("trigger")
    /\ Recording
    /\ capPc' = "top"
    /\ Move(Taken, "refused")
    /\ Notify(<<"other">>)
    /\ UNCHANGED <<engineVars, hand, purpose, tries, attempts, inFlight, exitBy,
                   job, selVars, selQueue, recPc, daemonVars>>

\* Ignored without a notice: the limit is spent, an attempt still selecting.
IgnoreTrigger ==
    /\ Take("trigger")
    /\ ~Recording
    /\ BudgetExhausted
    /\ capPc' = "top"
    /\ Move(Taken, "refused")
    /\ UNCHANGED <<engineVars, hand, purpose, tries, attempts, inFlight, exitBy,
                   job, selVars, selQueue, recPc, noticeVars, daemonVars>>

\* An attempt, and already over: the engine is away.
SpendTrigger ==
    /\ Take("trigger")
    /\ ~Recording
    /\ ~BudgetExhausted
    /\ ~engine
    /\ attempts' = attempts + 1
    /\ capPc' = "top"
    /\ Move(Taken, "ended")
    /\ UNCHANGED <<engineVars, hand, purpose, tries, inFlight, exitBy, job,
                   selVars, selQueue, recPc, noticeVars, daemonVars>>

CallEngine(a, what) ==
    /\ capPc' = "calling"
    /\ hand' = a
    /\ purpose' = what
    /\ tries' = 0

\* A press that may open an overlay first has the display list checked.
BeginTrigger ==
    /\ Take("trigger")
    /\ ~Recording
    /\ ~BudgetExhausted
    /\ engine
    /\ attempts' = attempts + 1
    /\ CallEngine(Taken, IF Taken \in Overlay THEN "validate" ELSE "capture")
    /\ Move(Taken, "capturing")
    /\ UNCHANGED <<engineVars, inFlight, exitBy, job, selVars, selQueue, recPc,
                   noticeVars, daemonVars>>

OutageBegins(n, w, soon) ==
    /\ engine' = FALSE
    /\ recovery' = Outage(IF n < NoticeAfter THEN n ELSE NoticeAfter, w)
    /\ due' = soon
    /\ UNCHANGED notified

\* A frame for the recording: one call, no retry.  The reply wakes the
\* recording thread only if it still waits for this request.
TakeFrame(lost) ==
    /\ Take("frame")
    /\ lost => engine
    /\ capPc' = "top"
    /\ recPc' = IF recPc = "awaiting"
                   /\ \A i \in 1..Len(commands') : commands'[i].kind # "frame"
                THEN "running" ELSE recPc
    /\ IF lost THEN OutageBegins(0, FALSE, TRUE) ELSE UNCHANGED engineVars
    /\ UNCHANGED <<hand, purpose, tries, attempts, inFlight, exitBy, jobVars,
                   selVars, selQueue, noticeVars, daemonVars>>

OneFewer == IF inFlight = 0 THEN 0 ELSE inFlight - 1    \* saturating_sub

\* Variation: the count is kept when the job cannot be handed back.
GiveBackKeepingCount(a, state, also) ==
    /\ job' = [job EXCEPT ![a] = state]
    /\ IF SelectionRoom
         THEN /\ selQueue' = Append(selQueue, a)
              /\ Move(a, "queued")
              /\ Notify(also)
         ELSE /\ Move(a, "ended")
              /\ Notify(also \o <<"other">>)
              /\ UNCHANGED selQueue
    /\ UNCHANGED inFlight

\* try_submit of a job that has been round its confirmation capture.
GiveBack(a, state, also) ==
    /\ job' = [job EXCEPT ![a] = state]
    /\ IF SelectionRoom
         THEN /\ selQueue' = Append(selQueue, a)
              /\ Move(a, "queued")
              /\ Notify(also)
              /\ UNCHANGED inFlight
         ELSE /\ inFlight' = OneFewer
              /\ Move(a, "ended")
              /\ Notify(also \o <<"other">>)
              /\ UNCHANGED selQueue

TakeLiveWithoutEngine ==
    /\ Take("live")
    /\ ~engine
    /\ capPc' = "top"
    /\ GiveBack(Taken, "terminal", <<>>)
    /\ UNCHANGED <<engineVars, hand, purpose, tries, attempts, exitBy, selVars,
                   recPc, daemonVars>>

TakeLive ==
    /\ Take("live")
    /\ engine
    /\ CallEngine(Taken, "confirm")
    /\ Move(Taken, "confirming")
    /\ UNCHANGED <<engineVars, attempts, inFlight, exitBy, job, selVars,
                   selQueue, recPc, noticeVars, daemonVars>>

TakeFinished ==
    /\ Take("finished")
    /\ inFlight' = OneFewer
    /\ capPc' = "top"
    /\ Move(Taken, "ended")
    /\ UNCHANGED <<engineVars, hand, purpose, tries, attempts, exitBy, job,
                   selVars, selQueue, recPc, noticeVars, daemonVars>>

TakeShutdown ==
    /\ Take("shutdown")
    /\ LeaveLoop("shutdown")
    /\ UNCHANGED <<engineVars, jobVars, selVars, selQueue, recPc, noticeVars,
                   daemonVars>>

-------------------------------------------------------------------------------
(* capture_with_backend_recovery: up to Retries rebuilds inside one call,   *)
(* for a display-list check, a capture, or a confirmation capture.          *)

\* What the caller does with an error.
CallFails(told_) ==
    /\ hand' = None
    /\ purpose' = "none"
    /\ tries' = 0
    /\ capPc' = "top"
    /\ IF purpose = "confirm"
         THEN GiveBack(hand, "terminal", told_)
         ELSE /\ Move(hand, "ended")
              /\ Notify(told_)
              /\ UNCHANGED <<job, selQueue, inFlight>>
    /\ UNCHANGED <<attempts, exitBy, commands, selVars, recPc, daemonVars>>

\* A failed check always raises a notice; a failed capture only when it is the
\* kind that denies the user the overlay or the confirmed selection.
FailureNotices == IF purpose = "validate" THEN {<<"other">>}
                                          ELSE {<<>>, <<"other">>}

\* AccessLost, DeviceRemoved or TopologyChanged, with a rebuild left.
EngineLost ==
    /\ capPc = "calling"
    /\ tries < Retries
    /\ tries' = tries + 1
    /\ engine' = FALSE
    /\ capPc' = "backoff"
    /\ UNCHANGED <<recovery, due, notified, hand, purpose, attempts, inFlight,
                   exitBy, commands, jobVars, selVars, selQueue, recPc,
                   noticeVars, daemonVars>>

\* The same with none left: an outage, to be retried at once.
EngineLostForGood ==
    /\ capPc = "calling"
    /\ tries = Retries
    /\ OutageBegins(0, FALSE, TRUE)
    /\ \E n \in FailureNotices : CallFails(n)

\* Any other error leaves the engine where it is.
EngineRefuses ==
    /\ capPc = "calling"
    /\ \E n \in FailureNotices : CallFails(n)
    /\ UNCHANGED engineVars

\* Variation: giving up a back-off records no outage.
BackoffStoppedWithoutOutage ==
    /\ capPc = "backoff"
    /\ stopping
    /\ \E n \in FailureNotices : CallFails(n)
    /\ UNCHANGED engineVars

\* wait_for_backoff sees the stop flag: the original error, no engine.
BackoffStopped ==
    /\ capPc = "backoff"
    /\ stopping
    /\ OutageBegins(0, FALSE, TRUE)
    /\ \E n \in FailureNotices : CallFails(n)

BackoffElapsed ==
    /\ capPc = "backoff"
    /\ ~stopping
    /\ capPc' = "rebuilding"
    /\ UNCHANGED <<engineVars, hand, purpose, tries, attempts, inFlight, exitBy,
                   commands, jobVars, selVars, selQueue, recPc, noticeVars,
                   daemonVars>>

Rebuilt ==
    /\ capPc = "rebuilding"
    /\ engine' = TRUE
    /\ capPc' = "calling"
    /\ UNCHANGED <<recovery, due, notified, hand, purpose, tries, attempts,
                   inFlight, exitBy, commands, jobVars, selVars, selQueue,
                   recPc, noticeVars, daemonVars>>

\* The rebuild fails: an outage paced by what the failure was.
NotRebuilt(waiting) ==
    /\ capPc = "rebuilding"
    /\ OutageBegins(tries, waiting, FALSE)
    /\ \E n \in FailureNotices : CallFails(n)

DisplaysCurrent ==
    /\ capPc = "calling"
    /\ purpose = "validate"
    /\ purpose' = "capture"
    /\ tries' = 0
    /\ UNCHANGED <<engineVars, capPc, hand, attempts, inFlight, exitBy, commands,
                   jobVars, selVars, selQueue, recPc, noticeVars, daemonVars>>

CallDone(pc) ==
    /\ capPc = "calling"
    /\ capPc' = pc
    /\ hand' = None
    /\ purpose' = "none"
    /\ tries' = 0
    /\ UNCHANGED <<engineVars, attempts, exitBy, commands, selVars, recPc,
                   daemonVars>>

\* dispatch_output: straight to the destinations; a repeat of the last region
\* goes this way too.
CapturedForDestinations ==
    /\ purpose = "capture"
    /\ CallDone("top")
    /\ Move(hand, "ended")
    /\ UNCHANGED <<inFlight, job, selQueue, noticeVars>>

\* dispatch_selection: the attempt is the selection worker's, or it ends here.
CapturedForOverlay ==
    /\ purpose = "capture"
    /\ hand \in Overlay
    /\ CallDone("top")
    /\ IF SelectionRoom
         THEN /\ selQueue' = Append(selQueue, hand)
              /\ inFlight' = inFlight + 1
              /\ Move(hand, "queued")
         ELSE /\ Move(hand, "ended")
              /\ UNCHANGED <<selQueue, inFlight>>
    /\ UNCHANGED <<job, noticeVars>>

\* The capture cannot be served by this configuration: the daemon stops.
DispatchFails ==
    /\ purpose = "capture"
    /\ CallDone("fatal")
    /\ Move(hand, "ended")
    /\ UNCHANGED <<inFlight, job, selQueue, noticeVars>>

LeaveFatally ==
    /\ capPc = "fatal"
    /\ LeaveLoop("fatal")
    /\ UNCHANGED <<engineVars, commands, jobVars, selVars, selQueue, recPc,
                   noticeVars, daemonVars>>

\* The confirmed pixels, or a display arrangement that no longer matches.
Confirmed(matches) ==
    /\ purpose = "confirm"
    /\ CallDone("top")
    /\ IF matches THEN GiveBack(hand, "resumed", <<>>)
                  ELSE GiveBack(hand, "terminal", <<"other">>)

-------------------------------------------------------------------------------
(* The selection worker.                                                    *)

unseenBySelection == <<engineVars, captureVars, daemonVars>>

SelectionCheckStop ==
    /\ selPc = "top"
    /\ selPc' = IF stopping THEN "ended" ELSE "polling"
    /\ UNCHANGED <<unseenBySelection, commands, jobVars, selHand, selQueue,
                   recPc, noticeVars>>

\* A job that is waiting is taken whether or not a stop has been requested.
SelectionTake ==
    /\ selPc = "polling"
    /\ selQueue # <<>>
    /\ selHand' = Head(selQueue)
    /\ selQueue' = Tail(selQueue)
    /\ Move(Head(selQueue), "overlay")
    /\ selPc' = "working"
    /\ UNCHANGED <<unseenBySelection, commands, job, recPc, noticeVars>>

SelectionPollTimeout ==
    /\ selPc = "polling"
    /\ selQueue = <<>>
    /\ selPc' = IF stopping THEN "ended" ELSE "top"
    /\ UNCHANGED <<unseenBySelection, commands, jobVars, selHand, selQueue,
                   recPc, noticeVars>>

\* The attempt is over and its AttemptCompletion is about to be dropped.
EndSelection(state) ==
    /\ selPc = "working"
    /\ job[selHand] = state
    /\ Move(selHand, "closing")
    /\ selPc' = "closing"
    /\ UNCHANGED <<unseenBySelection, commands, job, selHand, selQueue>>

\* terminal_error, or a job that came back and is published or edited.
FinishReturned ==
    /\ \E state \in {"terminal", "resumed"} : EndSelection(state)
    /\ UNCHANGED <<recPc, noticeVars>>

\* The overlay was cancelled or failed, or its selection was published from
\* pixels already in hand; a display change is also told to the user.
CloseOverlay(sent) ==
    /\ EndSelection("fresh")
    /\ Notify(sent)
    /\ UNCHANGED recPc

\* RecordingHost::start, for a selection confirmed with Record.
StartRecording ==
    /\ \E state \in {"fresh", "resumed"} : EndSelection(state)
    /\ IF Recording
         THEN /\ Notify(<<"other">>)
              /\ UNCHANGED recPc
         ELSE /\ recPc' = "running"
              /\ UNCHANGED noticeVars

\* The live view was confirmed: its pixels are captured now.
ConfirmLive ==
    /\ selPc = "working"
    /\ job[selHand] = "fresh"
    /\ IF CommandRoom
         THEN /\ commands' = Append(commands, Cmd("live", selHand))
              /\ Move(selHand, "confirmed")
              /\ selPc' = "top"
              /\ selHand' = None
              /\ UNCHANGED noticeVars
         ELSE /\ Move(selHand, "closing")
              /\ selPc' = "closing"
              /\ Notify(<<"other">>)
              /\ UNCHANGED <<commands, selHand>>
    /\ UNCHANGED <<unseenBySelection, job, selQueue, recPc>>

\* Drop for AttemptCompletion.
DropCompletion ==
    /\ selPc = "closing"
    /\ selPc' = "top"
    /\ selHand' = None
    /\ IF CommandRoom
         THEN /\ commands' = Append(commands, Cmd("finished", selHand))
              /\ Move(selHand, "reported")
         ELSE /\ Move(selHand, "unreported")
              /\ UNCHANGED commands
    /\ UNCHANGED <<unseenBySelection, job, selQueue, recPc, noticeVars>>

-------------------------------------------------------------------------------
(* The recording thread: a frame at a time, until it is stopped, reaches    *)
(* its time limit, or fails.                                                *)

unseenByRecording == <<engineVars, captureVars, jobVars, selVars, selQueue,
                       noticeVars, daemonVars>>

\* A full queue costs the frame and nothing else.
AskFrame ==
    /\ recPc = "running"
    /\ CommandRoom
    /\ commands' = Append(commands, Cmd("frame", None))
    /\ recPc' = "awaiting"
    /\ UNCHANGED unseenByRecording

FrameTimeout ==
    /\ recPc = "awaiting"
    /\ recPc' = "running"
    /\ UNCHANGED <<unseenByRecording, commands>>

EndRecording ==
    /\ recPc = "running"
    /\ recPc' = "off"
    /\ UNCHANGED <<unseenByRecording, commands>>

-------------------------------------------------------------------------------
(* The hotkey callback, the notification area and the event loop.           *)

unseenByDaemon == <<engineVars, captureVars, job, selVars, selQueue, recPc>>

\* The hotkey callback looks at `paused`; the notification area's Capture does
\* not, so a press may still come once a stop has been requested.
Press(a) ==
    /\ daemonPc = "loop"
    /\ place[a] = "idle"
    /\ IF CommandRoom
         THEN /\ commands' = Append(commands, Cmd("trigger", a))
              /\ Move(a, "pressed")
         ELSE /\ Move(a, "dropped")
              /\ UNCHANGED commands
    /\ UNCHANGED <<unseenByDaemon, noticeVars, daemonVars>>

ShowNotice ==
    /\ daemonPc = "loop"
    /\ notices # <<>>
    /\ notices' = Tail(notices)
    /\ told' = IF Head(notices) = "other" THEN told ELSE Head(notices)
    /\ UNCHANGED <<unseenByDaemon, commands, place, noticeLost, daemonVars>>

\* begin_shutdown, from any of the sources that may ask for it.
RequestShutdown ==
    /\ daemonPc = "loop"
    /\ ~stopping
    /\ stopping' = TRUE
    /\ UNCHANGED <<unseenByDaemon, commands, place, noticeVars, daemonPc,
                   shutdownSent>>

TrySendShutdown ==
    commands' = IF CommandRoom THEN Append(commands, Cmd("shutdown", None))
                               ELSE commands

\* send_capture_shutdown, on every tick until it is delivered.
SendShutdown ==
    /\ daemonPc = "loop"
    /\ stopping /\ ~shutdownSent
    /\ TrySendShutdown
    /\ shutdownSent' = (CommandRoom \/ capPc = "ended")
    /\ UNCHANGED <<unseenByDaemon, place, noticeVars, daemonPc, stopping>>

\* The capture thread reported that it is done, or the shutdown budget is
\* spent.  teardown() requests the stop again and tries the command again.
BeginTeardown ==
    /\ daemonPc = "loop"
    /\ capPc = "ended" \/ stopping
    /\ daemonPc' = "teardown"
    /\ stopping' = TRUE
    /\ TrySendShutdown
    /\ UNCHANGED <<unseenByDaemon, place, noticeVars, shutdownSent>>

\* join_capture_worker_until and its likes poll is_finished until the process
\* ends, with the threads or without them.
TeardownPolls == daemonPc = "teardown" /\ UNCHANGED vars

-------------------------------------------------------------------------------
\* Every step of the capture thread but the two that depend on the desktop.
CaptureStep ==
    \/ LeaveOnStop \/ LeaveAtLimit
    \/ NothingDue \/ SourceNotReady
    \/ \E waiting \in BOOLEAN : EngineStaysAway(waiting) \/ NotRebuilt(waiting)
    \/ EngineReturns
    \/ ReceiveTimeout
    \/ RefuseTrigger \/ IgnoreTrigger \/ SpendTrigger \/ BeginTrigger
    \/ \E lost \in BOOLEAN : TakeFrame(lost)
    \/ TakeLiveWithoutEngine \/ TakeLive
    \/ TakeFinished
    \/ TakeShutdown
    \/ EngineLost \/ EngineLostForGood \/ EngineRefuses
    \/ BackoffStopped \/ BackoffElapsed \/ Rebuilt
    \/ DisplaysCurrent
    \/ CapturedForDestinations \/ CapturedForOverlay \/ DispatchFails
    \/ \E matches \in BOOLEAN : Confirmed(matches)
    \/ LeaveFatally

\* What the selection worker does without waiting for the user.
SelectionStep ==
    \/ SelectionCheckStop
    \/ SelectionTake
    \/ SelectionPollTimeout
    \/ FinishReturned
    \/ DropCompletion

\* What the user does with an overlay.
OverlayStep ==
    \/ \E sent \in {<<>>, <<"other">>} : CloseOverlay(sent)
    \/ StartRecording
    \/ ConfirmLive

RecordingStep == AskFrame \/ FrameTimeout \/ EndRecording

DaemonStep ==
    \/ ShowNotice
    \/ SendShutdown
    \/ BeginTeardown

Next ==
    \/ CaptureStep
    \/ RetryComesDue
    \/ SelectionStep
    \/ OverlayStep
    \/ RecordingStep
    \/ \E a \in Attempt : Press(a)
    \/ RequestShutdown
    \/ DaemonStep
    \/ TeardownPolls

Spec == Init /\ [][Next]_vars

\* The threads are scheduled, engine calls return, an outage's next try comes
\* due, the event loop ticks; a stop cancels an open overlay.
Scheduled ==
    /\ WF_vars(CaptureStep)
    /\ WF_vars(RetryComesDue)
    /\ WF_vars(SelectionStep)
    /\ WF_vars(stopping /\ OverlayStep)
    /\ WF_vars(SendShutdown)
    /\ WF_vars(BeginTeardown)

SpecScheduled == Spec /\ Scheduled

\* The desktop and its devices come back, sooner or later.
DesktopReturns == SF_vars(EngineReturns)

-------------------------------------------------------------------------------
(* Properties.                                                              *)

\* Every variable stays in the range its Rust type and this module give it.
TypeOK ==
    /\ engine \in BOOLEAN
    /\ recovery \in [failures : 0..NoticeAfter, waiting : BOOLEAN] \cup {None}
    /\ due \in BOOLEAN
    /\ notified \in BOOLEAN
    /\ capPc \in CaptureStates
    /\ hand \in Attempt \cup {None}
    /\ purpose \in Purposes
    /\ tries \in 0..Retries
    /\ attempts \in 0..MaxCaptures
    /\ inFlight \in 0..MaxCaptures
    /\ exitBy \in Exits
    /\ commands \in Seq([kind : CommandKinds, of : Attempt \cup {None}])
    /\ Len(commands) <= CommandCapacity
    /\ place \in [Attempt -> Places]
    /\ job \in [Attempt -> JobStates]
    /\ selPc \in SelectionStates
    /\ selHand \in Attempt \cup {None}
    /\ selQueue \in Seq(Attempt)
    /\ Len(selQueue) <= SelectionCapacity
    /\ recPc \in {"off", "running", "awaiting"}
    /\ notices \in Seq(NoticeKinds)
    /\ Len(notices) <= NoticeCapacity
    /\ told \in {"nothing", "unavailable", "recovered"}
    /\ noticeLost \in BOOLEAN
    /\ daemonPc \in {"loop", "teardown"}
    /\ stopping \in BOOLEAN
    /\ shutdownSent \in BOOLEAN

\* The engine is there exactly when no outage is being recovered from, and an
\* engine call always finds it: neither `.expect` of the capture thread
\* (daemon.rs:437, daemon.rs:2453) can panic, and no outage is forgotten, which
\* would leave every later press ignored for good.
EngineOrOutage ==
    /\ capPc \in {"top", "receiving"} => (engine <=> recovery = None)
    /\ capPc \in {"calling", "backoff", "rebuilding"} => recovery = None
    /\ capPc = "calling" => engine

\* What the selection worker holds or has still to report.
Owed(a) ==
    \/ place[a] \in {"queued", "overlay", "confirmed", "confirming", "closing",
                     "reported", "unreported"}

\* selections_in_flight is exact: each attempt handed to the selection worker
\* counts once, through its confirmation capture and back, until its completion
\* is received; only a completion that found the queue full stays counted.
InFlightIsExact == inFlight = Cardinality({a \in Attempt : Owed(a)})

\* Once the channel is drained, the notification area says what the capture
\* thread believes it has said: one notice per outage, one on its recovery.
UserKnowsOfOutage ==
    notices = <<>> /\ ~noticeLost => (notified <=> told = "unavailable")

\* A stop ends both threads, wherever they are: in a back-off, waiting for a
\* command that never comes, or behind an open overlay.
StopEndsThreads == stopping ~> (capPc = "ended" /\ selPc = "ended")

\* An outage ends if the desktop does its part.
OutageEnds ==
    DesktopReturns => (recovery # None ~> (recovery = None \/ capPc = "ended"))

\* The promise of --max-captures, kept by this module.
OpenPlaces == {"capturing", "queued", "overlay", "confirmed", "confirming"}
EndedPlaces == {"closing", "reported", "unreported", "ended"}

Budget == INSTANCE AttemptBudget WITH
    open    <- {a \in Attempt : place[a] \in OpenPlaces},
    closed  <- {a \in Attempt : place[a] \in EndedPlaces},
    verdict <- IF exitBy = "none" THEN "running"
               ELSE IF exitBy = "limit" THEN "limit" ELSE "stopped"

KeepsTheBudget == Budget!Spec

==============================================================================
