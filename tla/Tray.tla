-------------------------------- MODULE Tray --------------------------------
(***************************************************************************)
(* The notification area and the daemon's event loop: two threads that     *)
(* tell each other what changed over lossy channels, and a hotkey callback *)
(* that reads the flags both of them write.                                *)
(*                                                                         *)
(* The tray thread turns every window message into an input of one         *)
(* transition, which changes `model` and hands out effects; the effects    *)
(* run in order afterwards.  Some of them call into Windows, which may     *)
(* deliver another message before it returns, so that a second transition  *)
(* runs inside the effects of the first: `pending` is what is left to do,  *)
(* the innermost first, and an effect that calls out stays at its head     *)
(* until the call returns.  A message that was posted waits for the        *)
(* message loop, or for the loop inside an open menu; a message that is    *)
(* sent (the end of the session, a restarted shell) comes through any call *)
(* but WaitForSessionDrain, which sleeps.                                  *)
(*                                                                         *)
(* Menu entries that only open something are left out, and so are texts    *)
(* and retries of one shell call.  A panic in the window procedure is not  *)
(* modelled.                                                               *)
(***************************************************************************)
EXTENDS Integers, Sequences, FiniteSets

CONSTANTS
    Settings,          \* what the menu shows checked or usable, as the daemon reports it
    EventCapacity,     \* of the channel to the daemon
    NoteCapacity,      \* of the channel to the tray
    CommandCapacity,   \* of the capture worker's queue
    MaxChoices         \* what people, Windows and the daemon's other work do to the two threads

ASSUME BoundAssumption ==
    /\ {EventCapacity, NoteCapacity, CommandCapacity} \subseteq Nat \ {0}
    /\ MaxChoices \in Nat
ASSUME SettingsAssumption == "notes" \notin Settings

VARIABLES
    model,       \* TrayModel
    pending,     \* effects not yet run, innermost first
    inbox,       \* messages posted to the tray's window
    window,      \* the hidden window: open, closing (icon deleted), gone
    shellIcon,   \* whether the shell has the icon
    blocks,      \* shutdown block reasons Windows holds
    events,      \* TrayEvents on their way to the daemon
    notes,       \* notifications on their way to the tray
    daemonPc,    \* the daemon thread
    actual,      \* the settings as they are
    shutdown,    \* begin_shutdown has run, so that the deadline is set
    exitAsked,   \* tray_shutdown_requested
    sessionAsked, drained,   \* the two flags of the session's end
    paused, stopRequested,   \* the flags the hotkey callback reads
    hotkey,      \* the callback: idle, or how far it has come
    commands,    \* the capture worker's queue
    worker,      \* the capture worker: running or done
    ghost        \* what was lost or begun, and the choices made

trayVars == <<model, pending, window, shellIcon, blocks>>
daemonVars == <<daemonPc, actual, shutdown, exitAsked, drained, paused, stopRequested>>
allVars == <<model, pending, inbox, window, shellIcon, blocks, events, notes, daemonPc, actual,
          shutdown, exitAsked, sessionAsked, drained, paused, stopRequested, hotkey,
          commands, worker, ghost>>

Effect(kind, value) == [kind |-> kind, value |-> value]
Message(kind, value) == [kind |-> kind, value |-> value]

\* One more of the bounded number of choices.
Choice == ghost.choices < MaxChoices
Chose(g) == [g EXCEPT !.choices = @ + 1]

-----------------------------------------------------------------------------
(* The transition: the model it leaves and the effects it hands out.       *)

Send(event, value) == <<Effect("SendEvent", Message(event, value))>>

\* Variation: a restored icon does not look for what was withheld.
IconAddForgets(m, restored) ==
    <<[m EXCEPT !.icon = IF restored THEN "Present" ELSE "Degraded"], <<>>>>

IconAddCompleted(m, restored) ==
    IF restored
    THEN <<[m EXCEPT !.icon = "Present"], <<Effect("DrainNotifications", "")>>>>
    ELSE <<[m EXCEPT !.icon = "Degraded"], <<>>>>

PauseToggled(m) ==
    LET now == [m EXCEPT !.paused = ~@] IN
    <<now, (IF m.icon = "Present" THEN <<Effect("ModifyTooltip", "")>> ELSE <<>>)
           \o Send("PausedChanged", now.paused)>>

QueryEndSession(m) ==
    IF m.session = "Idle"
    THEN <<[m EXCEPT !.session = "QueryReceived"], <<Effect("CreateBlock", "")>>>>
    ELSE <<m, <<>>>>

\* What settles the block a query took.
OwedBlock(m) ==
    IF m.session = "QueryReceived" THEN <<Effect("DestroyBlock", "")>> ELSE <<>>

EndSession(m, committed) ==
    <<[m EXCEPT !.session = "Idle"],
      (IF committed THEN <<Effect("WaitForSessionDrain", "")>> ELSE <<>>) \o OwedBlock(m)>>

\* Variation: a window that dies leaves the block to WM_ENDSESSION.
DestroyedUnsettled(m) == <<m, <<Effect("PostQuit", "")>>>>

Destroyed(m) ==
    <<[m EXCEPT !.session = "Idle"], OwedBlock(m) \o <<Effect("PostQuit", "")>>>>

\* Reported, not applied: the model waits for the daemon's answer.
SettingToggled(m, s) == <<m, Send("Toggle", s)>>

NotificationsPosted(m) ==
    <<m, IF m.icon = "Present" THEN <<Effect("DrainNotifications", "")>> ELSE <<>>>>

transition(m, msg) ==
    CASE msg.kind = "TaskbarCreated" -> <<m, <<Effect("AddIcon", "")>>>>
      [] msg.kind = "Capture" -> <<m, IF m.paused THEN <<>> ELSE Send("Capture", "")>>
      [] msg.kind = "ContextMenu" -> <<m, <<Effect("ShowMenu", m)>>>>
      [] msg.kind = "Pause" -> PauseToggled(m)
      [] msg.kind = "Toggle" -> SettingToggled(m, msg.value)
      [] msg.kind = "Exit" -> <<m, Send("Exit", "")>>
      [] msg.kind = "Set" -> <<[m EXCEPT !.shown[msg.value[1]] = msg.value[2]], <<>>>>
      [] msg.kind = "Notify" -> NotificationsPosted(m)
      [] msg.kind = "QueryEndSession" -> QueryEndSession(m)
      [] msg.kind = "EndSession" -> EndSession(m, msg.value)
      [] msg.kind = "Destroyed" -> Destroyed(m)

\* A transition whose effects run before `rest`.
Becomes(step, rest) == model' = step[1] /\ pending' = step[2] \o rest

-----------------------------------------------------------------------------
(* What reaches the tray's window.                                         *)

Running == pending # <<>>
Now == Head(pending)
Rest == Tail(pending)

MenuOpen == Running /\ Now.kind = "ShowMenu"

\* GetMessageW, or the loop of an open menu.
Pumping == window = "open" /\ (~Running \/ MenuOpen)

\* Calls through which Windows delivers what was sent.
CallsOut == {"AddIcon", "ModifyTooltip", "Balloon", "ShowMenu"}
Reachable ==
    \/ Pumping
    \/ Running /\ Now.kind \in CallsOut
    \/ window = "closing" /\ ~Running

Dispatch ==
    /\ Pumping /\ inbox # <<>> /\ Head(inbox).kind # "Quit"
    /\ Becomes(transition(model, Head(inbox)), pending)
    /\ inbox' = Tail(inbox)
    /\ UNCHANGED <<window, shellIcon, blocks, events, notes, daemonVars, sessionAsked,
                   hotkey, commands, worker, ghost>>

\* A person opens the menu, or double-clicks the icon.
IconUsed ==
    /\ shellIcon /\ window = "open" /\ Choice
    /\ ~\E i \in 1..Len(inbox) : inbox[i].kind = "ContextMenu"
    /\ ~\E i \in 1..Len(pending) : pending[i].kind = "ShowMenu"
    /\ \E kind \in {"ContextMenu", "Capture"} : inbox' = Append(inbox, Message(kind, ""))
    /\ ghost' = Chose(ghost)
    /\ UNCHANGED <<trayVars, events, notes, daemonVars, sessionAsked, hotkey, commands, worker>>

\* The menu that was shown is a snapshot, and its answer is posted.
Chosen(menu) ==
    {Message("Pause", ""), Message("Exit", "")}
    \cup {Message("Toggle", s) : s \in Settings}
    \cup (IF menu.paused THEN {} ELSE {Message("Capture", "")})

MenuCloses ==
    /\ MenuOpen
    /\ \/ inbox' = inbox
       \/ \E msg \in Chosen(Now.value) : inbox' = Append(inbox, msg)
    /\ pending' = Rest
    /\ UNCHANGED <<model, window, shellIcon, blocks, events, notes, daemonVars, sessionAsked,
                   hotkey, commands, worker, ghost>>

\* Windows sends; it waits for the answer, so it cannot be inside another of its own.
SentMessages ==
    {Message("QueryEndSession", "")} \cup {Message("EndSession", b) : b \in BOOLEAN}
    \cup {Message("TaskbarCreated", "")}

SystemSends ==
    /\ Reachable /\ Choice
    /\ \E msg \in SentMessages :
         /\ msg.kind = "EndSession" => ghost.queried
         /\ msg.kind = "TaskbarCreated" => ~shellIcon /\ ghost.restarted
         /\ Becomes(transition(model, msg), pending)
         /\ ghost' = [ghost EXCEPT !.choices = @ + 1,
                        !.queried = CASE msg.kind = "QueryEndSession" -> TRUE
                                      [] msg.kind = "EndSession" -> FALSE
                                      [] OTHER -> @,
                        !.restarted = IF msg.kind = "TaskbarCreated" THEN FALSE ELSE @]
    /\ UNCHANGED <<inbox, window, shellIcon, blocks, events, notes, daemonVars, sessionAsked,
                   hotkey, commands, worker>>

\* Explorer ends, and its icons with it; the broadcast follows when it is back.
ShellRestarts ==
    /\ Choice /\ shellIcon
    /\ shellIcon' = FALSE
    /\ ghost' = [ghost EXCEPT !.choices = @ + 1, !.restarted = TRUE]
    /\ UNCHANGED <<model, pending, inbox, window, blocks, events, notes, daemonVars,
                   sessionAsked, hotkey, commands, worker>>

-----------------------------------------------------------------------------
(* apply_tray_effect.                                                      *)

Effects(kind) == Running /\ Now.kind = kind

AddIconReturns ==
    /\ Effects("AddIcon")
    /\ \E restored \in BOOLEAN :
         /\ shellIcon' = (restored \/ shellIcon)
         /\ Becomes(IconAddCompleted(model, restored), Rest)
    /\ UNCHANGED <<inbox, window, blocks, events, notes, daemonVars, sessionAsked, hotkey,
                   commands, worker, ghost>>

\* Shell and user calls whose result is only logged.
CallReturns ==
    /\ Effects("ModifyTooltip") \/ Effects("PostQuit")
    /\ pending' = Rest
    /\ UNCHANGED <<model, inbox, window, shellIcon, blocks, events, notes, daemonVars,
                   sessionAsked, hotkey, commands, worker, ghost>>

DrainTakes ==
    /\ Effects("DrainNotifications") /\ notes > 0
    /\ notes' = notes - 1
    /\ pending' = <<Effect("Balloon", "")>> \o pending
    /\ UNCHANGED <<model, inbox, window, shellIcon, blocks, events, daemonVars, sessionAsked,
                   hotkey, commands, worker, ghost>>

DrainEnds ==
    /\ Effects("DrainNotifications") /\ notes = 0
    /\ pending' = Rest
    /\ ghost' = [ghost EXCEPT !.unposted = @ \ {"notes"}]
    /\ UNCHANGED <<model, inbox, window, shellIcon, blocks, events, notes, daemonVars,
                   sessionAsked, hotkey, commands, worker>>

\* A balloon for an icon that is not there fails, and the notification is gone.
BalloonReturns ==
    /\ Effects("Balloon")
    /\ pending' = Rest
    /\ UNCHANGED <<model, inbox, window, shellIcon, blocks, events, notes, daemonVars,
                   sessionAsked, hotkey, commands, worker, ghost>>

\* dispatch_tray_event: a full channel drops the event being sent.
SendEvent ==
    /\ Effects("SendEvent")
    /\ pending' = Rest
    /\ LET fits == Len(events) < EventCapacity
           pause == Now.value.kind = "PausedChanged" IN
         /\ events' = IF fits THEN Append(events, Now.value) ELSE events
         /\ ghost' = [ghost EXCEPT !.pauseLost = IF pause THEN ~fits ELSE @]
    /\ UNCHANGED <<model, inbox, window, shellIcon, blocks, notes, daemonVars, sessionAsked,
                   hotkey, commands, worker>>

BlockCalls ==
    /\ \/ Effects("CreateBlock") /\ blocks' = blocks + 1
       \/ Effects("DestroyBlock") /\ blocks' = blocks - 1
    /\ pending' = Rest
    /\ UNCHANGED <<model, inbox, window, shellIcon, events, notes, daemonVars, sessionAsked,
                   hotkey, commands, worker, ghost>>

\* wait_for_drain_signal.
WaitBegins ==
    /\ Effects("WaitForSessionDrain")
    /\ sessionAsked' = TRUE
    /\ pending' = <<Effect("Waiting", "")>> \o Rest
    /\ UNCHANGED <<model, inbox, window, shellIcon, blocks, events, notes, daemonVars, hotkey,
                   commands, worker, ghost>>

WaitReturns(released) ==
    /\ Effects("Waiting") /\ (drained <=> released)
    /\ pending' = Rest
    /\ UNCHANGED <<model, inbox, window, shellIcon, blocks, events, notes, daemonVars,
                   sessionAsked, hotkey, commands, worker, ghost>>

\* An open menu's loop ends at WM_QUIT and leaves it for the outer loop.
MenuQuits ==
    /\ MenuOpen /\ inbox # <<>> /\ Head(inbox).kind = "Quit"
    /\ pending' = Rest
    /\ UNCHANGED <<model, inbox, window, shellIcon, blocks, events, notes, daemonVars,
                   sessionAsked, hotkey, commands, worker, ghost>>

\* tear_down_tray_window: the icon, then the window.
LoopEnds ==
    /\ window = "open" /\ ~Running /\ inbox # <<>> /\ Head(inbox).kind = "Quit"
    /\ window' = "closing"
    /\ shellIcon' = FALSE
    /\ inbox' = <<>>
    /\ UNCHANGED <<model, pending, blocks, events, notes, daemonVars, sessionAsked, hotkey,
                   commands, worker, ghost>>

DestroyWindow ==
    /\ window = "closing" /\ ~Running
    /\ window' = "destroyed"
    /\ Becomes(transition(model, Message("Destroyed", "")), <<>>)
    /\ UNCHANGED <<inbox, shellIcon, blocks, events, notes, daemonVars, sessionAsked, hotkey,
                   commands, worker, ghost>>

TrayGone == window = "destroyed" /\ ~Running

-----------------------------------------------------------------------------
(* The daemon's event loop.                                                *)

Steps(from, to) == daemonPc = from /\ daemonPc' = to

\* PostMessageW to the tray's window: `about` is stale when it fails.
Post(msg, about, counted) ==
    \/ /\ window # "destroyed"
       /\ inbox' = IF window = "open" THEN Append(inbox, msg) ELSE inbox
       /\ ghost' = [counted EXCEPT !.unposted = @ \ {about}]
    \/ /\ window = "destroyed" \/ Choice
       /\ inbox' = inbox
       /\ ghost' = [counted EXCEPT !.unposted = @ \cup {about},
                                   !.choices = IF window = "destroyed" THEN @ ELSE @ + 1]

\* begin_shutdown: the first call owns the deadline.
BeginShutdown ==
    IF shutdown = "no"
    THEN shutdown' = "draining" /\ stopRequested' = TRUE /\ paused' = TRUE
    ELSE UNCHANGED <<shutdown, stopRequested, paused>>

DaemonTop ==
    /\ daemonPc = "top"
    /\ exitAsked' = (exitAsked \/ sessionAsked)
    /\ IF exitAsked' THEN BeginShutdown ELSE UNCHANGED <<shutdown, stopRequested, paused>>
    /\ daemonPc' = IF shutdown = "expired" THEN "teardown" ELSE "wait"
    /\ UNCHANGED <<trayVars, inbox, events, notes, actual, drained, sessionAsked, hotkey,
                   commands, worker, ghost>>

DeadlinePasses ==
    /\ shutdown = "draining"
    /\ shutdown' = "expired"
    /\ UNCHANGED <<trayVars, inbox, events, notes, daemonPc, actual, exitAsked, drained, paused,
                   stopRequested, sessionAsked, hotkey, commands, worker, ghost>>

\* recv_timeout on the worker's result.
DaemonWaits ==
    /\ Steps("wait", IF worker = "done" THEN "teardown" ELSE "posts")
    /\ UNCHANGED <<trayVars, inbox, events, notes, actual, shutdown, exitAsked, drained,
                   paused, stopRequested, sessionAsked, hotkey, commands, worker, ghost>>

\* A failure or notice is queued, and then its post wakes the tray.
DaemonNotifies ==
    /\ Steps("posts", IF notes < NoteCapacity THEN "post" ELSE "posts")
    /\ Choice
    /\ notes' = IF notes < NoteCapacity THEN notes + 1 ELSE notes
    /\ ghost' = Chose(ghost)
    /\ UNCHANGED <<trayVars, inbox, events, actual, shutdown, exitAsked, drained, paused,
                   stopRequested, sessionAsked, hotkey, commands, worker>>

DaemonPosts ==
    /\ Steps("post", "posts")
    /\ Post(Message("Notify", ""), "notes", ghost)
    /\ UNCHANGED <<trayVars, events, notes, actual, shutdown, exitAsked, drained, paused,
                   stopRequested, sessionAsked, hotkey, commands, worker>>

\* A setting becomes what it was not, and the tray is told.
Change(s, counted) ==
    /\ actual' = [actual EXCEPT ![s] = ~@]
    /\ Post(Message("Set", <<s, ~actual[s]>>), s, counted)

\* The overlay's request, or a first capture: not the menu's doing.
DaemonChanges ==
    /\ daemonPc = "posts" /\ Choice
    /\ \E s \in Settings : Change(s, Chose(ghost))
    /\ UNCHANGED <<trayVars, events, notes, daemonPc, shutdown, exitAsked, drained, paused,
                   stopRequested, sessionAsked, hotkey, commands, worker>>

DaemonTurns ==
    /\ \/ Steps("posts", "events")
       \/ Steps("events", "last") /\ events = <<>>
    /\ UNCHANGED <<trayVars, inbox, events, notes, actual, shutdown, exitAsked, drained,
                   paused, stopRequested, sessionAsked, hotkey, commands, worker, ghost>>

\* try_send to the capture worker.
Offer(command) ==
    commands' = IF worker = "running" /\ Len(commands) < CommandCapacity
                THEN Append(commands, command) ELSE commands

TakesEvent(kind) ==
    /\ daemonPc = "events" /\ events # <<>> /\ Head(events).kind = kind
    /\ events' = Tail(events)
    /\ UNCHANGED <<trayVars, notes, daemonPc, shutdown, drained, stopRequested, sessionAsked,
                   hotkey, worker>>

OnCapture ==
    /\ TakesEvent("Capture")
    /\ Offer("Trigger")
    /\ UNCHANGED <<inbox, actual, exitAsked, paused, ghost>>

\* Variation: the event says that the pause changed, not to what.
OnPausedToggle ==
    /\ TakesEvent("PausedChanged")
    /\ paused' = ~paused
    /\ UNCHANGED <<inbox, actual, exitAsked, commands, ghost>>

OnPausedChanged ==
    /\ TakesEvent("PausedChanged")
    /\ paused' = Head(events).value
    /\ UNCHANGED <<inbox, actual, exitAsked, commands, ghost>>

\* Applied and reported; refused, or failed, and only notified of.
OnToggle ==
    /\ TakesEvent("Toggle")
    /\ \/ Change(Head(events).value, ghost)
       \/ UNCHANGED <<inbox, actual, ghost>>
    /\ UNCHANGED <<exitAsked, paused, commands>>

OnExit ==
    /\ TakesEvent("Exit")
    /\ exitAsked' = TRUE
    /\ UNCHANGED <<inbox, actual, paused, commands, ghost>>

\* The end of a tick: any source of a stop, and the Shutdown command until it is taken.
DaemonTicks ==
    /\ Steps("last", "top")
    /\ \/ exitAsked /\ BeginShutdown
       \/ ~exitAsked /\ BeginShutdown        \* the console, or daemon control
       \/ ~exitAsked /\ UNCHANGED <<shutdown, stopRequested, paused>>
    /\ IF shutdown' # "no" /\ ~\E i \in 1..Len(commands) : commands[i] = "Shutdown"
       THEN Offer("Shutdown") ELSE commands' = commands
    /\ UNCHANGED <<trayVars, inbox, events, notes, actual, exitAsked, drained, sessionAsked,
                   hotkey, worker, ghost>>

\* WorkerRegistry::teardown: everyone is asked again and joined, up to the deadline.
Teardown ==
    /\ Steps("teardown", "signal")
    /\ paused' = TRUE /\ stopRequested' = TRUE
    /\ Offer("Shutdown")
    /\ UNCHANGED <<trayVars, inbox, events, notes, actual, shutdown, exitAsked, drained,
                   sessionAsked, hotkey, worker, ghost>>

\* Variation: the tray is stopped without a word to it.
StopTrayUnsignalled ==
    /\ Steps("signal", "stop")
    /\ UNCHANGED <<trayVars, inbox, events, notes, actual, shutdown, exitAsked, drained, paused,
                   stopRequested, sessionAsked, hotkey, commands, worker, ghost>>

SignalDrained ==
    /\ Steps("signal", "stop")
    /\ drained' = TRUE
    /\ UNCHANGED <<trayVars, inbox, events, notes, actual, shutdown, exitAsked, paused,
                   stopRequested, sessionAsked, hotkey, commands, worker, ghost>>

\* TrayIcon::stop: WM_QUIT, which a thread that has ended no longer takes.
StopTray ==
    /\ Steps("stop", IF TrayGone THEN "gone" ELSE "join")
    /\ inbox' = IF window = "open" THEN Append(inbox, Message("Quit", "")) ELSE inbox
    /\ UNCHANGED <<trayVars, events, notes, actual, shutdown, exitAsked, drained, paused,
                   stopRequested, sessionAsked, hotkey, commands, worker, ghost>>

\* join_tray_worker: the thread is joined, or left behind after TRAY_STOP_TIMEOUT.
JoinTray(joined) ==
    /\ Steps("join", "gone") /\ (TrayGone <=> joined)
    /\ UNCHANGED <<trayVars, inbox, events, notes, actual, shutdown, exitAsked, drained,
                   paused, stopRequested, sessionAsked, hotkey, commands, worker, ghost>>

-----------------------------------------------------------------------------
(* The hotkey callback, and the capture worker it feeds.                   *)

HotkeyPressed ==
    /\ hotkey = "idle" /\ Choice
    /\ hotkey' = IF paused THEN "idle" ELSE "unpaused"
    /\ ghost' = [ghost EXCEPT !.choices = @ + 1, !.late = stopRequested]
    /\ UNCHANGED <<trayVars, inbox, events, notes, daemonVars, sessionAsked, commands, worker>>

\* Variation: the pause alone is what stops a late press.
HotkeyTrusts ==
    /\ hotkey = "unpaused" /\ hotkey' = "sending"
    /\ UNCHANGED <<trayVars, inbox, events, notes, daemonVars, sessionAsked, commands, worker,
                   ghost>>

HotkeyChecks ==
    /\ hotkey = "unpaused"
    /\ hotkey' = IF stopRequested THEN "idle" ELSE "sending"
    /\ UNCHANGED <<trayVars, inbox, events, notes, daemonVars, sessionAsked, commands, worker,
                   ghost>>

HotkeySends ==
    /\ hotkey = "sending" /\ hotkey' = "idle"
    /\ Offer("Trigger")
    /\ UNCHANGED <<trayVars, inbox, events, notes, daemonVars, sessionAsked, worker, ghost>>

\* The worker takes a command, or ends of itself: at a limit, after an error, when stopped.
WorkerSteps ==
    /\ worker = "running"
    /\ \/ commands # <<>> /\ commands' = Tail(commands)
          /\ worker' = IF Head(commands) = "Shutdown" THEN "done" ELSE worker
       \/ worker' = "done" /\ commands' = commands
    /\ UNCHANGED <<trayVars, inbox, events, notes, daemonVars, sessionAsked, hotkey, ghost>>

-----------------------------------------------------------------------------

TrayInit ==
    /\ \E added \in BOOLEAN, shown \in [Settings -> BOOLEAN] :
         /\ shellIcon = added
         /\ actual = shown
         /\ model = [paused |-> FALSE, shown |-> shown, session |-> "Idle",
                     icon |-> IF added THEN "Present" ELSE "Degraded"]
    /\ pending = <<>> /\ inbox = <<>> /\ window = "open" /\ blocks = 0
    /\ events = <<>> /\ notes = 0 /\ daemonPc = "top"
    /\ shutdown = "no" /\ exitAsked = FALSE /\ sessionAsked = FALSE /\ drained = FALSE
    /\ paused = FALSE /\ stopRequested = FALSE
    /\ hotkey = "idle" /\ commands = <<>> /\ worker = "running"
    /\ ghost = [choices |-> 0, queried |-> FALSE, restarted |-> ~shellIcon, unposted |-> {},
                pauseLost |-> FALSE, late |-> FALSE]

TrayStep ==
    \/ Dispatch \/ AddIconReturns \/ CallReturns \/ DrainTakes \/ DrainEnds \/ BalloonReturns
    \/ SendEvent \/ BlockCalls \/ WaitBegins \/ WaitReturns(TRUE)
    \/ MenuQuits \/ LoopEnds \/ DestroyWindow

DaemonStep ==
    \/ DaemonTop \/ DaemonWaits \/ DaemonNotifies \/ DaemonPosts \/ DaemonChanges
    \/ DaemonTurns \/ OnCapture \/ OnPausedChanged \/ OnToggle \/ OnExit \/ DaemonTicks
    \/ Teardown \/ SignalDrained \/ StopTray \/ JoinTray(TRUE)

\* SESSION_DRAIN_TIMEOUT and TRAY_STOP_TIMEOUT.
Timeouts == WaitReturns(FALSE) \/ JoinTray(FALSE)

Others ==
    \/ IconUsed \/ MenuCloses \/ SystemSends \/ ShellRestarts
    \/ HotkeyPressed \/ HotkeyChecks \/ HotkeySends \/ WorkerSteps

\* Both threads are gone: the process is left with what it detached.
Ended == daemonPc = "gone" /\ TrayGone /\ UNCHANGED allVars

TrayNext == TrayStep \/ DaemonStep \/ DeadlinePasses \/ Timeouts \/ Others \/ Ended

\* The scheduler runs both threads, and the daemon's deadline passes.  Nothing is assumed of
\* people, of Windows, of the capture worker, or of the two timeouts.
Scheduled == WF_allVars(TrayStep) /\ WF_allVars(DaemonStep) /\ WF_allVars(DeadlinePasses)

TraySpec == TrayInit /\ [][TrayNext]_allVars /\ Scheduled

-----------------------------------------------------------------------------
(* Properties.                                                             *)

Sending(kind) ==
    \/ \E i \in 1..Len(events) : events[i].kind = kind
    \/ \E i \in 1..Len(pending) : pending[i].kind = "SendEvent" /\ pending[i].value.kind = kind
IsSet(msg, s) == msg.kind = "Set" /\ msg.value[1] = s
Owing(kind) == Cardinality({i \in 1..Len(pending) : pending[i].kind = kind})

\* What the menu shows is what the daemon does, once nothing is under way between them: the
\* settings the daemon posts, unless a post failed, and the pause the tray sends, unless the
\* last one was dropped.  (tray.rs set_*_enabled and PausedChanged, daemon.rs 1491.)
MenuTellsTheTruth ==
    window = "open" =>
      /\ \A s \in Settings \ ghost.unposted :
           (\E i \in 1..Len(inbox) : IsSet(inbox[i], s)) \/ model.shown[s] = actual[s]
      /\ ghost.pauseLost \/ stopRequested \/ Sending("PausedChanged") \/ model.paused = paused

\* A queued notification waits for an icon or for a post that failed, and for nothing else.
\* (tray.rs NotificationsPosted and IconAddCompleted.)
NoNotificationStuck ==
    notes > 0 /\ model.icon = "Present" /\ window = "open" =>
      \/ "notes" \in ghost.unposted \/ daemonPc = "post"
      \/ (\E i \in 1..Len(inbox) : inbox[i].kind = "Notify")
      \/ Owing("DrainNotifications") > 0

\* Windows is told of a reason to wait once per query, whatever messages nest, and none is
\* left with a window that is gone.  (tray.rs QueryEndSession, EndSession, Destroyed.)
BlockReasonSettled ==
    /\ blocks + Owing("CreateBlock")
         = (IF model.session = "QueryReceived" THEN 1 ELSE 0) + Owing("DestroyBlock")
    /\ TrayGone => blocks = 0

\* A press after the workers were asked to stop offers no work, though a PausedChanged that
\* was under way may clear `paused` again.  (daemon.rs 1130, 1491.)
LatePressesProduceNothing == hotkey = "sending" => ~ghost.late

\* An Exit that reached the channel, and a session that ends, end the daemon and the tray
\* without their timeouts: neither waits for the other.  (daemon.rs 1592-1650, tray.rs 1195.)
ExitEnds ==
    (\E i \in 1..Len(events) : events[i].kind = "Exit") \/ Effects("Waiting")
      ~> daemonPc = "gone" /\ TrayGone

TrayTypeOK ==
    /\ model \in [paused : BOOLEAN, shown : [Settings -> BOOLEAN],
                  session : {"Idle", "QueryReceived"}, icon : {"Present", "Degraded"}]
    /\ window \in {"open", "closing", "destroyed"}
    /\ shellIcon \in BOOLEAN /\ blocks \in {0, 1}
    /\ Len(events) <= EventCapacity /\ notes \in 0..NoteCapacity
    /\ Len(commands) <= CommandCapacity
    /\ Owing("ShowMenu") <= 1
=============================================================================
