# Captastic, specified

Captastic is a screenshot and screen-recording tool for Windows: a daemon with
a notification-area icon, global hotkeys, an overlay to select with, and a
handful of worker threads that talk through bounded channels, atomics and a few
mutexes. This directory holds TLA+ modules of the parts where those threads
meet, the configurations TLC checks them with, and proofs TLAPS checks. Paths
below are relative to the repository.

`PROJECT.json` is the machine-readable index: components, runs, variations of
the code that each property must catch, the source lines behind every
definition, hazards, findings and theorems.

## 1. The system

### Threads and what passes between them

    hotkey / tray / pipe ──▶ daemon event loop ──try_send──▶ capture thread ──try_send──▶ selection worker
                                   ▲  ▲                          │  ▲                        │   │
                    notices (lossy)│  │ outcomes (lossy)         │  └── live selection,      │   │ Record
                                   │  └──────────────────────────┘      completion (lossy)   │   ▼
                                   │                             ▼                           │  recorder ─▶ encoder
                              tray thread                 destination set ◀──────────────────┘   │
                                                           │          │                          ▼
                                                    file worker   clipboard worker          UI thread ─▶ saver

Every arrow is a bounded channel whose sender never blocks, or a mutex-guarded
queue plus a posted window message. Nothing retries a refused send. Each worker
has a stop flag; a stop waits until a deadline and then leaves the thread
behind, and a process-wide ledger counts those left behind
(`crates/captastic-core/src/detach.rs`).

### Components

| component | state it keeps | operations | what is hard | what makes it correct |
|---|---|---|---|---|
| file output (`file_output.rs`, `daemon.rs` toggle) | worker, bounded queue, stop flag, `WorkerLifetime` cell, destination set, ledger | enable, disable, submit, write, drain, stop at a deadline, detach, rejoin | a write that never returns; a toggle while the last worker still writes; a submit racing the drain | one writer per directory; every accepted capture gets an ending; the ledger is exact; stop always returns |
| capture engine (`daemon.rs` capture worker) | backend or outage, back-off, attempts counted, selections in flight | trigger, live selection, completion, retry, rebuild, record | lost completions, outage during shutdown, a limit reached while an overlay is open | engine or outage; exact counts; the limit's promise; a stop ends both threads; the user is told of outages |
| selection worker (`selection.rs`) | queue of jobs, overlay in progress | overlay, confirm, cancel, record, edit | its completion may be lost; stop behind an open overlay | each attempt is reported once |
| worker registry (`worker_registry.rs`) | handles in their order of stopping, one deadline | begin shutdown, teardown | workers that miss the deadline, and what they still hold | every worker is asked once; exit ends |
| recording pipeline (`recording.rs` `record`) | frame queue, failure count, encoder thread, reserved file | take a frame, pace, drop the oldest, finish, remove | slow or failing encoder, a source that fails, stop at any point | counts add up; a saved recording is whole; a failed one leaves nothing; it ends |
| recordings and reviews (`recording.rs` `RecordingHost`, `desktop_ui.rs`, `review.rs`) | `active`, stop flag, indicator, queue of drafts, open review, savers | start, hide, open review, save, discard, edit, reclaim, exit | UI thread that fails, is replaced or is blocked; drafts in flight at exit | a draft has exactly one owner; one review; settled once; exit ends |
| window capture (`window_capture.rs`) | claims, worker slots, permits, ledger | bounded render, timeout, detach, return | a window whose drawing never returns | limits hold, whoever gives back; callers return |
| notification area (`tray.rs`) | model of icon, pause, session; event and notification channels | transition per message, effects, session end | dropped events, re-entrant effects, session drain | the menu tells the truth; Exit is not lost; the block reason is released |
| clipboard (`clipboard.rs`) | bounded queue, retries | publish, retry, stop | stop with jobs queued, clipboard held by others | what is accepted is published or reported |
| display sessions (`dxgi.rs`, `display_manager.rs`, `session.rs`) | duplication, pooled buffers, display generation | capture, rebuild, evict | readers holding buffers, displays changing | no buffer is overwritten under a reader; no frame of the wrong display |
| desktop UI (`desktop_ui.rs`, `pin.rs`, `editor.rs`, `edit.rs`) | pins, editor, undo history | pin, click through, edit, undo, close | commands across threads, edits withheld until published | an edit is undone exactly; a pin is closed once |
| overlay (`overlay/machine.rs`, `overlay.rs`, `snap.rs`) | selection, drag, pointer capture, tool; the chooser's tiles, live previews and build | one transition per message, effects, one batch per posted message | the button comes up elsewhere during a slow effect; a cancel by another thread; previews over the chrome; builds nobody drives | a region lies on the display and is what was shown; no drag without its button; a cancel is heard; no window is forgotten |
| persistence (`captastic-config`) | UI state, history, configuration; a lock file beside each | lock, break a stale lock, read, write, flush, rename; make the first configuration, move a damaged one aside | a crash or power cut at any step; two writers; the first creation, a start of the daemon and editors, none of which take the lock | no update leaves half a document or drops a saved one; nothing unread is written over |
| playback, animation | timeline, kept ranges | seek, trim, crop | off-by-one at ends | the edited recording is the kept frames |
| logging, command line, benchmark, metrics, encoding, platform glue | none shared | sequential | — | — |

## 2. What is modelled

Each module says in its header what it leaves out; `PROJECT.json` maps each
definition to the lines it stands for.

**`FileOutput`** — the file destination: producers that read the destination
set and offer a capture, workers that receive, write, drain and return, and the
daemon thread that toggles and tears down. One action per handler step between
which another thread can run: the drain (`DrainDone`), the drop of the receiver,
the compare-exchange of `WorkerLifetime` and the ledger's counters are separate
because the code separates them. The counter has `LedgerMod` values.

**`CaptureEngine`** — the capture thread's loop, its engine calls with the
retries inside them, outages and their next try, the selection worker, a
recording that borrows the engine, notices, and the event loop's stop. Engine
calls are abstracted to their class of result. **`AttemptBudget`** is what
`--max-captures` promises; `CaptureEngine` implements it under the mapping
`Budget`.

**`RecordingPipeline`** — `record_into` and the encoder thread around
`FrameQueue`. A frame is the number of the capture it came from, time is counted
in frame intervals.

**`Recordings`** — recorders, UI threads, savers and exit around
`RecordingHost`. Who holds `desktop_ui` matters in one place only (exit waits
under it), so only exit holds it across steps. A recorder is the outside of a
`RecordingPipeline`: it records, and ends well, with an error, or starved once
exit has begun and the capture thread is gone.

**`WindowRender`** — `capture_window_bounded`: claim, slot and permit on the
way in, the thread, and who gives what back. **`Lease`** is a bounded pool;
`WindowRender` implements it twice, for slots and for permits.

**`Tray`** — the transition machine of `tray.rs` and the daemon loop on the
other side of its two lossy channels. A window message is one transition; its
effects are a stack run in order, and while one of them is inside a call to
Windows another message may be delivered and run its own effects first, as
re-entrance does. The session-end handshake, the icon lost and restored, the
notification queue, and the two atomics the hotkey callback reads are variables
of their own.

**`Geometry`** — the arithmetic of regions, handles, nudges and snapping on one
axis, as operators; the two axes of the code are treated alike and apart.
**`Overlay`** — one run of the selection overlay over it: `Model::update`, the
effects the shell runs, who holds the pointer, the person's hand on the button
while an effect is slow, and `ActiveOverlay`'s cancel handshake. A chosen
window is selected as its whole frame on the desktop, part of which may be off
the display (`WindowRects`), as `window_enumeration.rs:28-33` says.

**`Chooser`** — the window chooser inside that overlay: tiles, live previews
registered with the compositor, the build queue and the messages the overlay
posts to itself to render one batch. Layout is abstracted to places a tile may
stand at and the toolbar or its menu may cover.

**`Store`** — one file of `captastic-config` and the writers that update it
under `FileLock` through `atomic_write`; one action per call to the file
system, with a death of the process or a power cut between any two. Beside them,
and without the lock, `ensure_default_config` (the menu's "open configuration",
`ui_state.rs:205-215`) or an editor creates the
configuration (`MakerCreates`) and later writes it (`MakerWrites`) or fails to,
unflushed; a start of the daemon reads a damaged configuration (`StartReads`)
and later renames whatever is there by then (`Quarantines`); and an editor
replaces a damaged one by a sound one (`UserRepairs`).

How they meet: `CaptureEngine`'s recording thread is a recorder of `Recordings`,
whose inside is `RecordingPipeline`; its producers are `FileOutput`'s; its
selection worker runs `Overlay`, of which `Chooser` is a part; `Tray` sends it
what the menu asks for; both `FileOutput` and `WindowRender` use the ledger of
`detach.rs`. The modules are kept apart because each interface is a lossy send,
a counter or a result that the other side models as an unconstrained choice,
which allows more than the composition does.

Definitions whose comment begins with "Variation" are the mutated forms
`PROJECT.json` names: each is a plausible mistake in the operation above or
below it that a property must notice. No specification uses them.

## 3. What the runs check

| run | bounds | shows |
|---|---|---|
| FileOutputToggles | two workers, two captures, one producer, queue of one, fairness | one writer, an exact ledger, an ending for every capture accepted in time; shutdown ends with a wedged disk; a slot comes back if writes end |
| FileOutputLoss (violated) | one worker, two captures | a capture may be lost between the drain and the drop of the receiver |
| CaptureEngineAttempts | one overlay press and two direct ones, a limit of two, queues of one, one retry, notice after one failure, fairness | engine or outage, exact in-flight count, truthful notices, the limit's promise (`AttemptBudget`); stop and outage end |
| RecordingPipelineFrames | queue of two, five intervals, one tolerated failure, fairness | complete saves, clean failures, termination |
| RecordingsFaults | one recording, two UI threads, every fault | one holder, only unfinished work is lost, settled once |
| RecordingsEnds | two recordings, one UI thread, fairness | one recorder; exit ends; a recording is settled if reviews are answered |
| WindowRenderSlots | three calls, windows different or shared, two slots, one permit, fairness | claims, leases, the ledger, callers return |
| TraySession | one setting, channels of one, three choices of people and Windows, fairness | the menu is true, no notification is stuck, block reasons are settled, late presses produce nothing, exit ends |
| OverlayRegion | a display of five pixels with an edge inside it, a pointer that leaves it, two remembered regions, a window inside the display and one across its edge, six messages or interruptions | region on the display, true guides, no stuck drag, cancels heard, a release commits what was shown |
| ChooserBuilds | two windows, two toolbar positions, batches of one, six moves | builds are driven, no window forgotten, the chrome stays visible |
| StoreUpdates | three writers, two starts of the daemon, two deaths or power cuts | every saved update survives, what was not read is not written over |
| StoreStaleLock (violated) | three writers, one death | two writers update at once after a stale lock was broken twice |

Why the bounds are enough to be of interest. `FileOutput` needs a worker left
behind and its successor: two; a queue of one fills with one capture, and two
let one be in hand while another is late. `CaptureEngine` needs one attempt with
the selection worker while another arrives, a limit the presses reach, and one
smaller than their number; queues of one are full after one message. A recording
queue of two is the smallest the code makes; five intervals fill it, drop from
it and run out the limit. `Recordings` needs one recording running or reviewed
while another ends or waits; two UI threads show a host and its replacement.
Three renders are the fewest that meet a full set of slots. `Tray`'s channels of
one are full after one message; three choices are enough for a press, an outage
of the icon and the end of the session in any order. A run of `Overlay` that
presses, drags out of the display, has a release lost and is cancelled takes
five messages. `Chooser` needs a tile under the toolbar and one under its menu;
six moves go to another tool and back while a window closes. `Store` needs the
dead holder of a lock, one that breaks it and one that is about to: three; and
two starts (a second daemon reads its configuration before it finds out that it
is one, `daemon.rs:969`), of which one moves aside what replaced the file the
other did.
Every action fires in some passing run. `LedgerMod`, `Wrap` and `GenMod` only
have to exceed what is out at once, which keeps a wrapped value apart from a
true one.

`MCRecordings` and `MCFileOutput` start recordings and workers in one order and
`MCWindowRender` takes one assignment of windows per renaming; both are
renamings of like values, as `SYMMETRY` is elsewhere, which liveness checking
does not allow. `CaptureEngineAttempts` has an action constraint, `ExtraIsLate`:
the second direct press comes only when the limit is spent and the overlay
is open. That is the one moment a third press is interesting, and elsewhere it
only multiplies states; the run says nothing of three presses at other times.
`CHECK_DEADLOCK FALSE` is used where the modelled part is over at the end (a
process that exited, a recording that ended, calls that returned, an overlay
that closed or a bound on moves reached); `FileOutput`, `CaptureEngine` and
`Tray` have an explicit last step and are checked for deadlock.

### Fairness

Weak fairness of a thread's steps says that the scheduler runs it and that a
`recv_timeout` or poll with a deadline ends; the code relies on both. It is
assumed of:

- `FileOutput`: the worker's own steps, the daemon thread, and the teardown after
  a shutdown began. Not of `WriteStep`: a write may never return. `SlotComesBack`
  states that assumption as its premise, `DiskAnswers`.
- `CaptureEngine`: the capture and selection threads, the back-off's timer, the
  event loop's ticks, and that a stop cancels an open overlay (the overlay polls
  the flag). Not of a person at the overlay. `OutageEnds` has as its premise that
  the desktop lets an engine be created infinitely often tried
  (`DesktopReturns`, strong fairness: the attempts come and go).
- `RecordingPipeline`: both threads. A source call returns, well or badly.
- `Recordings`: every thread, unless the process has ended. Not of a person:
  `EveryRecordingSettles` has `ReviewsAreAnswered` as its premise.
- `WindowRender`: the caller only. Its thread may hang anywhere.
- `Tray`: the tray thread's steps (a posted message is delivered, a call to the
  shell returns), the daemon's, and that the drain's deadline passes. Not of
  people, nor of Windows ending the session.
- `Overlay`, `Chooser`, `Store`: none; their properties are about safety.

Assumptions of `Overlay` a reader should know: while a slow effect runs the
person may let go of the button but does not press it again; effects that
neither enumerate nor render windows are instant, and so is the one rebuild of
the overview cache that a toolbar drag does before it captures the pointer.
Of `Store`: a writer that lives finishes before its lock looks old
(`LOCK_STALE_AFTER` against milliseconds of work), an editor saves only a
configuration that is missing or damaged - over a sound one, between an update's
read and its rename, no lock could help - and what `ensure_default_config` writes
arrives in one piece, though later than the file.

## 4. What is proved

Eight modules hold theorems for every value of the constants under the `ASSUME`s
of the modules they are about. Every safety invariant and every action property
that a passing run checks is one of them; what is left to TLC alone is liveness.

`FileOutput_proofs`: `TypeCorrect`, `OneWriter`, `LedgerIsHonest`, `NoStray`.
`AtMostOneWriter` is not inductive: that a start is refused depends on the
ledger, whose value in turn depends on a window between two atomic operations.
The inductive invariant `IInv` adds `LiveIsExact` (the exact counter value,
also inside the window, where it may have wrapped), `OneDebtor` (at most one
worker is owed a slot), `HoldingMeansNoDebt` (while the daemon holds a worker
nobody is owed), `WritersAreKnown`, `LifetimeFollowsThread` and
`MainIsConsistent`. With `CeilingAssumption` (the ceiling for file workers is
one, as `detach.rs` sets it), a debtor makes the next start fail, so a second
writer can never be started. `OnTimeCapturesAlwaysEnd` has an invariant of its
own, `Captures`: a capture being offered belongs to nobody and is offered once
(`OffersAreFresh`), one that was accepted is once in its owner's queue or in its
hand (`QueuesHold`), and a worker stops only when told to and until it is gone
leaves no capture it owns without a queue or an ending (`StopsWhenTold`). A drain
ends on an empty queue, so what then has no ending came late.

`WindowRender_proofs`: `TypeCorrect`, `WindowsExclusive`, `SlotsBounded`,
`PermitsBounded`, and that the module implements `Lease` twice
(`PoolsImplementLeases`). The invariant ties each counter to the set that holds
it (`SlotCount`, `PermitCount`) and says where a call is while its thread runs
(`Control`), which is what rules out that both sides give a slot back. Lemmas
say what any step does to each pool; the invariant's parts and the refinements
follow from them. `LedgerAlwaysSettles`: the count of abandoned threads is a
`usize` that one thread may lower before another has raised it. `LedgerCounts`
says what it is at every moment, the threads owed a return less the callers that
have not counted yet, wrapped as the code wraps it, and `StatesFollowThreads`
that a thread says once that its drawing is over.

`Overlay_proofs`: `Inductive`, `StaysInside`, `GuideStaysTrue`,
`NoDragOutlivesButton`, `CancelIsHeard`, `ReleaseCommitsWhatItShowed`, on any display, with any edges and any
number of messages. `StaysInside` is about regions and the full display: the
selection of the Window tool is a span like any other, on the display or not, and
`Sound` keeps it apart from the region that is remembered. `Shapes` says that the
model's regions and points are sound in every mode; `Fresh` that a run starts with no drag; `DragIsHeld` that a drag goes on only while the press holds the pointer or
its end is waiting to be heard; `PressComesFirst` and `ReleaseIsLast` order what
waits. A stuck drag would need a release that nobody hears, and the three of
them leave no moment for one. The cancel handshake has an invariant of its own:
a request made before the window is known is read when it becomes known, and
`Requested`, a cancel in the inbox or a close under way, is never lost again.
That a release commits what the last move showed speaks of a hand that moved some
steps ago: `HandFollows` says that a move is the first thing waiting or the model
agrees with it already (`AfterMove`), and that a release at the same place finds
that model (`AfterRelease`). The model agrees with a release that would leave the
selection as it is (`Agrees`): a move makes it so (`MoveAgrees`), and nothing
that reaches a model in between changes the drag (`SameDragAgrees`).

`Chooser_proofs`: `BuildIsAlwaysDriven`, `ChromeIsAlwaysVisible`,
`NothingIsForgotten`. `Generations`
says that builds and messages carry numbers and that an overlay about to open
has neither build nor preview; `HiddenElsewhere` that previews left when the
tool changed are transparent, without which a refresh that does nothing would
have to remove them. `Inventory` says that what is listed, shown and queued are
lists of windows. The model filters them with the recursive function `Kept`
rather than `SelectSeq`, since `NothingIsForgotten` needs to know that a filter
keeps exactly what it is told to: `KeptHas` proves it for lists of any length, by
taking the shortest list it would fail for.

`RecordingPipeline_proofs`: `SavedIsAlwaysComplete`, `FailedIsAlwaysRemoved`.
While neither thread has failed (`Sound`), what is written, in the encoder's hand
and waiting is one line of frames: it adds up with the dropped ones (`Accounted`),
is in the order of capture (`InOrder`) and ends with the last capture
(`LastIsLast`). `Control` says how far the threads are of each other; since an
encoder finishes only an empty queue that is closed, the line is then all
written. Failure after the close implies that the encoder has ended, so its file
can be removed.

`CaptureEngine_proofs`: `TypeCorrect`, `EngineOrOutageAlways`, `InFlightIsAlwaysExact`,
`UserAlwaysKnowsOfOutage`, and that the engine implements `AttemptBudget`
(`EngineKeepsTheBudget`), for any presses, capacities, limit and retries. A count
is exact only if no attempt is in two places: `Tokens` says that the command
queue, the selection worker's queue and the two hands each hold an attempt at
most once and agree with where it is. From it, a step either moves no attempt
(`Stays`) or takes one of them one step of its way (`Goes`) with the counters
moved accordingly; `InFlightIsExact`, `AttemptsCounted` and the refinement follow
from these two alone. That the limit is reached with no attempt open rests on
both counts and on `CapturingIsInHand`. `UserKnowsOfOutage` speaks of an empty
channel; `LastWord` is the same of a full one: the last notice about the engine
still in it, or else what is shown, is what the capture thread remembers.

`Recordings_proofs`: `TypeCorrect`, `OneRecorderAlways`, `OneHolderAlways`,
`SettledOnceAlways`, `OnlyUnfinishedIsLostAlways`, for any recordings, UI threads,
savers and faults. `OneRecorder` speaks of recorders; the claim behind it is older
than they are, so `OneClaim` says the same of `Claiming`, which begins with the
selection thread's claim, and `FreshStart` that what is being started has no
recorder yet. The custody of a draft is `Kept`, of each recording by itself:
`Progress` says how far its recorder is, and that all but a draft is settled with
its end; `Custody` that two of a task, the line of waiting drafts, a review and a
saver never have it at once (`Apart`), that a review is asked for once, of a
thread that lives (`AskedOnce`), that nobody has what its recorder has not let go
of (`Later`), and that an unsettled draft is with its recorder or with one of the
others (`Held`). `OneHolder` alone is not inductive: a hand-over is several steps,
and that its second end is free depends on where every other thread is. `Once`
(a draft waits once), `ThreadsAct`, `ReviewGoesOn` and `SaversAreKnown` say which
thread may make the next step with a draft.

`StoreTray_proofs`, about `Store`: `UpdatesSurviveAlways`, `OneUpdaterUnlessRobbed`,
`UnreadIsKeptAlways`, for any number of writers, starts, deaths and power cuts.
That a saved update is in the file is inductive only together with what the file
will become: `LockIsHeld` (the lock names its holder, and only the holder is past
taking it unless a lock in use was removed), `Flushed` (no copy of the file is
half a document, and what an update renames is whole on the disk; only what the
user's side wrote may not be, `Kept`), `SavedIsEverywhere` (the file, its copy on
the disk and every document a writer has prepared hold all that was reported
saved), `ForeignIsLeft` (nobody is at work on what could not be read) and
`UserIsCopied` (what is flushed of the user's part is in the file, and a document
about to replace the file has that part if the file has it). Each premise is
needed. No lock in use was removed: `StoreStaleLock` shows what happens
otherwise. No sound configuration was moved aside (`misplaced`): a start renames
without looking again, so an update saved in between goes with the file. And no
update has replaced a configuration it read empty (`hasty`): its maker had
created it and not yet written it. TLC reaches both in `StoreUpdates`.

`StoreTray_proofs`, about `Tray`: `TrayTypeCorrect`, `MenuAlwaysTellsTheTruth`,
`NoNotificationIsStuck`, `BlockReasonAlwaysSettled`, `LatePressesNeverProduce`, for
any settings, capacities and number of choices. The two components share the
module and nothing else. Effects nest, so `TrayInv` says where in `pending` they
stand: `PendingMoves` shows that a step leaves them, is done with the first, or
puts what a transition hands out before them, and every part builds on that.
`BlocksAgree`: a call that creates the block reason is the first thing left to do,
one that destroys it the first or behind a wait, and blocks, session and calls owed
agree; a message sent inside an effect finds neither of them left, since Windows
delivers nothing during those calls. `PauseTold`: the last pause on its way, or
else the last one taken, is the model's, unless one was dropped or the workers
stop. A pause is toggled only when none is left to send, since posted messages are
taken with nothing left to do or inside an open menu, which is the last thing left
to do (`MenuLast`). `SettingsTold` is the same of the reports to the tray: the last
one waiting says what the setting is. `NotesWait` names who wakes a notification,
and `LateKnown` rests on `stopRequested` never being cleared. That no setting is
called "notes" (`SettingsAssumption`) keeps `ghost.unposted`, the history of posts
that failed, unambiguous.

Left to TLC: liveness (`ShutdownEnds`, `SlotComesBack`, `StopEndsThreads`,
`OutageEnds`, `RecordingEnds`, `CallReturns`, `EveryRecordingSettles` and the two
`ExitEnds`), since the prover has no `ENABLED`, and what the code violates
(`NoSilentLoss`, `OneUpdaterAtATime`).

## 5. Where the code and its words differ

Runs (each is a finding in `PROJECT.json`):

- `FileOutputLoss`: a capture accepted between the worker's last `try_recv` and
  the drop of its receiver is lost in silence (`file_output.rs:209`, `237`).
- `StoreStaleLock`: two writers judge one lock stale; the second removes the
  lock the first has taken since, and both update (`fsio.rs:146`, against
  `fsio.rs:128-130`).

Met while modelling; the models contain the behaviour unless said otherwise, no
run repeats it:

- The ledger's `live` is decremented before it was incremented when a worker
  returns between its detach and the addition (`file_output.rs:309-321`,
  `window_capture.rs:296-316`): it wraps until the addition, whose own `+ 1` in
  `detach.rs:124` then overflows. `LiveIsExact` has the exact values.
- A producer that has read the destination set may submit to a sink already
  removed (`daemon.rs:688`, against `daemon.rs:1888-1889`).
- A live selection is captured beside a running recording (`daemon.rs:782`,
  against `recording.rs:644-645`): only presses are refused.
- `pixels_for(..)?` returns without closing the queue or joining the encoder,
  which waits on with its file (`recording.rs:212`, `254`).
- A frame that no longer holds the recorded area fails the recording
  (`recording.rs:254`), where ADR 0011:53-55 says it is finalised.
- `HostInner::active` is released before the recorder has placed its draft, so
  a next recording replaces the only handle exit would wait for
  (`recording.rs:974`, `1069`).
- The capture thread is stopped before a display recording is
  (`worker_registry.rs:176`), which then starves and is discarded, against
  `selection.rs:835-836`.
- Exit waits for the UI thread under the mutex that thread's callbacks take
  (`selection.rs:858-860`, `recording.rs:1190`) and so waits out its deadline.
- A border that cannot be created leaves its recording running unseen
  (`desktop_ui.rs:512-516`, against `recording.rs:1620-1621`).
- A balloon shown for an icon the shell has just lost is lost with it, against
  "An outage delays notifications instead of destroying them"
  (`tray.rs:869-882`); and the click on an older balloon opens the newest file
  (`tray.rs:565-567`).
- Presses are still queued for the capture worker after `begin_shutdown`
  (against `worker_registry.rs:69-70`); they produce nothing, which
  `LatePressesProduceNothing` states.
- A toolbar drag under the Window tool rebuilds the overview cache before it
  captures the pointer (`machine.rs:766-779`, against `727-734`).
- A tap beside the region followed by a cancel remembers the region as it was
  before the adjustments in between.
- A batch that ends a build during a toolbar drag registers live previews again
  (`overlay.rs`, against `machine.rs:767-769`); `ChromeStaysVisible` therefore
  promises nothing while the toolbar is dragged.
- Pruning the tiles of closed windows moves the layout together but leaves the
  compositor's previews where they were (`overlay.rs:2211-2259`, `3481-3489`).
- With the compositor's help, a window that keeps failing to render is queued
  again by each refresh, so it is never dropped
  (against `overlay.rs:2861-2862`).
- `FileLock::acquire` in a directory that refuses new files finds no lock to be
  stale and calls that broken, so it tries again without sleep or deadline
  (`fsio.rs:76`, against `82-83`). Only listed as a hazard: the model gives up.
- `ensure_default_config` creates the configuration and then writes it
  (`lib.rs:273-280`). An update that reads it in between finds an empty document
  (`config_edit.rs:123`) and replaces whatever was written since (`151`), against
  "A file that appears between the read and the write is edited rather than
  overwritten" (`config_edit.rs:59`). `UnreadIsKept` exempts it.
- The daemon's start reads a damaged configuration and then renames the file,
  without the lock and without reading it again (`lib.rs:518-526`, `798-805`): a
  configuration saved in between is moved aside, and with it updates reported
  saved. Both properties of `StoreUpdates` exempt it.

## 6. What is not modelled

Pixels, encodings, layout and drawing are data and stay out. Windows' own
behaviour is an unconstrained choice among the results the code handles. Per
component, `PROJECT.json` says what is left out; in short:

- Clipboard: one thread with a queue, as `FileOutput` has; its retries are calls
  a model could only let succeed or fail.
- Display sessions: the buffer pools rest on reference counts the language
  checks, the calls on Direct3D.
- Pins, the editor and its undo history, review playback: sequential state of
  one thread over vector drawings and decoded frames.
- Logging: a bounded queue that may overflow, a rotation that goes on without its
  lock; nothing is promised.
- Metrics, benchmark, command line, still encoding, platform glue: no state
  another thread sees.

The share of lines the map covers is low because most of this code draws,
encodes and calls Windows: the overlay and the display capture alone are a
quarter of it.

## 7. What is left

In the order of what would add most:

1. The clipboard's stop, as an ending of each job like `FileOutput`'s.
2. `display_manager.rs`: the generation of the display list between the check
   and the capture.
3. The undo history of `edit.rs` and the kept ranges of `playback.rs`, as
   functions checked against reference definitions.
