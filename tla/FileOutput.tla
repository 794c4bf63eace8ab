------------------------------ MODULE FileOutput ------------------------------
(***************************************************************************)
(* The file destination while the daemon runs: the worker threads that     *)
(* write captures to disk, the destination set the producers read, the     *)
(* daemon thread that switches file output on and off and tears it down,   *)
(* and the ledger of workers that were left running at a deadline.         *)
(*                                                                         *)
(* One worker per enable; a worker that misses its deadline is detached    *)
(* and goes on running next to whatever the daemon does afterwards.        *)
(* Producers are the capture thread and the selection worker.  A producer  *)
(* reads the destination set once per capture and may offer the capture to *)
(* a sink that has since been removed from the set.                        *)
(*                                                                         *)
(* Deadlines are abstracted to a choice: a wait may give up at any moment. *)
(* The clipboard sink, the frames, the encoding and the lossy channels     *)
(* that announce a write or a failure to the tray are left out.            *)
(***************************************************************************)
EXTENDS Integers, Sequences, FiniteSets

CONSTANTS
    Worker,         \* the file-output worker threads that may ever be spawned
    Job,            \* captures offered to the file destination
    Producer,       \* threads that offer captures
    QueueCapacity,  \* output.queue_capacity
    LedgerMod,      \* number of values of a usize ledger counter
    Ceiling,        \* DetachKind::FileOutputWorker.ceiling()
    None            \* no worker, no job

ASSUME QueueAssumption  == QueueCapacity \in Nat \ {0}
ASSUME LedgerAssumption == LedgerMod \in Nat /\ LedgerMod > 1
ASSUME CeilingAssumption == Ceiling = 1
ASSUME NoneAssumption   == None \notin Worker /\ None \notin Job

VARIABLES
    mainPc,        \* what the daemon thread is doing with the file worker
    target,        \* the worker it is starting or stopping
    shuttingDown,  \* WorkerRegistry::deadline is Some
    registry,      \* WorkerRegistry::file_output
    destination,   \* the file sink in OutputDestinations: the worker behind it
    checkmark,     \* the tray's "Save Captures to Disk" state
    saved,         \* output.enabled in the configuration file
    live, total,   \* the ledger's counters for DetachKind::FileOutputWorker
    workerPc,      \* where each worker thread is
    stop,          \* each worker's stop_requested flag
    lifetime,      \* each worker's WorkerLifetime cell
    queue,         \* each worker's bounded channel
    hand,          \* the job a worker has received and not finished
    producerPc,    \* where each producer is
    snapshot,      \* the file sink in the DestinationSet a producer holds
    offer,         \* the capture a producer is about to offer
    fate,          \* what has become of each capture at the file destination
    owner,         \* the worker whose queue accepted the capture
    late           \* history: captures accepted by a worker told to stop

mainVars     == <<mainPc, target, shuttingDown, registry, destination>>
settingVars  == <<checkmark, saved>>
ledgerVars   == <<live, total>>
workerVars   == <<workerPc, stop, lifetime, queue, hand>>
producerVars == <<producerPc, snapshot, offer>>
jobVars      == <<fate, owner, late>>
vars == <<mainVars, settingVars, ledgerVars, workerVars, producerVars, jobVars>>

MainStates     == {"loop", "starting", "removed", "stopping", "joining",
                   "recordLive", "recordTotal", "settling", "teardown",
                   "exited"}
WorkerStates   == {"unborn", "top", "receiving", "writing", "draining",
                   "closing", "rejoining", "dropping", "gone"}
Lifetimes      == {"running", "detached", "finished"}
ProducerStates == {"top", "waiting", "offering", "ended"}
Fates          == {"none", "offered", "queued", "written", "failed",
                   "abandoned", "rejected", "disabled", "lost"}

-------------------------------------------------------------------------------
(* Initial state: run() has resolved the configuration and, when            *)
(* output.enabled is set, started a worker and put its sink in the set.     *)

Started(w) == [v \in Worker |-> IF v = w THEN "top" ELSE "unborn"]

InitWith(first) ==
    /\ mainPc = "loop"
    /\ target = None
    /\ shuttingDown = FALSE
    /\ registry = first
    /\ destination = first
    /\ checkmark = (first # None)
    /\ saved = (first # None)
    /\ live = 0
    /\ total = 0
    /\ workerPc = Started(first)
    /\ stop = [w \in Worker |-> FALSE]
    /\ lifetime = [w \in Worker |-> "running"]
    /\ queue = [w \in Worker |-> <<>>]
    /\ hand = [w \in Worker |-> None]
    /\ producerPc = [p \in Producer |-> "top"]
    /\ snapshot = [p \in Producer |-> None]
    /\ offer = [p \in Producer |-> None]
    /\ fate = [j \in Job |-> "none"]
    /\ owner = [j \in Job |-> None]
    /\ late = {}

Init == \E first \in Worker \cup {None} : InitWith(first)

Running == mainPc # "exited"

-------------------------------------------------------------------------------
(* Producers.  A producer looks at its stop flag, waits for a command,      *)
(* captures, reads the destination set, and offers the capture to the file  *)
(* sink it found there.                                                     *)

PassStopCheck(p) ==
    /\ Running
    /\ producerPc[p] = "top"
    /\ producerPc' = [producerPc EXCEPT ![p] = IF shuttingDown THEN "ended"
                                                               ELSE "waiting"]
    /\ UNCHANGED <<mainVars, settingVars, ledgerVars, workerVars, snapshot,
                   offer, jobVars>>

\* The Shutdown command wakes the capture thread, a timeout the selection
\* worker; each goes back to its stop check.
WakeWithoutCapture(p) ==
    /\ Running
    /\ producerPc[p] = "waiting"
    /\ producerPc' = [producerPc EXCEPT ![p] = "top"]
    /\ UNCHANGED <<mainVars, settingVars, ledgerVars, workerVars, snapshot,
                   offer, jobVars>>

\* The capture is done and destinations.current() has been read.
TakeDestinations(p, j) ==
    /\ Running
    /\ producerPc[p] = "waiting"
    /\ fate[j] = "none"
    /\ producerPc' = [producerPc EXCEPT ![p] = "offering"]
    /\ snapshot' = [snapshot EXCEPT ![p] = destination]
    /\ offer' = [offer EXCEPT ![p] = j]
    /\ fate' = [fate EXCEPT ![j] = "offered"]
    /\ UNCHANGED <<mainVars, settingVars, ledgerVars, workerVars, owner, late>>

\* ChannelSink::submit: the worker's receiver is alive until its thread ends.
Accepts(w) == workerPc[w] # "gone" /\ Len(queue[w]) < QueueCapacity

SinkResult(w) == IF w = None THEN "disabled"
                 ELSE IF Accepts(w) THEN "queued" ELSE "rejected"

Offer(p) ==
    LET w == snapshot[p]
        j == offer[p]
    IN  /\ Running
        /\ producerPc[p] = "offering"
        /\ producerPc' = [producerPc EXCEPT ![p] = "top"]
        /\ snapshot' = [snapshot EXCEPT ![p] = None]
        /\ offer' = [offer EXCEPT ![p] = None]
        /\ fate' = [fate EXCEPT ![j] = SinkResult(w)]
        /\ IF SinkResult(w) = "queued"
             THEN /\ queue' = [queue EXCEPT ![w] = Append(@, j)]
                  /\ owner' = [owner EXCEPT ![j] = w]
                  /\ late' = IF stop[w] THEN late \cup {j} ELSE late
             ELSE UNCHANGED <<queue, owner, late>>
        /\ UNCHANGED <<mainVars, settingVars, ledgerVars, workerPc, stop,
                       lifetime, hand>>

-------------------------------------------------------------------------------
(* The worker thread.                                                       *)

MoveWorker(w, pc) == workerPc' = [workerPc EXCEPT ![w] = pc]

\* Nobody can send any more: request_stop took the handle's sender and no
\* sink clone is left in the set or in a producer's snapshot.
Disconnected(w) ==
    /\ stop[w]
    /\ destination # w
    /\ \A p \in Producer : snapshot[p] # w

CheckStop(w) ==
    /\ Running
    /\ workerPc[w] = "top"
    /\ MoveWorker(w, IF stop[w] THEN "draining" ELSE "receiving")
    /\ UNCHANGED <<mainVars, settingVars, ledgerVars, stop, lifetime, queue,
                   hand, producerVars, jobVars>>

Receive(w) ==
    /\ Running
    /\ workerPc[w] = "receiving"
    /\ queue[w] # <<>>
    /\ hand' = [hand EXCEPT ![w] = Head(queue[w])]
    /\ queue' = [queue EXCEPT ![w] = Tail(@)]
    /\ MoveWorker(w, "writing")
    /\ UNCHANGED <<mainVars, settingVars, ledgerVars, stop, lifetime,
                   producerVars, jobVars>>

ReceiveTimeout(w) ==
    /\ Running
    /\ workerPc[w] = "receiving"
    /\ queue[w] = <<>>
    /\ MoveWorker(w, IF Disconnected(w) THEN "draining" ELSE "top")
    /\ UNCHANGED <<mainVars, settingVars, ledgerVars, stop, lifetime, queue,
                   hand, producerVars, jobVars>>

\* write_capture returned; the trace of the capture is closed either way.
Write(w, outcome) ==
    /\ Running
    /\ workerPc[w] = "writing"
    /\ fate' = [fate EXCEPT ![hand[w]] = outcome]
    /\ hand' = [hand EXCEPT ![w] = None]
    /\ MoveWorker(w, "top")
    /\ UNCHANGED <<mainVars, settingVars, ledgerVars, stop, lifetime, queue,
                   producerVars, owner, late>>

\* One iteration of the try_iter loop that closes the traces of the queue.
DrainOne(w) ==
    /\ Running
    /\ workerPc[w] = "draining"
    /\ queue[w] # <<>>
    /\ fate' = [fate EXCEPT ![Head(queue[w])] = "abandoned"]
    /\ queue' = [queue EXCEPT ![w] = Tail(@)]
    /\ UNCHANGED <<mainVars, settingVars, ledgerVars, workerPc, stop, lifetime,
                   hand, producerVars, owner, late>>

\* Variation: the worker leaves without draining its queue.
DrainDoneEarly(w) ==
    /\ Running
    /\ workerPc[w] = "draining"
    /\ MoveWorker(w, "closing")
    /\ UNCHANGED <<mainVars, settingVars, ledgerVars, stop, lifetime, queue,
                   hand, producerVars, jobVars>>

DrainDone(w) ==
    /\ Running
    /\ workerPc[w] = "draining"
    /\ queue[w] = <<>>
    /\ MoveWorker(w, "closing")
    /\ UNCHANGED <<mainVars, settingVars, ledgerVars, stop, lifetime, queue,
                   hand, producerVars, jobVars>>

\* Variation: the thread ends without giving the ledger its slot back.
FinishWithoutRejoin(w) ==
    /\ Running
    /\ workerPc[w] = "closing"
    /\ lifetime' = [lifetime EXCEPT ![w] = "finished"]
    /\ MoveWorker(w, "dropping")
    /\ UNCHANGED <<mainVars, settingVars, ledgerVars, stop, queue, hand,
                   producerVars, jobVars>>

\* WorkerLifetime::finished: the swap says whether the worker was written off.
Finish(w) ==
    /\ Running
    /\ workerPc[w] = "closing"
    /\ lifetime' = [lifetime EXCEPT ![w] = "finished"]
    /\ MoveWorker(w, IF lifetime[w] = "detached" THEN "rejoining"
                                                 ELSE "dropping")
    /\ UNCHANGED <<mainVars, settingVars, ledgerVars, stop, queue, hand,
                   producerVars, jobVars>>

\* fetch_sub and fetch_add wrap around.
Decremented(n) == IF n = 0 THEN LedgerMod - 1 ELSE n - 1
Incremented(n) == IF n = LedgerMod - 1 THEN 0 ELSE n + 1

\* DetachLedger::rejoined.
Rejoin(w) ==
    /\ Running
    /\ workerPc[w] = "rejoining"
    /\ live' = Decremented(live)
    /\ MoveWorker(w, "dropping")
    /\ UNCHANGED <<mainVars, settingVars, total, stop, lifetime, queue, hand,
                   producerVars, jobVars>>

\* The closure ends: the receiver is dropped with whatever arrived after the
\* drain, and only now does JoinHandle::is_finished answer true.
DropReceiver(w) ==
    /\ Running
    /\ workerPc[w] = "dropping"
    /\ MoveWorker(w, "gone")
    /\ fate' = [j \in Job |-> IF fate[j] = "queued" /\ owner[j] = w
                                THEN "lost" ELSE fate[j]]
    /\ queue' = [queue EXCEPT ![w] = <<>>]
    /\ UNCHANGED <<mainVars, settingVars, ledgerVars, stop, lifetime, hand,
                   producerVars, owner, late>>

-------------------------------------------------------------------------------
(* The daemon thread: switching file output on and off.                     *)

\* DetachCount::at_ceiling, as detached_file_output_blocking_start asks it.
AtCeilingOffByOne(n) == n > Ceiling    \* Variation: one too many.
AtCeiling(n) == n >= Ceiling

\* An enable that is refused, or whose start fails, changes nothing.
StartWorker(w) ==
    /\ mainPc = "loop"
    /\ registry = None
    /\ ~shuttingDown
    /\ ~AtCeiling(live)
    /\ workerPc[w] = "unborn"
    /\ MoveWorker(w, "top")
    /\ target' = w
    /\ mainPc' = "starting"
    /\ UNCHANGED <<shuttingDown, registry, destination, settingVars, ledgerVars,
                   stop, lifetime, queue, hand, producerVars, jobVars>>

\* Variation: the new worker is never registered.
InsertSinkUnregistered ==
    /\ mainPc = "starting"
    /\ destination' = target
    /\ target' = None
    /\ mainPc' = "settling"
    /\ UNCHANGED <<shuttingDown, registry, settingVars, ledgerVars, workerVars,
                   producerVars, jobVars>>

InsertSink ==
    /\ mainPc = "starting"
    /\ destination' = target
    /\ registry' = target
    /\ target' = None
    /\ mainPc' = "settling"
    /\ UNCHANGED <<shuttingDown, settingVars, ledgerVars, workerVars,
                   producerVars, jobVars>>

\* Switching off removes the sink before the worker is told anything.
RemoveSink ==
    /\ mainPc = "loop"
    /\ registry # None
    /\ destination' = None
    /\ target' = registry
    /\ registry' = None
    /\ mainPc' = "removed"
    /\ UNCHANGED <<shuttingDown, settingVars, ledgerVars, workerVars,
                   producerVars, jobVars>>

RequestStop ==
    /\ mainPc = "removed"
    /\ stop' = [stop EXCEPT ![target] = TRUE]
    /\ mainPc' = "stopping"
    /\ UNCHANGED <<target, shuttingDown, registry, destination, settingVars,
                   ledgerVars, workerPc, lifetime, queue, hand, producerVars,
                   jobVars>>

\* The tail of set_file_output_enabled: the tray item and the configuration
\* file follow the runtime state, and either may fail without undoing it.
Settle(trayOk, saveOk) ==
    /\ mainPc = "settling"
    /\ checkmark' = IF trayOk THEN registry # None ELSE checkmark
    /\ saved' = IF saveOk THEN registry # None ELSE saved
    /\ mainPc' = "loop"
    /\ UNCHANGED <<target, shuttingDown, registry, destination, ledgerVars,
                   workerVars, producerVars, jobVars>>

-------------------------------------------------------------------------------
(* FileOutputWorker::stop_inner, for a toggle and for teardown alike.       *)

\* A toggle has already removed the sink, and goes on to the tray item; teardown
\* leaves the sink in the set, and is the last thing before the process exits.
AfterStop == IF destination = target THEN "exited" ELSE "settling"

Joined ==
    /\ mainPc \in {"stopping", "joining"}
    /\ workerPc[target] = "gone"
    /\ mainPc' = AfterStop
    /\ target' = None
    /\ UNCHANGED <<shuttingDown, registry, destination, settingVars, ledgerVars,
                   workerVars, producerVars, jobVars>>

\* The deadline passed with the thread still there: the compare-exchange
\* decides between a detach and a join of a thread that is already leaving.
GiveUp ==
    /\ mainPc = "stopping"
    /\ workerPc[target] # "gone"
    /\ IF lifetime[target] = "running"
         THEN /\ lifetime' = [lifetime EXCEPT ![target] = "detached"]
              /\ mainPc' = "recordLive"
         ELSE /\ mainPc' = "joining"
              /\ UNCHANGED lifetime
    /\ UNCHANGED <<target, shuttingDown, registry, destination, settingVars,
                   ledgerVars, workerPc, stop, queue, hand, producerVars,
                   jobVars>>

\* DetachLedger::detached: two counters, two atomic additions.
RecordLive ==
    /\ mainPc = "recordLive"
    /\ live' = Incremented(live)
    /\ mainPc' = "recordTotal"
    /\ UNCHANGED <<target, shuttingDown, registry, destination, settingVars,
                   total, workerVars, producerVars, jobVars>>

RecordTotal ==
    /\ mainPc = "recordTotal"
    /\ total' = Incremented(total)
    /\ mainPc' = AfterStop
    /\ target' = None
    /\ UNCHANGED <<shuttingDown, registry, destination, settingVars, live,
                   workerVars, producerVars, jobVars>>

-------------------------------------------------------------------------------
(* Shutdown, as far as the file worker sees it.                             *)

StopRegistered ==
    stop' = [w \in Worker |-> stop[w] \/ w = registry]

BeginShutdown ==
    /\ mainPc = "loop"
    /\ ~shuttingDown
    /\ shuttingDown' = TRUE
    /\ StopRegistered
    /\ UNCHANGED <<mainPc, target, registry, destination, settingVars,
                   ledgerVars, workerPc, lifetime, queue, hand, producerVars,
                   jobVars>>

\* The event loop ends: the budget is spent, or the capture worker reported
\* that it is done, with or without a shutdown having been requested.
BeginTeardown ==
    /\ mainPc = "loop"
    /\ mainPc' = "teardown"
    /\ shuttingDown' = TRUE
    /\ StopRegistered
    /\ UNCHANGED <<target, registry, destination, settingVars, ledgerVars,
                   workerPc, lifetime, queue, hand, producerVars, jobVars>>

\* Variation: teardown joins the worker without a deadline.
TeardownJoinsBlocking ==
    /\ mainPc = "teardown"
    /\ \A w \in Worker : registry = w => workerPc[w] = "gone"
    /\ registry' = None
    /\ mainPc' = "exited"
    /\ UNCHANGED <<target, shuttingDown, destination, settingVars, ledgerVars,
                   workerVars, producerVars, jobVars>>

\* teardown() reaches the file worker last; the joins before it have ended or
\* given up, so a producer may still be running.
TeardownFileOutput ==
    /\ mainPc = "teardown"
    /\ registry' = None
    /\ target' = registry
    /\ mainPc' = IF registry = None THEN "exited" ELSE "stopping"
    /\ UNCHANGED <<shuttingDown, destination, settingVars, ledgerVars,
                   workerVars, producerVars, jobVars>>

\* The process is gone, and every thread with it.
Exited == mainPc = "exited" /\ UNCHANGED vars

-------------------------------------------------------------------------------
ProducerStep(p) ==
    \/ PassStopCheck(p)
    \/ WakeWithoutCapture(p)
    \/ \E j \in Job : TakeDestinations(p, j)
    \/ Offer(p)

\* Every step of a worker thread except the one that waits for the disk.
WorkerStep(w) ==
    \/ CheckStop(w)
    \/ Receive(w)
    \/ ReceiveTimeout(w)
    \/ DrainOne(w)
    \/ DrainDone(w)
    \/ Finish(w)
    \/ Rejoin(w)
    \/ DropReceiver(w)

WriteStep(w) == \E outcome \in {"written", "failed"} : Write(w, outcome)

\* The steps of the daemon thread that finish what it has begun.
MainStep ==
    \/ InsertSink
    \/ RequestStop
    \/ \E trayOk, saveOk \in BOOLEAN : Settle(trayOk, saveOk)
    \/ Joined
    \/ GiveUp
    \/ RecordLive
    \/ RecordTotal
    \/ TeardownFileOutput

Next ==
    \/ \E p \in Producer : ProducerStep(p)
    \/ \E w \in Worker : WorkerStep(w)
    \/ \E w \in Worker : WriteStep(w)
    \/ \E w \in Worker : StartWorker(w)
    \/ RemoveSink
    \/ BeginShutdown
    \/ BeginTeardown
    \/ MainStep
    \/ Exited

Spec == Init /\ [][Next]_vars

\* Threads are scheduled and deadlines pass; nothing is assumed of the disk.
Scheduled ==
    /\ \A w \in Worker : WF_vars(WorkerStep(w))
    /\ WF_vars(MainStep)
    /\ WF_vars(shuttingDown /\ BeginTeardown)

SpecScheduled == Spec /\ Scheduled

\* The disk answers: every write ends, well or badly.
DiskAnswers == \A w \in Worker : WF_vars(WriteStep(w))

-------------------------------------------------------------------------------
(* Properties.                                                              *)

\* Every variable stays in the range its Rust type and this module give it.
TypeOK ==
    /\ mainPc \in MainStates
    /\ target \in Worker \cup {None}
    /\ shuttingDown \in BOOLEAN
    /\ registry \in Worker \cup {None}
    /\ destination \in Worker \cup {None}
    /\ checkmark \in BOOLEAN
    /\ saved \in BOOLEAN
    /\ live \in 0..(LedgerMod - 1)
    /\ total \in 0..(LedgerMod - 1)
    /\ workerPc \in [Worker -> WorkerStates]
    /\ stop \in [Worker -> BOOLEAN]
    /\ lifetime \in [Worker -> Lifetimes]
    /\ queue \in [Worker -> Seq(Job)]
    /\ hand \in [Worker -> Job \cup {None}]
    /\ producerPc \in [Producer -> ProducerStates]
    /\ snapshot \in [Producer -> Worker \cup {None}]
    /\ offer \in [Producer -> Job \cup {None}]
    /\ fate \in [Job -> Fates]
    /\ owner \in [Job -> Worker \cup {None}]
    /\ late \in SUBSET Job

\* The worker may still put a file in the output directory.
MayWrite(w) == workerPc[w] \in {"top", "receiving", "writing"}

\* Two workers never race for names in the output directory, however often
\* file output is switched off and on and whichever of them were detached:
\* the ledger refuses a start until the worker left behind has finished.
AtMostOneWriter ==
    \A v, w \in Worker : MayWrite(v) /\ MayWrite(w) => v = w

\* Workers written off that have not finished.
WrittenOff == {w \in Worker : lifetime[w] = "detached"}

\* Whenever no addition or subtraction is on its way, the ledger's live count
\* is the number of detached workers that have not returned.
LedgerAgrees ==
    (mainPc # "recordLive" /\ \A w \in Worker : workerPc[w] # "rejoining")
        => live = Cardinality(WrittenOff)

\* Between two requests the registry, the destination set and the worker
\* behind them agree: a producer is never handed the sink of a worker nobody
\* will stop, and no worker runs that neither the registry nor the ledger
\* accounts for.
NoStrayWorker ==
    mainPc = "loop" =>
        /\ destination = registry
        /\ \A w \in Worker :
             MayWrite(w) => w = registry \/ lifetime[w] = "detached"

Ended == {"written", "failed", "abandoned"}

\* A capture accepted before the worker was told to stop always gets its
\* ending: by the time the worker has drained its queue, every such capture
\* has been written, has failed, or has been counted as abandoned.
OnTimeCapturesEnd ==
    \A w \in Worker :
        workerPc[w] \in {"closing", "rejoining", "dropping", "gone"} =>
            \A j \in Job : owner[j] = w /\ j \notin late => fate[j] \in Ended

\* A shutdown that has begun ends with the process gone, whatever the disk does.
ShutdownEnds == shuttingDown ~> mainPc = "exited"

\* If writes end, the slot of a detached worker comes back, so file output can
\* be switched on again.
SlotComesBack ==
    DiskAnswers => (AtCeiling(live) ~> (~AtCeiling(live) \/ mainPc = "exited"))

\* What the comment on the drain loop says (file_output.rs:205-216): a capture
\* still queued when the stop arrives is reported and its trace is closed,
\* never dropped in silence.
NoSilentLoss == \A j \in Job : fate[j] # "lost"

==============================================================================
