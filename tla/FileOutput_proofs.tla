-------------------------- MODULE FileOutput_proofs --------------------------
(***************************************************************************)
(* Proofs about FileOutput for every set of workers, captures and          *)
(* producers, every queue capacity and every width of the ledger counter.  *)
(***************************************************************************)
EXTENDS FileOutput, FiniteSetTheorems, TLAPS

\* Workers the ledger owes a slot for, or is about to get one back from.
Debtors == {w \in Worker : lifetime[w] = "detached" \/ workerPc[w] = "rejoining"}

OneDebtor == \A v, w \in Debtors : v = w

\* The exact value of the ledger's counter, also inside the window between the
\* compare-exchange of a detach and the addition that records it.
LiveIsExact ==
    IF mainPc = "recordLive"
      THEN /\ Debtors \subseteq {target}
           /\ live = (IF Debtors = {} THEN LedgerMod - 1 ELSE 0)
      ELSE live = (IF Debtors = {} THEN 0 ELSE 1)

\* While the daemon holds a worker it has not given up on, nobody is owed.
HoldingMeansNoDebt ==
    (registry # None \/ mainPc \in {"starting", "removed", "stopping", "joining"})
        => Debtors = {}

\* Who may be writing.
WritersAreKnown ==
    \A w \in Worker : MayWrite(w) =>
        \/ w = registry
        \/ w = target /\ mainPc \in {"starting", "removed", "stopping"}
        \/ lifetime[w] = "detached"

\* The WorkerLifetime cell follows the thread.
LifetimeFollowsThread ==
    \A w \in Worker :
        /\ lifetime[w] = "finished" <=>
             workerPc[w] \in {"rejoining", "dropping", "gone"}
        /\ workerPc[w] = "unborn" => lifetime[w] = "running"

Busy == {"starting", "removed", "stopping", "joining", "recordLive", "recordTotal"}

\* What the daemon thread holds in each of its states.
MainIsConsistent ==
    /\ mainPc \in Busy => target \in Worker /\ registry = None
    /\ mainPc \notin Busy => target = None
    /\ mainPc = "exited" => registry = None
    /\ registry # None => workerPc[registry] # "unborn"
    /\ target # None => workerPc[target] # "unborn"
    /\ mainPc = "joining" => lifetime[target] = "finished"
    /\ mainPc = "recordLive" => lifetime[target] # "running"
    /\ mainPc \in {"loop", "settling", "teardown"} => destination = registry
    /\ mainPc = "removed" => destination = None
    /\ mainPc \in {"stopping", "joining", "recordLive", "recordTotal"} =>
         destination \in {None, target}

\* A producer that is about to offer holds a capture.
OffersAreCaptures ==
    \A p \in Producer : producerPc[p] = "offering" => offer[p] \in Job

IInv ==
    /\ TypeOK
    /\ OffersAreCaptures
    /\ MainIsConsistent
    /\ LifetimeFollowsThread
    /\ WritersAreKnown
    /\ OneDebtor
    /\ HoldingMeansNoDebt
    /\ LiveIsExact

-------------------------------------------------------------------------------
USE QueueAssumption, LedgerAssumption, CeilingAssumption, NoneAssumption

\* Type correctness is inductive once a producer's offer is known to be a
\* capture.
LEMMA TypeStep ==
    ASSUME TypeOK, OffersAreCaptures, [Next]_vars
    PROVE  TypeOK'
<1> USE DEF TypeOK, MainStates, WorkerStates, Lifetimes, ProducerStates, Fates
<1>1. CASE UNCHANGED vars
  BY <1>1 DEF vars, mainVars, settingVars, ledgerVars, workerVars, producerVars,
              jobVars
<1>2. ASSUME NEW p \in Producer, ProducerStep(p) PROVE TypeOK'
  <2>1. CASE PassStopCheck(p)
    BY <2>1 DEF PassStopCheck, mainVars, settingVars, ledgerVars, workerVars, jobVars
  <2>2. CASE WakeWithoutCapture(p)
    BY <2>2 DEF WakeWithoutCapture, mainVars, settingVars, ledgerVars, workerVars,
                jobVars
  <2>3. ASSUME NEW j \in Job, TakeDestinations(p, j) PROVE TypeOK'
    BY <2>3 DEF TakeDestinations, mainVars, settingVars, ledgerVars, workerVars
  <2>4. CASE Offer(p)
    <3>1. offer[p] \in Job
      BY <2>4 DEF Offer, OffersAreCaptures
    <3>2. SinkResult(snapshot[p]) \in Fates
      BY DEF SinkResult
    <3>3. SinkResult(snapshot[p]) = "queued" => snapshot[p] \in Worker
      BY DEF SinkResult
    <3>4. CASE SinkResult(snapshot[p]) = "queued"
      <4> DEFINE w == snapshot[p]
      <4>1. w \in Worker /\ queue[w] \in Seq(Job)
        BY <3>3, <3>4
      <4>2. Append(queue[w], offer[p]) \in Seq(Job)
        BY <3>1, <4>1
      <4>3. queue' = [queue EXCEPT ![w] = Append(queue[w], offer[p])]
        BY <2>4, <3>4 DEF Offer
      <4>4. queue' \in [Worker -> Seq(Job)]
        BY <4>1, <4>2, <4>3
      <4>5. owner' = [owner EXCEPT ![offer[p]] = w]
        BY <2>4, <3>4 DEF Offer
      <4>6. late' = IF stop[w] THEN late \cup {offer[p]} ELSE late
        BY <2>4, <3>4 DEF Offer
      <4>7. owner' \in [Job -> Worker \cup {None}] /\ late' \in SUBSET Job
        BY <3>1, <4>1, <4>5, <4>6
      <4>. QED  BY ZenonT(60), <2>4, <3>2, <4>4, <4>7 DEF Offer, mainVars, settingVars, ledgerVars
    <3>5. CASE SinkResult(snapshot[p]) # "queued"
      BY ZenonT(60), <2>4, <3>2, <3>5 DEF Offer, mainVars, settingVars, ledgerVars
    <3>. QED  BY <3>4, <3>5
  <2>. QED  BY <1>2, <2>1, <2>2, <2>3, <2>4 DEF ProducerStep
<1>3. ASSUME NEW w \in Worker, WorkerStep(w) PROVE TypeOK'
  <2> USE DEF MoveWorker, mainVars, settingVars, ledgerVars, producerVars, jobVars
  <2>1. CASE CheckStop(w)
    BY <2>1 DEF CheckStop
  <2>2. CASE Receive(w)
    BY <2>2 DEF Receive
  <2>3. CASE ReceiveTimeout(w)
    BY <2>3 DEF ReceiveTimeout
  <2>4. CASE DrainOne(w)
    BY <2>4 DEF DrainOne
  <2>5. CASE DrainDone(w)
    BY <2>5 DEF DrainDone
  <2>6. CASE Finish(w)
    BY <2>6 DEF Finish
  <2>7. CASE Rejoin(w)
    BY <2>7 DEF Rejoin, Decremented
  <2>8. CASE DropReceiver(w)
    BY <2>8 DEF DropReceiver
  <2>. QED  BY <1>3, <2>1, <2>2, <2>3, <2>4, <2>5, <2>6, <2>7, <2>8 DEF WorkerStep
<1>4. ASSUME NEW w \in Worker, WriteStep(w) PROVE TypeOK'
  <2>1. PICK outcome \in {"written", "failed"} : Write(w, outcome)
    BY <1>4 DEF WriteStep
  <2>2. outcome \in Fates
    BY DEF Fates
  <2>. QED  BY ZenonT(60), <2>1, <2>2 DEF Write, MoveWorker, mainVars, settingVars, ledgerVars,
                              producerVars
<1>5. ASSUME NEW w \in Worker, StartWorker(w) PROVE TypeOK'
  BY <1>5 DEF StartWorker, MoveWorker, settingVars, ledgerVars, producerVars, jobVars
<1>6. CASE RemoveSink \/ BeginShutdown \/ BeginTeardown
  BY ZenonT(60), <1>6 DEF RemoveSink, BeginShutdown, BeginTeardown, StopRegistered,
              settingVars, ledgerVars, workerVars, producerVars, jobVars
<1>7. CASE MainStep
  <2> USE DEF settingVars, ledgerVars, workerVars, producerVars, jobVars, AfterStop
  <2>1. CASE InsertSink \/ RequestStop \/ Joined \/ TeardownFileOutput
    BY <2>1 DEF InsertSink, RequestStop, Joined, TeardownFileOutput
  <2>2. ASSUME NEW t \in BOOLEAN, NEW s \in BOOLEAN, Settle(t, s) PROVE TypeOK'
    BY <2>2 DEF Settle
  <2>3. CASE GiveUp
    BY <2>3 DEF GiveUp
  <2>4. CASE RecordLive \/ RecordTotal
    BY <2>4 DEF RecordLive, RecordTotal, Incremented
  <2>. QED  BY <1>7, <2>1, <2>2, <2>3, <2>4 DEF MainStep
<1>8. CASE Exited
  BY <1>8 DEF Exited, vars, mainVars, settingVars, ledgerVars, workerVars,
              producerVars, jobVars
<1>. QED  BY <1>1, <1>2, <1>3, <1>4, <1>5, <1>6, <1>7, <1>8 DEF Next

-------------------------------------------------------------------------------
(* The part of the invariant about the daemon thread, the workers and the   *)
(* ledger, and the variables it reads.                                      *)

Accounting ==
    /\ MainIsConsistent
    /\ LifetimeFollowsThread
    /\ WritersAreKnown
    /\ OneDebtor
    /\ HoldingMeansNoDebt
    /\ LiveIsExact

accountingVars == <<mainPc, target, registry, destination, live, workerPc, lifetime>>

\* What the accounting invariant reads; a step that changes none of it keeps it.
LEMMA AccountingStutters ==
    ASSUME Accounting, UNCHANGED accountingVars
    PROVE  Accounting'
BY DEF Accounting, accountingVars, MainIsConsistent, LifetimeFollowsThread,
       WritersAreKnown, OneDebtor, HoldingMeansNoDebt, LiveIsExact, Debtors,
       MayWrite, Busy

\* A step of a thread's program counter that neither ends the thread nor
\* touches the ledger disturbs nothing, as long as it does not make a thread
\* that has stopped writing write again.
LEMMA MovingKeepsAccounting ==
    ASSUME TypeOK, Accounting, NEW w \in Worker, NEW pc \in WorkerStates,
           workerPc' = [workerPc EXCEPT ![w] = pc],
           UNCHANGED <<mainPc, target, registry, destination, live, lifetime>>,
           workerPc[w] \in {"top", "receiving", "writing", "draining"},
           pc \in {"top", "receiving", "writing", "draining", "closing"},
           workerPc[w] = "draining" => pc = "closing"
    PROVE  Accounting'
<1>1. \A v \in Worker : workerPc'[v] = IF v = w THEN pc ELSE workerPc[v]
  BY DEF TypeOK
<1>2. Debtors' = Debtors
  BY <1>1 DEF Debtors
<1>3. \A v \in Worker : MayWrite(v)' => MayWrite(v)
  BY <1>1 DEF MayWrite
<1>4. MainIsConsistent' /\ LifetimeFollowsThread'
  BY <1>1 DEF Accounting, MainIsConsistent, LifetimeFollowsThread, Busy, TypeOK
<1>5. WritersAreKnown'
  BY <1>3 DEF Accounting, WritersAreKnown
<1>6. OneDebtor' /\ HoldingMeansNoDebt' /\ LiveIsExact'
  BY <1>2 DEF Accounting, OneDebtor, HoldingMeansNoDebt, LiveIsExact
<1>. QED  BY <1>4, <1>5, <1>6 DEF Accounting

\* The thread's own end: its cell becomes "finished", and it stays a debtor
\* exactly if it had been written off.
LEMMA FinishKeepsAccounting ==
    ASSUME TypeOK, Accounting, NEW w \in Worker, Finish(w)
    PROVE  Accounting'
<1> USE DEF TypeOK, Accounting
<1>1. /\ workerPc[w] = "closing"
      /\ lifetime' = [lifetime EXCEPT ![w] = "finished"]
      /\ workerPc' = [workerPc EXCEPT ![w] =
                         IF lifetime[w] = "detached" THEN "rejoining" ELSE "dropping"]
      /\ UNCHANGED <<mainPc, target, registry, destination, live>>
  BY DEF Finish, MoveWorker, mainVars, ledgerVars
<1>2. Debtors' = Debtors
  BY <1>1 DEF Debtors
<1>3. MainIsConsistent' /\ LifetimeFollowsThread'
  BY <1>1 DEF MainIsConsistent, LifetimeFollowsThread, Busy
<1>4. WritersAreKnown'
  BY <1>1 DEF WritersAreKnown, MayWrite
<1>5. OneDebtor' /\ HoldingMeansNoDebt' /\ LiveIsExact'
  BY <1>1, <1>2 DEF OneDebtor, HoldingMeansNoDebt, LiveIsExact
<1>. QED  BY <1>3, <1>4, <1>5

\* The only subtraction: the one debtor there is pays its slot back, before or
\* after the daemon thread has recorded the detach.
LEMMA RejoinKeepsAccounting ==
    ASSUME TypeOK, Accounting, NEW w \in Worker, Rejoin(w)
    PROVE  Accounting'
<1> USE DEF TypeOK, Accounting
<1>1. /\ workerPc[w] = "rejoining"
      /\ live' = Decremented(live)
      /\ workerPc' = [workerPc EXCEPT ![w] = "dropping"]
      /\ UNCHANGED <<mainPc, target, registry, destination, lifetime>>
  BY DEF Rejoin, MoveWorker, mainVars
<1>2. w \in Debtors /\ lifetime[w] = "finished"
  BY <1>1 DEF Debtors, LifetimeFollowsThread
<1>3. Debtors = {w}
  BY <1>2 DEF OneDebtor, Debtors
<1>4. Debtors' = {}
  BY <1>1, <1>2, <1>3 DEF Debtors
<1>5. MainIsConsistent' /\ LifetimeFollowsThread'
  BY <1>1 DEF MainIsConsistent, LifetimeFollowsThread, Busy
<1>6. WritersAreKnown'
  BY <1>1 DEF WritersAreKnown, MayWrite
<1>7. OneDebtor' /\ HoldingMeansNoDebt'
  BY <1>4 DEF OneDebtor, HoldingMeansNoDebt
<1>8. LiveIsExact'
  BY <1>1, <1>3, <1>4 DEF LiveIsExact, Decremented
<1>. QED  BY <1>5, <1>6, <1>7, <1>8

\* Dropping the receiver ends the thread: its cell is already "finished" and
\* its debt already paid.
LEMMA DropKeepsAccounting ==
    ASSUME TypeOK, Accounting, NEW w \in Worker, DropReceiver(w)
    PROVE  Accounting'
<1> USE DEF TypeOK, Accounting
<1>1. /\ workerPc[w] = "dropping"
      /\ workerPc' = [workerPc EXCEPT ![w] = "gone"]
      /\ UNCHANGED <<mainPc, target, registry, destination, live, lifetime>>
  BY DEF DropReceiver, MoveWorker, mainVars, ledgerVars
<1>2. Debtors' = Debtors
  BY <1>1 DEF Debtors
<1>3. MainIsConsistent' /\ LifetimeFollowsThread'
  BY <1>1 DEF MainIsConsistent, LifetimeFollowsThread, Busy
<1>4. WritersAreKnown'
  BY <1>1 DEF WritersAreKnown, MayWrite
<1>5. OneDebtor' /\ HoldingMeansNoDebt' /\ LiveIsExact'
  BY <1>1, <1>2 DEF OneDebtor, HoldingMeansNoDebt, LiveIsExact
<1>. QED  BY <1>3, <1>4, <1>5

\* A worker is started only when nobody is owed a slot.
LEMMA StartKeepsAccounting ==
    ASSUME TypeOK, Accounting, NEW w \in Worker, StartWorker(w)
    PROVE  Accounting'
<1> USE DEF TypeOK, Accounting
<1>1. /\ mainPc = "loop" /\ registry = None /\ workerPc[w] = "unborn"
      /\ live = 0
      /\ workerPc' = [workerPc EXCEPT ![w] = "top"]
      /\ target' = w /\ mainPc' = "starting"
      /\ UNCHANGED <<registry, destination, live, lifetime>>
  BY DEF StartWorker, MoveWorker, AtCeiling, ledgerVars
<1>2. Debtors = {}
  BY <1>1 DEF LiveIsExact
<1>3. Debtors' = {}
  BY <1>1, <1>2 DEF Debtors
<1>4. MainIsConsistent' /\ LifetimeFollowsThread'
  BY <1>1 DEF MainIsConsistent, LifetimeFollowsThread, Busy
<1>5. WritersAreKnown'
  BY <1>1 DEF WritersAreKnown, MayWrite
<1>6. OneDebtor' /\ HoldingMeansNoDebt' /\ LiveIsExact'
  BY <1>1, <1>3 DEF OneDebtor, HoldingMeansNoDebt, LiveIsExact
<1>. QED  BY <1>4, <1>5, <1>6

\* The compare-exchange creates the only debtor there can be.
LEMMA GiveUpKeepsAccounting ==
    ASSUME TypeOK, Accounting, GiveUp
    PROVE  Accounting'
<1> USE DEF TypeOK, Accounting
<1>1. /\ mainPc = "stopping" /\ target \in Worker /\ registry = None
      /\ workerPc[target] # "gone"
      /\ UNCHANGED <<target, registry, destination, live, workerPc>>
  BY DEF GiveUp, MainIsConsistent, Busy, ledgerVars
<1>2. Debtors = {} /\ live = 0
  BY <1>1 DEF HoldingMeansNoDebt, LiveIsExact
<1>3. CASE lifetime[target] = "running"
  <2>1. lifetime' = [lifetime EXCEPT ![target] = "detached"] /\ mainPc' = "recordLive"
    BY <1>3 DEF GiveUp
  <2>2. Debtors' = {target}
    BY <1>1, <1>2, <2>1 DEF Debtors
  <2>3. MainIsConsistent' /\ LifetimeFollowsThread'
    BY <1>1, <1>3, <2>1 DEF MainIsConsistent, LifetimeFollowsThread, Busy
  <2>4. WritersAreKnown'
    BY <1>1, <2>1 DEF WritersAreKnown, MayWrite
  <2>5. OneDebtor' /\ HoldingMeansNoDebt' /\ LiveIsExact'
    BY <1>1, <1>2, <2>1, <2>2 DEF OneDebtor, HoldingMeansNoDebt, LiveIsExact
  <2>. QED  BY <2>3, <2>4, <2>5
<1>4. CASE lifetime[target] # "running"
  <2>1. lifetime' = lifetime /\ mainPc' = "joining" /\ lifetime[target] = "finished"
    BY <1>1, <1>2, <1>4 DEF GiveUp, Debtors, Lifetimes
  <2>2. Debtors' = {}
    BY <1>1, <1>2, <2>1 DEF Debtors
  <2>3. MainIsConsistent' /\ LifetimeFollowsThread'
    BY <1>1, <2>1 DEF MainIsConsistent, LifetimeFollowsThread, Busy
  <2>4. WritersAreKnown'
    BY <1>1, <2>1 DEF WritersAreKnown, MayWrite, LifetimeFollowsThread
  <2>5. OneDebtor' /\ HoldingMeansNoDebt' /\ LiveIsExact'
    BY <1>1, <1>2, <2>1, <2>2 DEF OneDebtor, HoldingMeansNoDebt, LiveIsExact
  <2>. QED  BY <2>3, <2>4, <2>5
<1>. QED  BY <1>3, <1>4

\* The remaining steps of the daemon thread leave every worker where it is.
LEMMA MainKeepsAccounting ==
    ASSUME TypeOK, Accounting,
           \/ InsertSink \/ RemoveSink \/ RequestStop \/ Joined
           \/ RecordLive \/ RecordTotal \/ TeardownFileOutput
           \/ BeginShutdown \/ BeginTeardown
           \/ \E t, s \in BOOLEAN : Settle(t, s)
    PROVE  Accounting'
<1> USE DEF TypeOK, Accounting, settingVars, ledgerVars, workerVars, MainIsConsistent,
            Busy
<1>1. UNCHANGED <<workerPc, lifetime>>
  BY DEF InsertSink, RemoveSink, RequestStop, Joined, RecordLive, RecordTotal,
         TeardownFileOutput, BeginShutdown, BeginTeardown, Settle
<1>2. Debtors' = Debtors /\ LifetimeFollowsThread' /\ OneDebtor'
  BY <1>1 DEF Debtors, LifetimeFollowsThread, OneDebtor
<1>3. CASE InsertSink
  BY <1>1, <1>2, <1>3 DEF InsertSink, WritersAreKnown, MayWrite, HoldingMeansNoDebt,
                          LiveIsExact
<1>4. CASE RemoveSink
  BY <1>1, <1>2, <1>4 DEF RemoveSink, WritersAreKnown, MayWrite, HoldingMeansNoDebt,
                          LiveIsExact
<1>5. CASE RequestStop
  BY <1>1, <1>2, <1>5 DEF RequestStop, WritersAreKnown, MayWrite, HoldingMeansNoDebt,
                          LiveIsExact
<1>6. CASE Joined
  BY <1>1, <1>2, <1>6 DEF Joined, AfterStop, WritersAreKnown, MayWrite,
                          HoldingMeansNoDebt, LiveIsExact, LifetimeFollowsThread
<1>7. CASE RecordLive
  <2>1. /\ mainPc = "recordLive" /\ mainPc' = "recordTotal"
        /\ live' = Incremented(live)
        /\ UNCHANGED <<target, registry, destination>>
    BY <1>7 DEF RecordLive
  <2>2. LiveIsExact'
    BY <1>2, <2>1 DEF LiveIsExact, Incremented
  <2>. QED  BY <1>1, <1>2, <2>1, <2>2 DEF WritersAreKnown, MayWrite, HoldingMeansNoDebt
<1>8. CASE RecordTotal
  BY <1>1, <1>2, <1>8 DEF RecordTotal, AfterStop, WritersAreKnown, MayWrite,
                          HoldingMeansNoDebt, LiveIsExact
<1>9. CASE TeardownFileOutput
  BY <1>1, <1>2, <1>9 DEF TeardownFileOutput, WritersAreKnown, MayWrite,
                          HoldingMeansNoDebt, LiveIsExact
<1>10. CASE BeginShutdown \/ BeginTeardown
  BY <1>1, <1>2, <1>10 DEF BeginShutdown, BeginTeardown, WritersAreKnown, MayWrite,
                           HoldingMeansNoDebt, LiveIsExact
<1>11. ASSUME NEW t \in BOOLEAN, NEW s \in BOOLEAN, Settle(t, s) PROVE Accounting'
  BY <1>1, <1>2, <1>11 DEF Settle, WritersAreKnown, MayWrite, HoldingMeansNoDebt,
                           LiveIsExact
<1>. QED  BY <1>3, <1>4, <1>5, <1>6, <1>7, <1>8, <1>9, <1>10, <1>11

-------------------------------------------------------------------------------
(* The inductive invariant, and what it implies.                            *)

\* At startup nobody is detached and the first worker, if any, is registered.
LEMMA InitEstablishes == ASSUME Init PROVE IInv
<1>1. PICK first \in Worker \cup {None} : InitWith(first)
  BY DEF Init
<1> USE DEF InitWith
<1>2. TypeOK
  <2> USE DEF MainStates, WorkerStates, Lifetimes, ProducerStates, Fates
  <2>1. workerPc \in [Worker -> WorkerStates]
    BY <1>1 DEF Started
  <2>2. queue \in [Worker -> Seq(Job)]
    <3>1. <<>> \in Seq(Job)
      OBVIOUS
    <3>. QED  BY <1>1, <3>1
  <2>3. /\ checkmark \in BOOLEAN /\ saved \in BOOLEAN
        /\ stop \in [Worker -> BOOLEAN]
    BY <1>1
  <2>4. /\ live \in 0..(LedgerMod - 1)
        /\ total \in 0..(LedgerMod - 1)
    BY <1>1
  <2>5. /\ lifetime \in [Worker -> Lifetimes]
        /\ hand \in [Worker -> Job \cup {None}]
        /\ producerPc \in [Producer -> ProducerStates]
        /\ snapshot \in [Producer -> Worker \cup {None}]
        /\ offer \in [Producer -> Job \cup {None}]
    BY <1>1
  <2>6. /\ fate \in [Job -> Fates]
        /\ owner \in [Job -> Worker \cup {None}]
        /\ late \in SUBSET Job
    BY <1>1
  <2>7. /\ mainPc \in MainStates /\ shuttingDown \in BOOLEAN
        /\ target \in Worker \cup {None} /\ registry \in Worker \cup {None}
        /\ destination \in Worker \cup {None}
    BY <1>1
  <2>. QED  BY <2>1, <2>2, <2>3, <2>4, <2>5, <2>6, <2>7 DEF TypeOK
<1>3. Debtors = {}
  BY <1>1 DEF Debtors, Started
<1>4. MainIsConsistent /\ LifetimeFollowsThread /\ WritersAreKnown
  BY <1>1 DEF MainIsConsistent, LifetimeFollowsThread, WritersAreKnown, MayWrite,
              Started, Busy
<1>5. OneDebtor /\ HoldingMeansNoDebt /\ LiveIsExact
  BY <1>1, <1>3 DEF OneDebtor, HoldingMeansNoDebt, LiveIsExact
<1>6. OffersAreCaptures
  BY <1>1 DEF OffersAreCaptures
<1>. QED  BY <1>2, <1>4, <1>5, <1>6 DEF IInv

\* A producer about to offer holds a capture, after every step.
LEMMA OffersStep ==
    ASSUME TypeOK, OffersAreCaptures, [Next]_vars
    PROVE  OffersAreCaptures'
<1> USE DEF TypeOK, OffersAreCaptures
<1>1. CASE UNCHANGED producerVars
  BY <1>1 DEF producerVars
<1>2. ASSUME NEW p \in Producer, ProducerStep(p) PROVE OffersAreCaptures'
  BY <1>2 DEF ProducerStep, PassStopCheck, WakeWithoutCapture, TakeDestinations, Offer
<1>3. ASSUME NEW w \in Worker,
             WorkerStep(w) \/ WriteStep(w) \/ StartWorker(w)
      PROVE  UNCHANGED producerVars
  BY <1>3 DEF WorkerStep, CheckStop, Receive, ReceiveTimeout, DrainOne, DrainDone,
              Finish, Rejoin, DropReceiver, WriteStep, Write, StartWorker
<1>4. RemoveSink \/ BeginShutdown \/ BeginTeardown \/ MainStep => UNCHANGED producerVars
  BY DEF RemoveSink, BeginShutdown, BeginTeardown, MainStep, InsertSink, RequestStop,
         Settle, Joined, GiveUp, RecordLive, RecordTotal, TeardownFileOutput
<1>5. Exited \/ UNCHANGED vars => UNCHANGED producerVars
  BY DEF Exited, vars
<1>. QED  BY <1>1, <1>2, <1>3, <1>4, <1>5 DEF Next

\* Every step keeps the accounting of workers, the registry and the ledger.
LEMMA AccountingStep ==
    ASSUME TypeOK, Accounting, [Next]_vars
    PROVE  Accounting'
<1>1. CASE UNCHANGED vars
  BY <1>1, AccountingStutters DEF vars, accountingVars, mainVars, ledgerVars, workerVars
<1>2. ASSUME NEW p \in Producer, ProducerStep(p) PROVE Accounting'
  BY <1>2, AccountingStutters
     DEF ProducerStep, PassStopCheck, WakeWithoutCapture, TakeDestinations, Offer,
         accountingVars, mainVars, ledgerVars, workerVars
<1>3. ASSUME NEW w \in Worker, WorkerStep(w) PROVE Accounting'
  <2> USE DEF MoveWorker, mainVars, ledgerVars, WorkerStates
  <2>1. CASE CheckStop(w)
    BY <2>1, MovingKeepsAccounting DEF CheckStop
  <2>2. CASE Receive(w)
    BY <2>2, MovingKeepsAccounting DEF Receive
  <2>3. CASE ReceiveTimeout(w)
    BY <2>3, MovingKeepsAccounting DEF ReceiveTimeout
  <2>4. CASE DrainOne(w)
    BY <2>4, AccountingStutters DEF DrainOne, accountingVars
  <2>5. CASE DrainDone(w)
    BY <2>5, MovingKeepsAccounting DEF DrainDone
  <2>. QED  BY <1>3, <2>1, <2>2, <2>3, <2>4, <2>5, FinishKeepsAccounting,
               RejoinKeepsAccounting, DropKeepsAccounting DEF WorkerStep
<1>4. ASSUME NEW w \in Worker, WriteStep(w) PROVE Accounting'
  BY <1>4, MovingKeepsAccounting
     DEF WriteStep, Write, MoveWorker, mainVars, ledgerVars, WorkerStates
<1>5. ASSUME NEW w \in Worker, StartWorker(w) PROVE Accounting'
  BY <1>5, StartKeepsAccounting
<1>6. CASE RemoveSink \/ BeginShutdown \/ BeginTeardown \/ MainStep
  BY <1>6, MainKeepsAccounting, GiveUpKeepsAccounting DEF MainStep
<1>7. CASE Exited
  BY <1>7, AccountingStutters DEF Exited, vars, accountingVars, mainVars, ledgerVars,
                                  workerVars
<1>. QED  BY <1>1, <1>2, <1>3, <1>4, <1>5, <1>6, <1>7 DEF Next

\* The inductive invariant holds in every reachable state.
LEMMA Inductive == Spec => []IInv
<1>1. Init => IInv
  BY InitEstablishes
<1>2. IInv /\ [Next]_vars => IInv'
  BY TypeStep, OffersStep, AccountingStep DEF IInv, Accounting
<1>. QED  BY <1>1, <1>2, PTL DEF Spec

\* Every variable stays in its range, for every width of the ledger counter.
THEOREM TypeCorrect == Spec => []TypeOK
<1>1. IInv => TypeOK
  BY DEF IInv
<1>. QED  BY <1>1, Inductive, PTL

\* Two file-output workers never write into the output directory at once: the
\* refusal at the ledger's ceiling is enough, across detaches, late exits and
\* the window in which a detach is not recorded yet.
THEOREM OneWriter == Spec => []AtMostOneWriter
<1>1. IInv => AtMostOneWriter
  BY DEF IInv, AtMostOneWriter, WritersAreKnown, OneDebtor, HoldingMeansNoDebt,
         MainIsConsistent, Debtors, Busy, TypeOK
<1>. QED  BY <1>1, Inductive, PTL

\* At rest, the ledger's live count is exactly the number of detached workers
\* that have not returned.
THEOREM LedgerIsHonest == Spec => []LedgerAgrees
<1>1. ASSUME IInv PROVE LedgerAgrees
  <2> SUFFICES ASSUME mainPc # "recordLive",
                      \A w \in Worker : workerPc[w] # "rejoining"
               PROVE  live = Cardinality(WrittenOff)
    BY DEF LedgerAgrees
  <2>1. WrittenOff = Debtors
    BY DEF WrittenOff, Debtors
  <2>2. CASE Debtors = {}
    BY <1>1, <2>1, <2>2, FS_EmptySet DEF IInv, LiveIsExact
  <2>3. CASE Debtors # {}
    <3>1. PICK w \in Worker : Debtors = {w}
      BY <1>1, <2>3 DEF IInv, OneDebtor, Debtors
    <3>2. Cardinality(WrittenOff) = 1
      BY <2>1, <3>1, FS_Singleton
    <3>. QED  BY <1>1, <2>3, <3>2 DEF IInv, LiveIsExact
  <2>. QED  BY <2>2, <2>3
<1>. QED  BY <1>1, Inductive, PTL

\* Between two requests of the user, the destination set names the registered
\* worker and nothing else runs that the ledger does not account for.
THEOREM NoStray == Spec => []NoStrayWorker
<1>1. IInv => NoStrayWorker
  BY DEF IInv, NoStrayWorker, MainIsConsistent, WritersAreKnown
<1>. QED  BY <1>1, Inductive, PTL

-------------------------------------------------------------------------------
(* What becomes of a capture that a worker's queue accepted.               *)

Has(s, x) == \E i \in DOMAIN s : s[i] = x
Once(s) == \A i, k \in DOMAIN s : s[i] = s[k] => i = k

Queued(w, j) == Has(queue[w], j)

\* The worker has seen the stop; it has drained its queue as well.
Stopping(w) == workerPc[w] \in {"draining", "closing", "rejoining", "dropping", "gone"}
Drained(w) == workerPc[w] \in {"closing", "rejoining", "dropping", "gone"}

\* A capture that is offered is offered by one producer, and owned by nobody.
OffersAreFresh ==
    /\ \A p \in Producer : producerPc[p] = "offering" => fate[offer[p]] = "offered"
    /\ \A p, q \in Producer :
         producerPc[p] = "offering" /\ producerPc[q] = "offering" /\ offer[p] = offer[q]
           => p = q
    /\ \A j \in Job : fate[j] \in {"none", "offered", "rejected", "disabled"} => owner[j] = None

\* A queued capture is once in its owner's queue or in its hand.
QueuesHold ==
    /\ \A w \in Worker : Once(queue[w])
    /\ \A w \in Worker : hand[w] # None <=> workerPc[w] = "writing"
    /\ \A w \in Worker, j \in Job :
         Queued(w, j) \/ hand[w] = j => owner[j] = w /\ fate[j] = "queued"
    /\ \A w \in Worker, j \in Job : Queued(w, j) => hand[w] # j
    /\ \A w \in Worker, j \in Job :
         owner[j] = w /\ fate[j] = "queued" => Queued(w, j) \/ hand[w] = j

\* A worker stops for no other reason than its flag, and while its thread
\* lives an accepted capture is queued or has ended.
StopsWhenTold ==
    /\ \A w \in Worker : Stopping(w) => stop[w]
    /\ \A w \in Worker, j \in Job :
         owner[j] = w /\ workerPc[w] # "gone" => fate[j] \in Ended \cup {"queued"}

Captures == OffersAreFresh /\ QueuesHold /\ StopsWhenTold /\ OnTimeCapturesEnd

captureVars == <<workerPc, stop, queue, hand, producerPc, offer, fate, owner, late>>

\* What joins a queue.
LEMMA AppendHas ==
    ASSUME NEW S, NEW s \in Seq(S), NEW e \in S
    PROVE  /\ Append(s, e) \in Seq(S)
           /\ \A x : Has(Append(s, e), x) <=> Has(s, x) \/ x = e
           /\ Once(s) /\ ~Has(s, e) => Once(Append(s, e))
<1>1. /\ Append(s, e) \in Seq(S) /\ DOMAIN Append(s, e) = 1..(Len(s) + 1)
      /\ Len(s) \in Nat /\ DOMAIN s = 1..Len(s)
      /\ Append(s, e)[Len(s) + 1] = e
      /\ \A i \in 1..Len(s) : Append(s, e)[i] = s[i]
  OBVIOUS
<1>2. ASSUME NEW x PROVE Has(Append(s, e), x) <=> Has(s, x) \/ x = e
  BY <1>1 DEF Has
<1>3. ASSUME Once(s), ~Has(s, e) PROVE Once(Append(s, e))
  BY <1>1, <1>3 DEF Has, Once
<1>. QED  BY <1>1, <1>2, <1>3

\* What leaves one.
LEMMA TailHas ==
    ASSUME NEW S, NEW s \in Seq(S), s # <<>>
    PROVE  /\ Tail(s) \in Seq(S) /\ Head(s) \in S
           /\ \A x : Has(s, x) <=> x = Head(s) \/ Has(Tail(s), x)
           /\ Once(s) => Once(Tail(s)) /\ ~Has(Tail(s), Head(s))
<1>1. /\ Tail(s) \in Seq(S) /\ Len(s) \in Nat \ {0} /\ DOMAIN s = 1..Len(s)
      /\ DOMAIN Tail(s) = 1..(Len(s) - 1) /\ Head(s) = s[1] /\ s[1] \in S
      /\ \A i \in 1..(Len(s) - 1) : Tail(s)[i] = s[i + 1]
  OBVIOUS
<1>2. Has(s, Head(s))
  BY <1>1 DEF Has
<1>3. ASSUME NEW x PROVE Has(s, x) <=> x = Head(s) \/ Has(Tail(s), x)
  <2>1. ASSUME NEW i \in DOMAIN s, s[i] = x, i # 1 PROVE Has(Tail(s), x)
    <3>1. i - 1 \in DOMAIN Tail(s) /\ Tail(s)[i - 1] = x
      BY <1>1, <2>1
    <3>. QED  BY <3>1 DEF Has
  <2>2. ASSUME NEW i \in DOMAIN Tail(s), Tail(s)[i] = x PROVE Has(s, x)
    <3>1. i + 1 \in DOMAIN s /\ s[i + 1] = x
      BY <1>1, <2>2
    <3>. QED  BY <3>1 DEF Has
  <2>. QED  BY <1>1, <1>2, <2>1, <2>2 DEF Has
<1>4. ASSUME Once(s) PROVE Once(Tail(s)) /\ ~Has(Tail(s), Head(s))
  BY <1>1, <1>4 DEF Has, Once
<1>. QED  BY <1>1, <1>3, <1>4

\* A step that touches neither a capture nor who has it.
LEMMA CapturesStutter ==
    ASSUME Captures, UNCHANGED captureVars
    PROVE  Captures'
<1>1. OffersAreFresh'
  BY DEF Captures, OffersAreFresh, captureVars
<1>2. QueuesHold'
  BY DEF Captures, QueuesHold, Queued, captureVars
<1>3. StopsWhenTold'
  BY DEF Captures, StopsWhenTold, Stopping, captureVars
<1>4. OnTimeCapturesEnd'
  BY DEF Captures, OnTimeCapturesEnd, captureVars
<1>. QED  BY <1>1, <1>2, <1>3, <1>4 DEF Captures

\* A worker is told to stop.
LEMMA TellingKeepsCaptures ==
    ASSUME Captures, \A w \in Worker : stop[w] => stop'[w],
           UNCHANGED <<workerPc, queue, hand, producerPc, offer, fate, owner, late>>
    PROVE  Captures'
<1>1. OffersAreFresh'
  BY DEF Captures, OffersAreFresh
<1>2. QueuesHold'
  BY DEF Captures, QueuesHold, Queued
<1>3. StopsWhenTold'
  BY DEF Captures, StopsWhenTold, Stopping
<1>4. OnTimeCapturesEnd'
  BY DEF Captures, OnTimeCapturesEnd
<1>. QED  BY <1>1, <1>2, <1>3, <1>4 DEF Captures

\* A worker goes on with nothing in its hand: it stops when it is told to, and
\* is through with draining when its queue is empty.
LEMMA MovingKeepsCaptures ==
    ASSUME TypeOK, Captures, NEW w \in Worker, NEW pc \in WorkerStates,
           workerPc' = [workerPc EXCEPT ![w] = pc],
           workerPc[w] \notin {"writing", "gone"}, pc \notin {"writing", "gone"},
           Stopping(w)' => Stopping(w) \/ stop[w],
           Drained(w)' => Drained(w) \/ queue[w] = <<>>,
           UNCHANGED <<stop, queue, hand, producerPc, offer, fate, owner, late>>
    PROVE  Captures'
<1>1. workerPc'[w] = pc /\ \A v \in Worker : v # w => workerPc'[v] = workerPc[v]
  BY DEF TypeOK
<1>2. OffersAreFresh'
  BY DEF Captures, OffersAreFresh
<1>3. QueuesHold'
  BY <1>1 DEF Captures, QueuesHold, Queued
<1>4. StopsWhenTold'
  BY <1>1 DEF Captures, StopsWhenTold, Stopping
<1>5. \A j \in Job : Drained(w)' /\ owner[j] = w /\ j \notin late => fate[j] \in Ended
  <2> SUFFICES ASSUME NEW j \in Job, Drained(w)', owner[j] = w, j \notin late
               PROVE  fate[j] \in Ended
    OBVIOUS
  <2>1. CASE Drained(w)
    BY <2>1 DEF Captures, OnTimeCapturesEnd, Drained
  <2>2. CASE queue[w] = <<>>
    <3>1. ~Queued(w, j)
      BY <2>2 DEF Queued, Has
    <3>2. hand[w] # j
      BY NoneAssumption DEF Captures, QueuesHold
    <3>3. fate[j] # "queued"
      BY <3>1, <3>2 DEF Captures, QueuesHold
    <3>. QED  BY <3>3 DEF Captures, StopsWhenTold
  <2>. QED  BY <2>1, <2>2
<1>6. OnTimeCapturesEnd'
  BY <1>1, <1>5 DEF Captures, OnTimeCapturesEnd, Drained
<1>. QED  BY <1>2, <1>3, <1>4, <1>6 DEF Captures

\* A producer that goes on without a capture.
LEMMA PassingKeepsCaptures ==
    ASSUME TypeOK, Captures, NEW p \in Producer, NEW pc \in ProducerStates, pc # "offering",
           producerPc' = [producerPc EXCEPT ![p] = pc],
           UNCHANGED <<workerPc, stop, queue, hand, offer, fate, owner, late>>
    PROVE  Captures'
<1>1. \A q \in Producer : producerPc'[q] = "offering" => producerPc[q] = "offering"
  BY DEF TypeOK
<1>2. OffersAreFresh'
  BY <1>1 DEF Captures, OffersAreFresh
<1>3. QueuesHold'
  BY DEF Captures, QueuesHold, Queued
<1>4. StopsWhenTold' /\ OnTimeCapturesEnd'
  BY DEF Captures, StopsWhenTold, Stopping, OnTimeCapturesEnd
<1>. QED  BY <1>2, <1>3, <1>4 DEF Captures

\* A producer has a capture for the sink it found.
LEMMA TakingKeepsCaptures ==
    ASSUME TypeOK, OffersAreCaptures, Captures, NEW p \in Producer, NEW j \in Job,
           TakeDestinations(p, j)
    PROVE  Captures'
<1> USE DEF Captures
<1>1. /\ UNCHANGED <<workerPc, stop, queue, hand, owner, late>>
      /\ fate[j] = "none" /\ fate'[j] = "offered"
      /\ \A k \in Job : k # j => fate'[k] = fate[k]
      /\ offer'[p] = j /\ producerPc'[p] = "offering"
      /\ \A q \in Producer : q # p => offer'[q] = offer[q] /\ producerPc'[q] = producerPc[q]
  BY DEF TakeDestinations, workerVars, TypeOK
<1>2. owner[j] = None
  BY <1>1 DEF OffersAreFresh
<1>3. \A q \in Producer : producerPc[q] = "offering" =>
        offer[q] \in Job /\ offer[q] # j /\ fate[offer[q]] = "offered"
  BY <1>1 DEF OffersAreFresh, OffersAreCaptures
<1>4. OffersAreFresh'
  <2>1. ASSUME NEW q \in Producer, producerPc'[q] = "offering"
        PROVE  fate'[offer'[q]] = "offered"
    <3>1. CASE q = p
      BY <1>1, <3>1
    <3>2. CASE q # p
      BY <1>1, <1>3, <2>1, <3>2
    <3>. QED  BY <3>1, <3>2
  <2>2. ASSUME NEW q \in Producer, NEW s \in Producer,
               producerPc'[q] = "offering", producerPc'[s] = "offering", offer'[q] = offer'[s]
        PROVE  q = s
    <3>1. CASE q = p
      BY <1>1, <1>3, <2>2, <3>1
    <3>2. CASE s = p
      BY <1>1, <1>3, <2>2, <3>2
    <3>3. CASE q # p /\ s # p
      BY <1>1, <2>2, <3>3 DEF OffersAreFresh
    <3>. QED  BY <3>1, <3>2, <3>3
  <2>3. \A k \in Job : fate'[k] \in {"none", "offered", "rejected", "disabled"} => owner'[k] = None
    BY <1>1, <1>2 DEF OffersAreFresh
  <2>. QED  BY <2>1, <2>2, <2>3 DEF OffersAreFresh
<1>5. QueuesHold'
  BY <1>1, <1>2, NoneAssumption DEF QueuesHold, Queued
<1>6. \A w \in Worker, k \in Job : owner'[k] = w => owner[k] = w /\ fate'[k] = fate[k]
  BY <1>1, <1>2, NoneAssumption
<1>7. StopsWhenTold'
  BY <1>1, <1>6 DEF StopsWhenTold, Stopping
<1>8. OnTimeCapturesEnd'
  BY <1>1, <1>6 DEF OnTimeCapturesEnd
<1>. QED  BY <1>4, <1>5, <1>7, <1>8

\* The sink accepts the capture, late or in time, or it does not.
LEMMA OfferingKeepsCaptures ==
    ASSUME TypeOK, OffersAreCaptures, Captures, NEW p \in Producer, Offer(p)
    PROVE  Captures'
<1> USE DEF Captures
<1>1. PICK j \in Job : j = offer[p]
  BY DEF Offer, OffersAreCaptures
<1>2. /\ UNCHANGED <<workerPc, stop, hand>> /\ producerPc[p] = "offering"
      /\ producerPc'[p] # "offering"
      /\ \A q \in Producer : q # p => offer'[q] = offer[q] /\ producerPc'[q] = producerPc[q]
  BY DEF Offer, TypeOK
<1>3. fate[j] = "offered" /\ owner[j] = None
  BY <1>1, <1>2 DEF OffersAreFresh
<1>4. \A q \in Producer : q # p /\ producerPc[q] = "offering" => offer[q] # j /\ offer[q] \in Job
  BY <1>1, <1>2 DEF OffersAreFresh, OffersAreCaptures
<1>5. \A w \in Worker : ~Queued(w, j) /\ hand[w] # j
  BY <1>3, NoneAssumption DEF QueuesHold
<1>6. CASE SinkResult(snapshot[p]) # "queued"
  <2>1. /\ UNCHANGED <<queue, owner, late>> /\ fate'[j] \in {"disabled", "rejected"}
        /\ \A k \in Job : k # j => fate'[k] = fate[k]
    BY <1>1, <1>6 DEF Offer, SinkResult, TypeOK
  <2>2. OffersAreFresh'
    BY <1>2, <1>3, <1>4, <2>1 DEF OffersAreFresh
  <2>3. QueuesHold'
    BY <1>2, <1>3, <1>5, <2>1, NoneAssumption DEF QueuesHold, Queued
  <2>4. StopsWhenTold' /\ OnTimeCapturesEnd'
    BY <1>2, <1>3, <2>1, NoneAssumption DEF StopsWhenTold, Stopping, OnTimeCapturesEnd
  <2>. QED  BY <2>2, <2>3, <2>4
<1>7. CASE SinkResult(snapshot[p]) = "queued"
  <2>1. PICK w \in Worker : w = snapshot[p] /\ workerPc[w] # "gone"
    BY <1>7 DEF SinkResult, Accepts, TypeOK
  <2>2. /\ fate'[j] = "queued" /\ owner'[j] = w
        /\ \A k \in Job : k # j => fate'[k] = fate[k] /\ owner'[k] = owner[k]
        /\ late' = IF stop[w] THEN late \cup {j} ELSE late
        /\ queue' = [queue EXCEPT ![w] = Append(@, j)]
    BY <1>1, <1>7, <2>1 DEF Offer, TypeOK
  <2>3. /\ \A x : Has(queue'[w], x) <=> Has(queue[w], x) \/ x = j
        /\ Once(queue'[w]) /\ \A v \in Worker : v # w => queue'[v] = queue[v]
    <3>1. queue[w] \in Seq(Job) /\ Once(queue[w]) /\ ~Has(queue[w], j)
      BY <1>5 DEF TypeOK, QueuesHold, Queued
    <3>2. /\ \A x : Has(Append(queue[w], j), x) <=> Has(queue[w], x) \/ x = j
          /\ Once(Append(queue[w], j))
      BY <3>1, AppendHas
    <3>. QED  BY <2>2, <3>2 DEF TypeOK
  <2>4. OffersAreFresh'
    BY <1>2, <1>3, <1>4, <2>2 DEF OffersAreFresh
  <2>5. QueuesHold'
    <3>1. \A v \in Worker, k \in Job : Queued(v, k)' <=> Queued(v, k) \/ (v = w /\ k = j)
      BY <2>3 DEF Queued
    <3>2. \A v \in Worker : Once(queue'[v])
      BY <2>3 DEF QueuesHold
    <3>. QED  BY <1>2, <1>3, <1>5, <2>2, <3>1, <3>2, NoneAssumption DEF QueuesHold
  <2>6. StopsWhenTold'
    BY <1>2, <2>1, <2>2 DEF StopsWhenTold, Stopping
  <2>7. OnTimeCapturesEnd'
    <3>1. workerPc[w] \in {"closing", "rejoining", "dropping", "gone"} => stop[w]
      BY DEF StopsWhenTold, Stopping
    <3>. QED  BY <1>2, <2>2, <3>1 DEF OnTimeCapturesEnd
  <2>. QED  BY <2>4, <2>5, <2>6, <2>7
<1>. QED  BY <1>6, <1>7

\* A worker takes the head of its queue in hand.
LEMMA ReceivingKeepsCaptures ==
    ASSUME TypeOK, Captures, NEW w \in Worker, Receive(w)
    PROVE  Captures'
<1> USE DEF Captures
<1>1. /\ UNCHANGED <<stop, producerPc, offer, fate, owner, late>>
      /\ workerPc[w] = "receiving" /\ workerPc'[w] = "writing"
      /\ \A v \in Worker : v # w => workerPc'[v] = workerPc[v] /\ hand'[v] = hand[v]
                                      /\ queue'[v] = queue[v]
      /\ queue[w] # <<>> /\ queue[w] \in Seq(Job)
      /\ queue'[w] = Tail(queue[w]) /\ hand'[w] = Head(queue[w])
  BY DEF Receive, MoveWorker, producerVars, jobVars, TypeOK
<1>2. PICK h \in Job : h = Head(queue[w])
  BY <1>1, TailHas
<1>3. /\ \A x : Has(queue[w], x) <=> x = h \/ Has(queue'[w], x)
      /\ Once(queue[w]) => Once(queue'[w]) /\ ~Has(queue'[w], h)
  BY <1>1, <1>2, TailHas
<1>4. \A v \in Worker, j \in Job : Queued(v, j)' <=> Queued(v, j) /\ ~(v = w /\ j = h)
  BY <1>1, <1>3 DEF Queued, QueuesHold
<1>5. Queued(w, h) /\ hand[w] = None /\ hand'[w] = h /\ h # None
  BY <1>1, <1>2, <1>3, NoneAssumption DEF Queued, QueuesHold
<1>6. OffersAreFresh'
  BY <1>1 DEF OffersAreFresh
<1>7. QueuesHold'
  <2>1. \A v \in Worker : Once(queue[v])'
    BY <1>1, <1>3 DEF QueuesHold
  <2>2. \A v \in Worker : hand'[v] # None <=> workerPc'[v] = "writing"
    BY <1>1, <1>5 DEF QueuesHold
  <2>3. \A v \in Worker, j \in Job :
          Queued(v, j)' \/ hand'[v] = j <=> Queued(v, j) \/ hand[v] = j
    BY <1>1, <1>4, <1>5, NoneAssumption
  <2>4. \A v \in Worker, j \in Job : Queued(v, j)' => hand'[v] # j
    BY <1>1, <1>4, <1>5 DEF QueuesHold
  <2>. QED  BY <1>1, <2>1, <2>2, <2>3, <2>4 DEF QueuesHold
<1>8. StopsWhenTold'
  BY <1>1 DEF StopsWhenTold, Stopping
<1>9. OnTimeCapturesEnd'
  BY <1>1 DEF OnTimeCapturesEnd
<1>. QED  BY <1>6, <1>7, <1>8, <1>9

\* The write of the capture in a worker's hand ends.
LEMMA WritingKeepsCaptures ==
    ASSUME TypeOK, OffersAreCaptures, Captures, NEW w \in Worker,
           NEW outcome \in {"written", "failed"}, Write(w, outcome)
    PROVE  Captures'
<1> USE DEF Captures
<1>1. /\ UNCHANGED <<stop, queue, producerPc, offer, owner, late>>
      /\ workerPc[w] = "writing" /\ workerPc'[w] = "top"
      /\ \A v \in Worker : v # w => workerPc'[v] = workerPc[v] /\ hand'[v] = hand[v]
      /\ hand'[w] = None
  BY DEF Write, MoveWorker, producerVars, TypeOK
<1>2. PICK h \in Job : h = hand[w]
  BY <1>1 DEF QueuesHold, TypeOK
<1>3. fate'[h] = outcome /\ \A j \in Job : j # h => fate'[j] = fate[j]
  BY <1>2 DEF Write, TypeOK
<1>4. owner[h] = w /\ fate[h] = "queued" /\ ~Queued(w, h)
  BY <1>2 DEF QueuesHold
<1>5. OffersAreFresh'
  BY <1>1, <1>3, <1>4 DEF OffersAreFresh, OffersAreCaptures
<1>6. QueuesHold'
  <2>1. \A v \in Worker, j \in Job : Queued(v, j)' <=> Queued(v, j)
    BY <1>1 DEF Queued
  <2>2. \A v \in Worker : ~Queued(v, h) /\ (v # w => hand[v] # h)
    BY <1>4 DEF QueuesHold
  <2>3. \A v \in Worker : Once(queue[v])'
    BY <1>1 DEF QueuesHold
  <2>4. \A v \in Worker : hand'[v] # None <=> workerPc'[v] = "writing"
    BY <1>1 DEF QueuesHold
  <2>5. \A v \in Worker, j \in Job :
          Queued(v, j)' \/ hand'[v] = j => owner'[j] = v /\ fate'[j] = "queued"
    BY <1>1, <1>3, <2>1, <2>2, NoneAssumption DEF QueuesHold
  <2>6. \A v \in Worker, j \in Job : Queued(v, j)' => hand'[v] # j
    BY <1>1, <2>1, NoneAssumption DEF QueuesHold
  <2>7. \A v \in Worker, j \in Job :
          owner'[j] = v /\ fate'[j] = "queued" => Queued(v, j)' \/ hand'[v] = j
    BY <1>1, <1>2, <1>3, <2>1 DEF QueuesHold
  <2>. QED  BY <2>3, <2>4, <2>5, <2>6, <2>7 DEF QueuesHold
<1>7. StopsWhenTold'
  BY <1>1, <1>3 DEF StopsWhenTold, Stopping, Ended
<1>8. OnTimeCapturesEnd'
  BY <1>1, <1>3 DEF OnTimeCapturesEnd, Ended
<1>. QED  BY <1>5, <1>6, <1>7, <1>8

\* A worker that was told to stop gives up the head of its queue.
LEMMA DrainingKeepsCaptures ==
    ASSUME TypeOK, OffersAreCaptures, Captures, NEW w \in Worker, DrainOne(w)
    PROVE  Captures'
<1> USE DEF Captures
<1>1. /\ UNCHANGED <<workerPc, stop, hand, producerPc, offer, owner, late>>
      /\ workerPc[w] = "draining"
      /\ \A v \in Worker : v # w => queue'[v] = queue[v]
      /\ queue[w] # <<>> /\ queue[w] \in Seq(Job) /\ queue'[w] = Tail(queue[w])
  BY DEF DrainOne, producerVars, TypeOK
<1>2. PICK h \in Job : h = Head(queue[w])
  BY <1>1, TailHas
<1>3. /\ \A x : Has(queue[w], x) <=> x = h \/ Has(queue'[w], x)
      /\ Once(queue[w]) => Once(queue'[w]) /\ ~Has(queue'[w], h)
  BY <1>1, <1>2, TailHas
<1>4. \A v \in Worker, j \in Job : Queued(v, j)' <=> Queued(v, j) /\ ~(v = w /\ j = h)
  BY <1>1, <1>3 DEF Queued, QueuesHold
<1>5. fate'[h] = "abandoned" /\ \A j \in Job : j # h => fate'[j] = fate[j]
  BY <1>2 DEF DrainOne, TypeOK
<1>6. Queued(w, h) /\ owner[h] = w /\ fate[h] = "queued"
  BY <1>1, <1>2, <1>3 DEF Queued, QueuesHold
<1>7. OffersAreFresh'
  BY <1>1, <1>5, <1>6 DEF OffersAreFresh, OffersAreCaptures
<1>8. QueuesHold'
  <2>1. \A v \in Worker : (v # w => ~Queued(v, h)) /\ hand[v] # h
    BY <1>6 DEF QueuesHold
  <2>2. \A v \in Worker : Once(queue[v])'
    BY <1>1, <1>3 DEF QueuesHold
  <2>3. \A v \in Worker, j \in Job :
          Queued(v, j)' \/ hand'[v] = j => owner'[j] = v /\ fate'[j] = "queued"
    BY <1>1, <1>4, <1>5, <2>1 DEF QueuesHold
  <2>4. \A v \in Worker, j \in Job : Queued(v, j)' => hand'[v] # j
    BY <1>1, <1>4 DEF QueuesHold
  <2>5. \A v \in Worker, j \in Job :
          owner'[j] = v /\ fate'[j] = "queued" => Queued(v, j)' \/ hand'[v] = j
    BY <1>1, <1>4, <1>5 DEF QueuesHold
  <2>. QED  BY <1>1, <2>2, <2>3, <2>4, <2>5 DEF QueuesHold
<1>9. StopsWhenTold'
  BY <1>1, <1>5 DEF StopsWhenTold, Stopping, Ended
<1>10. OnTimeCapturesEnd'
  BY <1>1, <1>5 DEF OnTimeCapturesEnd, Ended
<1>. QED  BY <1>7, <1>8, <1>9, <1>10

\* What is left in the queue of a worker that ends came too late.
LEMMA LeavingKeepsCaptures ==
    ASSUME TypeOK, OffersAreCaptures, Captures, NEW w \in Worker, DropReceiver(w)
    PROVE  Captures'
<1> USE DEF Captures
<1>1. /\ UNCHANGED <<stop, hand, producerPc, offer, owner, late>>
      /\ workerPc[w] = "dropping" /\ workerPc'[w] = "gone"
      /\ \A v \in Worker : v # w => workerPc'[v] = workerPc[v] /\ queue'[v] = queue[v]
      /\ queue'[w] = <<>>
  BY DEF DropReceiver, MoveWorker, producerVars, TypeOK
<1>2. \A j \in Job : fate'[j] = IF fate[j] = "queued" /\ owner[j] = w THEN "lost" ELSE fate[j]
  BY DEF DropReceiver
<1>3. hand[w] = None
  BY <1>1 DEF QueuesHold
<1>4. \A v \in Worker, j \in Job : Queued(v, j)' <=> Queued(v, j) /\ v # w
  BY <1>1 DEF Queued, Has
<1>5. OffersAreFresh'
  <2>1. \A p \in Producer : producerPc[p] = "offering" =>
          offer[p] \in Job /\ fate'[offer[p]] = "offered"
    BY <1>2 DEF OffersAreFresh, OffersAreCaptures
  <2>2. \A j \in Job : fate'[j] \in {"none", "offered", "rejected", "disabled"} => owner[j] = None
    BY <1>2 DEF OffersAreFresh
  <2>. QED  BY <1>1, <2>1, <2>2 DEF OffersAreFresh
<1>6. QueuesHold'
  <2>1. \A v \in Worker : Once(queue[v])'
    BY <1>1 DEF QueuesHold, Once
  <2>2. \A v \in Worker : hand'[v] # None <=> workerPc'[v] = "writing"
    BY <1>1, <1>3 DEF QueuesHold
  <2>3. \A v \in Worker, j \in Job :
          Queued(v, j)' \/ hand'[v] = j => owner'[j] = v /\ fate'[j] = "queued"
    BY <1>1, <1>2, <1>3, <1>4, NoneAssumption DEF QueuesHold
  <2>4. \A v \in Worker, j \in Job : Queued(v, j)' => hand'[v] # j
    BY <1>1, <1>4 DEF QueuesHold
  <2>5. \A v \in Worker, j \in Job :
          owner'[j] = v /\ fate'[j] = "queued" => Queued(v, j)' \/ hand'[v] = j
    BY <1>1, <1>2, <1>4 DEF QueuesHold
  <2>. QED  BY <2>1, <2>2, <2>3, <2>4, <2>5 DEF QueuesHold
<1>7. StopsWhenTold'
  <2>1. \A v \in Worker : Stopping(v)' => Stopping(v)
    BY <1>1 DEF Stopping
  <2>2. \A v \in Worker, j \in Job :
          owner[j] = v /\ workerPc'[v] # "gone" => fate'[j] \in Ended \cup {"queued"}
    BY <1>1, <1>2 DEF StopsWhenTold
  <2>. QED  BY <1>1, <2>1, <2>2 DEF StopsWhenTold
<1>8. OnTimeCapturesEnd'
  <2>1. \A v \in Worker, j \in Job :
          workerPc'[v] \in {"closing", "rejoining", "dropping", "gone"}
          /\ owner[j] = v /\ j \notin late => fate[j] \in Ended
    BY <1>1 DEF OnTimeCapturesEnd
  <2>2. \A j \in Job : fate[j] \in Ended => fate'[j] = fate[j]
    BY <1>2 DEF Ended
  <2>. QED  BY <1>1, <2>1, <2>2 DEF OnTimeCapturesEnd
<1>. QED  BY <1>5, <1>6, <1>7, <1>8

-------------------------------------------------------------------------------
\* No capture has been offered yet.
LEMMA InitCaptures == ASSUME Init PROVE Captures
<1>1. PICK first \in Worker \cup {None} : InitWith(first)
  BY DEF Init
<1>2. /\ \A w \in Worker : workerPc[w] \in {"top", "unborn"} /\ queue[w] = <<>> /\ hand[w] = None
      /\ \A p \in Producer : producerPc[p] = "top"
      /\ \A j \in Job : fate[j] = "none" /\ owner[j] = None
  BY <1>1 DEF InitWith, Started
<1>3. \A w \in Worker, j \in Job : ~Queued(w, j) /\ hand[w] # j
  BY <1>2, NoneAssumption DEF Queued, Has
<1>4. OffersAreFresh
  BY <1>2 DEF OffersAreFresh
<1>5. QueuesHold
  BY <1>2, <1>3, NoneAssumption DEF QueuesHold, Once
<1>6. StopsWhenTold
  BY <1>2, NoneAssumption DEF StopsWhenTold, Stopping
<1>7. OnTimeCapturesEnd
  BY <1>2 DEF OnTimeCapturesEnd
<1>. QED  BY <1>4, <1>5, <1>6, <1>7 DEF Captures

\* One step of the worker threads that write nothing.
LEMMA WorkerKeepsCaptures ==
    ASSUME TypeOK, OffersAreCaptures, Captures, NEW w \in Worker, WorkerStep(w)
    PROVE  Captures'
<1>1. CASE CheckStop(w)
  <2>1. PICK pc \in {"draining", "receiving"} :
          /\ workerPc' = [workerPc EXCEPT ![w] = pc]
          /\ pc = "draining" => stop[w]
    BY <1>1 DEF CheckStop, MoveWorker
  <2>2. workerPc[w] = "top" /\ workerPc'[w] = pc
        /\ UNCHANGED <<stop, queue, hand, producerPc, offer, fate, owner, late>>
    BY <1>1, <2>1 DEF CheckStop, producerVars, jobVars, TypeOK
  <2>. QED  BY <2>1, <2>2, MovingKeepsCaptures DEF WorkerStates, Stopping, Drained
<1>2. CASE Receive(w)
  BY <1>2, ReceivingKeepsCaptures
<1>3. CASE ReceiveTimeout(w)
  <2>1. PICK pc \in {"draining", "top"} :
          /\ workerPc' = [workerPc EXCEPT ![w] = pc]
          /\ pc = "draining" => stop[w]
    BY <1>3 DEF ReceiveTimeout, MoveWorker, Disconnected
  <2>2. workerPc[w] = "receiving" /\ workerPc'[w] = pc
        /\ UNCHANGED <<stop, queue, hand, producerPc, offer, fate, owner, late>>
    BY <1>3, <2>1 DEF ReceiveTimeout, producerVars, jobVars, TypeOK
  <2>. QED  BY <2>1, <2>2, MovingKeepsCaptures DEF WorkerStates, Stopping, Drained
<1>4. CASE DrainOne(w)
  BY <1>4, DrainingKeepsCaptures
<1>5. CASE DrainDone(w)
  <2>1. /\ workerPc' = [workerPc EXCEPT ![w] = "closing"] /\ workerPc'[w] = "closing"
        /\ workerPc[w] = "draining" /\ queue[w] = <<>>
        /\ UNCHANGED <<stop, queue, hand, producerPc, offer, fate, owner, late>>
    BY <1>5 DEF DrainDone, MoveWorker, producerVars, jobVars, TypeOK
  <2>. QED  BY <2>1, MovingKeepsCaptures DEF WorkerStates, Stopping, Drained
<1>6. CASE Finish(w)
  <2>1. PICK pc \in {"rejoining", "dropping"} : workerPc' = [workerPc EXCEPT ![w] = pc]
    BY <1>6 DEF Finish, MoveWorker
  <2>2. workerPc[w] = "closing" /\ workerPc'[w] = pc
        /\ UNCHANGED <<stop, queue, hand, producerPc, offer, fate, owner, late>>
    BY <1>6, <2>1 DEF Finish, producerVars, jobVars, TypeOK
  <2>. QED  BY <2>1, <2>2, MovingKeepsCaptures DEF WorkerStates, Stopping, Drained
<1>7. CASE Rejoin(w)
  <2>1. /\ workerPc' = [workerPc EXCEPT ![w] = "dropping"] /\ workerPc'[w] = "dropping"
        /\ workerPc[w] = "rejoining"
        /\ UNCHANGED <<stop, queue, hand, producerPc, offer, fate, owner, late>>
    BY <1>7 DEF Rejoin, MoveWorker, producerVars, jobVars, TypeOK
  <2>. QED  BY <2>1, MovingKeepsCaptures DEF WorkerStates, Stopping, Drained
<1>8. CASE DropReceiver(w)
  BY <1>8, LeavingKeepsCaptures
<1>. QED  BY <1>1, <1>2, <1>3, <1>4, <1>5, <1>6, <1>7, <1>8 DEF WorkerStep

\* No step of the daemon thread touches a capture, and none ends a worker.
LEMMA CapturesStep ==
    ASSUME IInv, Captures, [Next]_vars
    PROVE  Captures'
<1>0. TypeOK /\ OffersAreCaptures
  BY DEF IInv
<1> USE DEF captureVars, vars, mainVars, workerVars, producerVars, jobVars
<1>1. ASSUME NEW p \in Producer, ProducerStep(p) PROVE Captures'
  <2>1. CASE PassStopCheck(p)
    <3>1. PICK pc \in {"ended", "waiting"} : producerPc' = [producerPc EXCEPT ![p] = pc]
      BY <2>1 DEF PassStopCheck
    <3>. QED  BY <1>0, <2>1, <3>1, PassingKeepsCaptures DEF PassStopCheck, ProducerStates
  <2>2. CASE WakeWithoutCapture(p)
    BY <1>0, <2>2, PassingKeepsCaptures DEF WakeWithoutCapture, ProducerStates
  <2>3. ASSUME NEW j \in Job, TakeDestinations(p, j) PROVE Captures'
    BY <1>0, <2>3, TakingKeepsCaptures
  <2>4. CASE Offer(p)
    BY <1>0, <2>4, OfferingKeepsCaptures
  <2>. QED  BY <1>1, <2>1, <2>2, <2>3, <2>4 DEF ProducerStep
<1>2. ASSUME NEW w \in Worker, WorkerStep(w) PROVE Captures'
  BY <1>0, <1>2, WorkerKeepsCaptures
<1>3. ASSUME NEW w \in Worker, WriteStep(w) PROVE Captures'
  BY <1>0, <1>3, WritingKeepsCaptures DEF WriteStep
<1>4. ASSUME NEW w \in Worker, StartWorker(w) PROVE Captures'
  <2>1. /\ workerPc' = [workerPc EXCEPT ![w] = "top"] /\ workerPc'[w] = "top"
        /\ workerPc[w] = "unborn"
        /\ UNCHANGED <<stop, queue, hand, producerPc, offer, fate, owner, late>>
    BY <1>0, <1>4 DEF StartWorker, MoveWorker, TypeOK
  <2>. QED  BY <1>0, <2>1, MovingKeepsCaptures DEF WorkerStates, Stopping, Drained
<1>5. CASE RemoveSink
  BY <1>5, CapturesStutter DEF RemoveSink
<1>6. CASE BeginShutdown
  BY <1>6, TellingKeepsCaptures DEF BeginShutdown, StopRegistered
<1>7. CASE BeginTeardown
  BY <1>7, TellingKeepsCaptures DEF BeginTeardown, StopRegistered
<1>8. CASE MainStep
  <2>1. CASE InsertSink
    BY <2>1, CapturesStutter DEF InsertSink
  <2>2. CASE RequestStop
    <3>1. stop' = [stop EXCEPT ![target] = TRUE] /\ stop \in [Worker -> BOOLEAN]
      BY <1>0, <2>2 DEF RequestStop, TypeOK
    <3>2. \A w \in Worker : stop[w] => stop'[w]
      BY <3>1
    <3>. QED  BY <2>2, <3>2, TellingKeepsCaptures DEF RequestStop
  <2>3. ASSUME NEW trayOk \in BOOLEAN, NEW saveOk \in BOOLEAN, Settle(trayOk, saveOk)
        PROVE  Captures'
    BY <2>3, CapturesStutter DEF Settle
  <2>4. CASE Joined
    BY <2>4, CapturesStutter DEF Joined
  <2>5. CASE GiveUp
    BY <2>5, CapturesStutter DEF GiveUp
  <2>6. CASE RecordLive
    BY <2>6, CapturesStutter DEF RecordLive
  <2>7. CASE RecordTotal
    BY <2>7, CapturesStutter DEF RecordTotal
  <2>8. CASE TeardownFileOutput
    BY <2>8, CapturesStutter DEF TeardownFileOutput
  <2>. QED  BY <1>8, <2>1, <2>2, <2>3, <2>4, <2>5, <2>6, <2>7, <2>8 DEF MainStep
<1>9. CASE Exited \/ UNCHANGED vars
  BY <1>9, CapturesStutter DEF Exited
<1>. QED  BY <1>1, <1>2, <1>3, <1>4, <1>5, <1>6, <1>7, <1>8, <1>9 DEF Next

\* A capture that a worker's queue accepted before the worker was told to stop
\* is written, has failed or is counted as abandoned by the time the worker has
\* drained its queue; ChannelSink::submit and the drain at the end of
\* run_file_output_worker.
THEOREM OnTimeCapturesAlwaysEnd == Spec => []OnTimeCapturesEnd
<1>1. Init => Captures
  BY InitCaptures
<1>2. IInv /\ Captures /\ [Next]_vars => Captures'
  BY CapturesStep
<1>3. Captures => OnTimeCapturesEnd
  BY DEF Captures
<1>. QED  BY <1>1, <1>2, <1>3, Inductive, PTL DEF Spec
=============================================================================
