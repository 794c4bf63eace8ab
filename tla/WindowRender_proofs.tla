------------------------- MODULE WindowRender_proofs -------------------------
(***************************************************************************)
(* Proofs about WindowRender for every set of calls and windows and every  *)
(* pair of limits: claims, slots and permits are exactly what the renders  *)
(* under way hold, slots and permits are bounded leases, and the ledger    *)
(* counts the threads that were given up on and still run.                 *)
(***************************************************************************)
EXTENDS WindowRender, FiniteSetTheorems, TLAPS

\* Where a call is while its thread runs, before it starts one, and while it
\* holds its permit.
Control ==
    \A r \in Render :
        /\ ThreadRuns(r) => callPc[r] \in {"wait", "mark", "countLive", "countTotal", "done"}
        /\ callPc[r] \in {"idle", "slot", "permit", "spawn"} => workPc[r] = "none"
        /\ permit[r] = "held" => callPc[r] \in {"spawn", "wait"}

SlotCount   == workers = Cardinality(SlotHolders) /\ workers <= MaxWorkers
PermitCount == active = Cardinality(PermitHolders) /\ active <= MaxInFlight

\* TypeOK without the counters, whose types follow from what they count.
Shapes ==
    /\ callPc \in [Render -> {"idle", "slot", "permit", "spawn", "wait", "mark",
                              "countLive", "countTotal", "returnSlot", "unclaim", "done"}]
    /\ workPc \in [Render -> {"none", "render", "complete", "rejoin", "release",
                              "returnSlot", "unclaim", "gone"}]
    /\ target \in [Render -> Window]
    /\ permit \in [Render -> {"none", "held", "released"}]
    /\ state \in [Render -> {"active", "detached", "completed"}]

Lists ==
    /\ sent \subseteq Render
    /\ live \in 0..(Wrap - 1) /\ total \in 0..(Wrap - 1)

IInv ==
    Shapes /\ Lists /\ Control /\ OneRenderPerWindow /\ SlotCount /\ PermitCount

Step(r) == CallStep(r) \/ WorkStep(r)

-----------------------------------------------------------------------------
(* What one step of one render does to each pool.                          *)

\* A step takes the render's own slot, gives it back, or leaves the pool alone.
LEMMA SlotMoves ==
    ASSUME Shapes, Control, NEW r \in Render, Step(r)
    PROVE  \/ SlotHolders' = SlotHolders /\ workers' = workers
           \/ /\ r \notin SlotHolders /\ workers < MaxWorkers
              /\ SlotHolders' = SlotHolders \cup {r} /\ workers' = workers + 1
           \/ /\ r \in SlotHolders
              /\ SlotHolders' = SlotHolders \ {r} /\ workers' = workers - 1
<1> USE DEF Shapes, Control, SlotHolders, HoldsSlot, ThreadRuns, CallMoves, WorkMoves
<1>1. CASE TakeSlot(r)
  BY <1>1 DEF TakeSlot
<1>2. CASE CallerReturnsSlot(r)
  BY <1>2 DEF CallerReturnsSlot, ReturnSlot
<1>3. CASE WorkerReturnsSlot(r)
  BY <1>3 DEF WorkerReturnsSlot, ReturnSlot
<1>4. CASE ClaimTarget(r) \/ RefuseTarget(r) \/ RefuseSlot(r) \/ TakePermit(r)
           \/ RefusePermit(r) \/ Spawn(r) \/ SpawnFails(r) \/ CallerUnclaims(r)
  BY <1>4 DEF ClaimTarget, RefuseTarget, RefuseSlot, TakePermit, RefusePermit,
              Spawn, SpawnFails, CallerUnclaims
<1>5. CASE Receive(r) \/ Disconnected(r) \/ TimesOut(r) \/ MarkDetached(r)
           \/ MarkTooLate(r) \/ CountLive(r) \/ CountTotal(r)
  BY <1>5 DEF Receive, Disconnected, TimesOut, MarkDetached, MarkTooLate,
              CountLive, CountTotal
<1>6. CASE RenderEnds(r) \/ RenderPanics(r) \/ Complete(r) \/ Rejoin(r)
           \/ WorkerReleases(r) \/ WorkerUnclaims(r)
  BY <1>6 DEF RenderEnds, RenderPanics, Complete, Rejoin, WorkerReleases, WorkerUnclaims
<1> QED
  BY <1>1, <1>2, <1>3, <1>4, <1>5, <1>6 DEF Step, CallStep, WorkStep, UnwindStep

\* The same of its permit, which the caller or the thread gives back.
LEMMA PermitMoves ==
    ASSUME Shapes, Control, NEW r \in Render, Step(r)
    PROVE  \/ PermitHolders' = PermitHolders /\ active' = active
           \/ /\ r \notin PermitHolders /\ active < MaxInFlight
              /\ PermitHolders' = PermitHolders \cup {r} /\ active' = active + 1
           \/ /\ r \in PermitHolders
              /\ PermitHolders' = PermitHolders \ {r} /\ active' = active - 1
<1> USE DEF Shapes, PermitHolders
<1>1. CASE TakePermit(r)
  BY <1>1 DEF TakePermit, CallMoves, Control
<1>2. CASE SpawnFails(r) \/ Receive(r) \/ Disconnected(r) \/ TimesOut(r) \/ WorkerReleases(r)
  <2>1. ReleasePermit(r)
    BY <1>2 DEF SpawnFails, Receive, Disconnected, TimesOut, WorkerReleases
  <2> QED
    BY <2>1 DEF ReleasePermit
<1>3. CASE UNCHANGED <<permit, active>>
  BY <1>3
<1>4. Step(r) => \/ TakePermit(r)
                 \/ SpawnFails(r) \/ Receive(r) \/ Disconnected(r) \/ TimesOut(r) \/ WorkerReleases(r)
                 \/ UNCHANGED <<permit, active>>
  <2>1. CallStep(r) => \/ TakePermit(r)
                       \/ SpawnFails(r) \/ Receive(r) \/ Disconnected(r) \/ TimesOut(r)
                       \/ UNCHANGED <<permit, active>>
    BY DEF CallStep, ClaimTarget, RefuseTarget, TakeSlot, RefuseSlot, RefusePermit, Spawn,
           CallerReturnsSlot, CallerUnclaims, MarkDetached, MarkTooLate, CountLive, CountTotal
  <2>2. WorkStep(r) => WorkerReleases(r) \/ UNCHANGED <<permit, active>>
    BY DEF WorkStep, UnwindStep, RenderEnds, RenderPanics, Complete, Rejoin,
           WorkerReturnsSlot, WorkerUnclaims
  <2> QED
    BY <2>1, <2>2 DEF Step
<1> QED
  BY <1>1, <1>2, <1>3, <1>4

\* A step that claims a window finds it unclaimed; a step that gives a claim
\* up holds it; no other step changes who holds what.
LEMMA TargetMoves ==
    ASSUME Shapes, Control, NEW r \in Render, Step(r)
    PROVE  /\ target' = target
           /\ \A s \in Render : s # r => (HoldsTarget(s)' <=> HoldsTarget(s))
           /\ \/ (HoldsTarget(r)' <=> HoldsTarget(r)) /\ claimed' = claimed
              \/ /\ ~HoldsTarget(r) /\ HoldsTarget(r)' /\ target[r] \notin claimed
                 /\ claimed' = claimed \cup {target[r]}
              \/ /\ HoldsTarget(r) /\ ~HoldsTarget(r)'
                 /\ claimed' = claimed \ {target[r]}
<1> USE DEF Shapes, Control, HoldsTarget, ThreadRuns, CallMoves, WorkMoves
<1>1. CASE ClaimTarget(r)
  BY <1>1 DEF ClaimTarget
<1>2. CASE CallerUnclaims(r) \/ WorkerUnclaims(r)
  BY <1>2 DEF CallerUnclaims, WorkerUnclaims, Unclaim
<1>3. CASE RefuseTarget(r) \/ TakeSlot(r) \/ RefuseSlot(r) \/ TakePermit(r)
           \/ RefusePermit(r) \/ Spawn(r) \/ SpawnFails(r) \/ CallerReturnsSlot(r)
  BY <1>3 DEF RefuseTarget, TakeSlot, RefuseSlot, TakePermit, RefusePermit,
              Spawn, SpawnFails, CallerReturnsSlot
<1>4. CASE Receive(r) \/ Disconnected(r) \/ TimesOut(r) \/ MarkDetached(r)
           \/ MarkTooLate(r) \/ CountLive(r) \/ CountTotal(r)
  BY <1>4 DEF Receive, Disconnected, TimesOut, MarkDetached, MarkTooLate,
              CountLive, CountTotal
<1>5. CASE RenderEnds(r) \/ RenderPanics(r) \/ Complete(r) \/ Rejoin(r)
           \/ WorkerReleases(r) \/ WorkerReturnsSlot(r)
  BY <1>5 DEF RenderEnds, RenderPanics, Complete, Rejoin, WorkerReleases, WorkerReturnsSlot
<1> QED
  BY <1>1, <1>2, <1>3, <1>4, <1>5 DEF Step, CallStep, WorkStep, UnwindStep

-----------------------------------------------------------------------------
(* Each part of the invariant is kept.                                     *)

LEMMA ShapesKept ==
    ASSUME Shapes, NEW r \in Render, Step(r)
    PROVE  Shapes'
<1> USE DEF Shapes, CallMoves, WorkMoves, ReleasePermit
<1>1. CASE CallStep(r)
  BY <1>1 DEF CallStep, ClaimTarget, RefuseTarget, TakeSlot, RefuseSlot, TakePermit,
              RefusePermit, Spawn, SpawnFails, CallerReturnsSlot, CallerUnclaims, Receive,
              Disconnected, TimesOut, MarkDetached, MarkTooLate, CountLive, CountTotal
<1>2. CASE WorkStep(r)
  BY <1>2 DEF WorkStep, UnwindStep, RenderEnds, RenderPanics, Complete, Rejoin,
              WorkerReleases, WorkerReturnsSlot, WorkerUnclaims
<1> QED
  BY <1>1, <1>2 DEF Step

LEMMA ListsKept ==
    ASSUME Lists, NEW r \in Render, Step(r)
    PROVE  Lists'
<1> USE DEF Lists
<1>0. \A n \in Int : n % Wrap \in 0..(Wrap - 1)
  BY LimitAssumption
<1>1. CASE CountLive(r)
  BY <1>0, <1>1 DEF CountLive
<1>2. CASE CountTotal(r)
  BY <1>0, <1>2 DEF CountTotal
<1>3. CASE Rejoin(r)
  BY <1>0, <1>3 DEF Rejoin
<1>4. CASE sent' \subseteq Render /\ UNCHANGED <<live, total>>
  BY <1>4
<1>5. CallStep(r) => CountLive(r) \/ CountTotal(r) \/ UNCHANGED <<sent, live, total>>
  BY DEF CallStep, ClaimTarget, RefuseTarget, TakeSlot, RefuseSlot, TakePermit,
         RefusePermit, Spawn, SpawnFails, CallerReturnsSlot, CallerUnclaims, Receive,
         Disconnected, TimesOut, MarkDetached, MarkTooLate
<1>6. WorkStep(r) => Rejoin(r) \/ (sent' \subseteq Render /\ UNCHANGED <<live, total>>)
  BY DEF WorkStep, UnwindStep, RenderEnds, RenderPanics, Complete,
         WorkerReleases, WorkerReturnsSlot, WorkerUnclaims
<1> QED
  BY <1>1, <1>2, <1>3, <1>4, <1>5, <1>6 DEF Step

LEMMA ControlKept ==
    ASSUME Shapes, Control, NEW r \in Render, Step(r)
    PROVE  Control'
<1> USE DEF Shapes, Control, ThreadRuns, CallMoves, WorkMoves, ReleasePermit
<1>1. CASE ClaimTarget(r) \/ RefuseTarget(r) \/ TakeSlot(r) \/ RefuseSlot(r)
  BY <1>1 DEF ClaimTarget, RefuseTarget, TakeSlot, RefuseSlot
<1>2. CASE TakePermit(r) \/ RefusePermit(r)
  BY <1>2 DEF TakePermit, RefusePermit
<1>3. CASE Spawn(r) \/ SpawnFails(r) \/ CallerReturnsSlot(r) \/ CallerUnclaims(r)
  BY <1>3 DEF Spawn, SpawnFails, CallerReturnsSlot, CallerUnclaims
<1>4. CASE Receive(r) \/ Disconnected(r) \/ TimesOut(r)
  BY <1>4 DEF Receive, Disconnected, TimesOut
<1>5. CASE MarkDetached(r) \/ MarkTooLate(r) \/ CountLive(r) \/ CountTotal(r)
  BY <1>5 DEF MarkDetached, MarkTooLate, CountLive, CountTotal
<1>6. CASE WorkStep(r)
  BY <1>6 DEF WorkStep, UnwindStep, RenderEnds, RenderPanics, Complete, Rejoin,
              WorkerReleases, WorkerReturnsSlot, WorkerUnclaims
<1> QED
  BY <1>1, <1>2, <1>3, <1>4, <1>5, <1>6 DEF Step, CallStep

LEMMA SlotsFinite == IsFiniteSet(SlotHolders) /\ IsFiniteSet(PermitHolders)
<1>1. SlotHolders \in SUBSET Render /\ PermitHolders \in SUBSET Render
  BY DEF SlotHolders, PermitHolders
<1> QED
  BY <1>1, FS_Subset, LimitAssumption

\* The counts stay exact and within their limits.
LEMMA CountsKept ==
    ASSUME Shapes, Control, SlotCount, PermitCount, NEW r \in Render, Step(r)
    PROVE  SlotCount' /\ PermitCount'
<1> USE SlotsFinite, LimitAssumption DEF SlotCount, PermitCount
<1>0. Cardinality(SlotHolders) \in Nat /\ Cardinality(PermitHolders) \in Nat
  BY FS_CardinalityType
<1>1. SlotCount'
  <2>1. Cardinality(SlotHolders \cup {r}) =
           IF r \in SlotHolders THEN Cardinality(SlotHolders) ELSE Cardinality(SlotHolders) + 1
    BY FS_AddElement
  <2>2. Cardinality(SlotHolders \ {r}) =
           IF r \in SlotHolders THEN Cardinality(SlotHolders) - 1 ELSE Cardinality(SlotHolders)
    BY FS_RemoveElement
  <2> QED
    BY SlotMoves, <1>0, <2>1, <2>2
<1>2. PermitCount'
  <2>1. Cardinality(PermitHolders \cup {r}) =
           IF r \in PermitHolders THEN Cardinality(PermitHolders) ELSE Cardinality(PermitHolders) + 1
    BY FS_AddElement
  <2>2. Cardinality(PermitHolders \ {r}) =
           IF r \in PermitHolders THEN Cardinality(PermitHolders) - 1 ELSE Cardinality(PermitHolders)
    BY FS_RemoveElement
  <2> QED
    BY PermitMoves, <1>0, <2>1, <2>2
<1> QED
  BY <1>1, <1>2

LEMMA TargetsKept ==
    ASSUME Shapes, Control, OneRenderPerWindow, NEW r \in Render, Step(r)
    PROVE  OneRenderPerWindow'
<1>1. target' = target
  BY TargetMoves
<1>2. ASSUME NEW s \in Render, s # r PROVE HoldsTarget(s)' <=> HoldsTarget(s)
  BY <1>2, TargetMoves
<1>3. CASE (HoldsTarget(r)' <=> HoldsTarget(r)) /\ claimed' = claimed
  BY <1>1, <1>2, <1>3 DEF OneRenderPerWindow
<1>4. CASE /\ ~HoldsTarget(r) /\ HoldsTarget(r)' /\ target[r] \notin claimed
           /\ claimed' = claimed \cup {target[r]}
  BY <1>1, <1>2, <1>4 DEF OneRenderPerWindow
<1>5. CASE HoldsTarget(r) /\ ~HoldsTarget(r)' /\ claimed' = claimed \ {target[r]}
  BY <1>1, <1>2, <1>5 DEF OneRenderPerWindow
<1> QED
  BY <1>3, <1>4, <1>5, TargetMoves

-----------------------------------------------------------------------------
(* The theorems.                                                           *)

LEMMA InitIInv == Init => IInv
<1> SUFFICES ASSUME Init PROVE IInv
  OBVIOUS
<1>1. SlotHolders = {} /\ PermitHolders = {}
  BY DEF Init, SlotHolders, HoldsSlot, ThreadRuns, PermitHolders
<1>2. SlotCount /\ PermitCount
  BY <1>1, FS_EmptySet, LimitAssumption DEF Init, SlotCount, PermitCount
<1>3. Shapes /\ Lists /\ Control
  BY LimitAssumption DEF Init, Shapes, Lists, Control, ThreadRuns
<1>4. OneRenderPerWindow
  BY DEF Init, OneRenderPerWindow, HoldsTarget, ThreadRuns
<1> QED
  BY <1>2, <1>3, <1>4 DEF IInv

LEMMA NextIInv == IInv /\ [Next]_vars => IInv'
<1> SUFFICES ASSUME IInv, [Next]_vars PROVE IInv'
  OBVIOUS
<1>1. CASE Next
  <2> PICK r \in Render : Step(r)
    BY <1>1 DEF Next, Step
  <2> QED
    BY ShapesKept, ListsKept, ControlKept, CountsKept, TargetsKept DEF IInv
<1>2. CASE UNCHANGED vars
  BY <1>2 DEF vars, IInv, Shapes, Lists, Control, ThreadRuns, OneRenderPerWindow, HoldsTarget,
              SlotCount, PermitCount, SlotHolders, HoldsSlot, PermitHolders
<1> QED
  BY <1>1, <1>2

LEMMA Inductive == Spec => []IInv
  BY InitIInv, NextIInv, PTL DEF Spec

\* The counters stay counters: no order of answers, panics and deadlines
\* gives a slot or a permit back twice.
THEOREM TypeCorrect == Spec => []TypeOK
<1>1. IInv => TypeOK
  <2> SUFFICES ASSUME IInv PROVE TypeOK
    OBVIOUS
  <2>1. workers \in Nat /\ active \in Nat
    BY SlotsFinite, FS_CardinalityType DEF IInv, SlotCount, PermitCount
  <2>2. claimed \subseteq Window
    BY DEF IInv, OneRenderPerWindow, Shapes
  <2> QED
    BY <2>1, <2>2 DEF IInv, Shapes, Lists, TypeOK
<1> QED
  BY <1>1, Inductive, PTL

\* One thread renders a window at a time, and a window is claimed by nobody
\* else than the renders under way.
THEOREM WindowsExclusive == Spec => []OneRenderPerWindow
<1>1. IInv => OneRenderPerWindow
  BY DEF IInv
<1> QED
  BY <1>1, Inductive, PTL

\* Threads that hang, panic or never start keep the slot count exact and
\* under its limit.
THEOREM SlotsBounded == Spec => []SlotsExact
<1>1. IInv => SlotsExact
  BY DEF IInv, SlotCount, SlotsExact, HoldsSlot
<1> QED
  BY <1>1, Inductive, PTL

\* A caller that has stopped waiting holds no permit, whatever its thread does.
THEOREM PermitsBounded == Spec => []PermitsExact
<1>1. IInv => PermitsExact
  BY DEF IInv, Control, PermitCount, PermitsExact
<1> QED
  BY <1>1, Inductive, PTL

\* The pools count their holders as the module does.
LEMMA SameCount ==
    ASSUME NEW S
    PROVE  /\ SlotLease!Cardinality(S) = Cardinality(S)
           /\ PermitLease!Cardinality(S) = Cardinality(S)
BY DEF SlotLease!Cardinality, PermitLease!Cardinality, Cardinality

\* The slots implement a bounded pool of leases.
THEOREM SlotsImplementLeases == Spec => SlotsAreLeased
<1>1. Init => SlotLease!Init
  BY DEF Init, SlotLease!Init, SlotHolders, HoldsSlot, ThreadRuns
<1>2. IInv /\ [Next]_vars => [SlotLease!Next]_SlotHolders
  <2> SUFFICES ASSUME IInv, [Next]_vars PROVE [SlotLease!Next]_SlotHolders
    OBVIOUS
  <2>1. CASE Next
    <3> PICK r \in Render : Step(r)
      BY <2>1 DEF Next, Step
    <3> QED
      BY SlotMoves, SameCount DEF IInv, SlotCount, SlotLease!Next, SlotLease!Take, SlotLease!GiveBack
  <2>2. CASE UNCHANGED vars
    BY <2>2 DEF vars, SlotHolders, HoldsSlot, ThreadRuns
  <2> QED
    BY <2>1, <2>2
<1> QED
  BY <1>1, <1>2, Inductive, PTL DEF Spec, SlotsAreLeased, SlotLease!Spec

\* So do the permits, though the caller and its thread share each.
THEOREM PermitsImplementLeases == Spec => PermitsAreLeased
<1>1. Init => PermitLease!Init
  BY DEF Init, PermitLease!Init, PermitHolders
<1>2. IInv /\ [Next]_vars => [PermitLease!Next]_PermitHolders
  <2> SUFFICES ASSUME IInv, [Next]_vars PROVE [PermitLease!Next]_PermitHolders
    OBVIOUS
  <2>1. CASE Next
    <3> PICK r \in Render : Step(r)
      BY <2>1 DEF Next, Step
    <3> QED
      BY PermitMoves, SameCount DEF IInv, PermitCount, PermitLease!Next, PermitLease!Take, PermitLease!GiveBack
  <2>2. CASE UNCHANGED vars
    BY <2>2 DEF vars, PermitHolders
  <2> QED
    BY <2>1, <2>2
<1> QED
  BY <1>1, <1>2, Inductive, PTL DEF Spec, PermitsAreLeased, PermitLease!Spec

\* Both pools keep a lease's rules, whoever gives back.
THEOREM PoolsImplementLeases == Spec => PoolsAreLeased
  BY SlotsImplementLeases, PermitsImplementLeases DEF PoolsAreLeased


-----------------------------------------------------------------------------
(* The ledger.  Its counter is two atomic additions away from the states   *)
(* it counts, and a thread may rejoin before its caller has counted it.    *)

\* Threads that were given up on and have not said that they are back, and
\* callers that have given up and not counted it yet.
Owed    == {r \in Render : state[r] = "detached" \/ workPc[r] = "rejoin"}
Pending == {r \in Render : callPc[r] = "countLive"}

\* A thread says once that its drawing is over, and only a thread is given up.
StatesFollowThreads ==
    \A r \in Render :
        /\ state[r] = "completed" <=> workPc[r] \notin {"none", "render", "complete"}
        /\ callPc[r] \in {"wait", "mark"} \/ state[r] = "detached" => workPc[r] # "none"

\* What a usize holds of a difference.
Wrapped(n) == IF n >= 0 THEN n ELSE n + Wrap

LedgerCounts == live = Wrapped(Cardinality(Owed) - Cardinality(Pending))

Ledger == StatesFollowThreads /\ LedgerCounts

\* Owed and Pending are sets of calls, which are fewer than a usize can count.
LEMMA LedgerBounds ==
    /\ IsFiniteSet(Owed) /\ Cardinality(Owed) \in 0..(Wrap - 1)
    /\ IsFiniteSet(Pending) /\ Cardinality(Pending) \in 0..(Wrap - 1)
<1>1. Cardinality(Render) \in Nat /\ Cardinality(Render) < Wrap /\ Wrap \in Nat
  BY FS_CardinalityType, LimitAssumption
<1>2. ASSUME NEW S \in SUBSET Render
      PROVE  IsFiniteSet(S) /\ Cardinality(S) \in 0..(Wrap - 1)
  <2>1. IsFiniteSet(S) /\ Cardinality(S) <= Cardinality(Render)
    BY FS_Subset, LimitAssumption
  <2>2. Cardinality(S) \in Nat
    BY <2>1, FS_CardinalityType
  <2>. QED  BY <1>1, <2>1, <2>2
<1>3. Owed \in SUBSET Render /\ Pending \in SUBSET Render
  BY DEF Owed, Pending
<1>. QED  BY <1>2, <1>3

\* One addition or subtraction wraps around at the ends of a usize.
LEMMA WrapsAround ==
    \A n \in -1..Wrap : n % Wrap = (IF n = -1 THEN Wrap - 1 ELSE IF n = Wrap THEN 0 ELSE n)
BY LimitAssumption

\* A thread that is given up on joins both sets; its caller leaves one with the
\* addition, it leaves the other with the subtraction, and they are in no order.
LEMMA LedgerMoves ==
    ASSUME Shapes, StatesFollowThreads, NEW r \in Render, Step(r)
    PROVE  \/ Owed' = Owed /\ Pending' = Pending /\ live' = live
           \/ /\ r \notin Owed /\ r \notin Pending /\ live' = live
              /\ Owed' = Owed \cup {r} /\ Pending' = Pending \cup {r}
           \/ /\ r \in Pending /\ live' = (live + 1) % Wrap
              /\ Owed' = Owed /\ Pending' = Pending \ {r}
           \/ /\ r \in Owed /\ live' = (live - 1) % Wrap
              /\ Owed' = Owed \ {r} /\ Pending' = Pending
<1> USE DEF Shapes, StatesFollowThreads, Owed, Pending, CallMoves, WorkMoves
<1>1. CASE MarkDetached(r)
  BY <1>1 DEF MarkDetached
<1>2. CASE CountLive(r)
  BY <1>2 DEF CountLive
<1>3. CASE Complete(r)
  BY <1>3 DEF Complete
<1>4. CASE Rejoin(r)
  BY <1>4 DEF Rejoin
<1>5. CASE ClaimTarget(r) \/ RefuseTarget(r) \/ TakeSlot(r) \/ RefuseSlot(r)
  BY <1>5 DEF ClaimTarget, RefuseTarget, TakeSlot, RefuseSlot
<1>6. CASE TakePermit(r) \/ RefusePermit(r) \/ CallerReturnsSlot(r) \/ CallerUnclaims(r)
  BY <1>6 DEF TakePermit, RefusePermit, CallerReturnsSlot, CallerUnclaims
<1>7. CASE Spawn(r) \/ SpawnFails(r)
  BY <1>7 DEF Spawn, SpawnFails
<1>8. CASE Receive(r) \/ Disconnected(r) \/ TimesOut(r) \/ MarkTooLate(r) \/ CountTotal(r)
  BY <1>8 DEF Receive, Disconnected, TimesOut, MarkTooLate, CountTotal
<1>9. CASE RenderEnds(r) \/ RenderPanics(r)
  BY <1>9 DEF RenderEnds, RenderPanics
<1>10. CASE WorkerReleases(r) \/ WorkerReturnsSlot(r) \/ WorkerUnclaims(r)
  BY <1>10 DEF WorkerReleases, WorkerReturnsSlot, WorkerUnclaims
<1>. QED
  BY <1>1, <1>2, <1>3, <1>4, <1>5, <1>6, <1>7, <1>8, <1>9, <1>10
     DEF Step, CallStep, WorkStep, UnwindStep

\* The state of a render is left "active" once, by whoever is first.
LEMMA StatesKept ==
    ASSUME Shapes, Control, StatesFollowThreads, NEW r \in Render, Step(r)
    PROVE  StatesFollowThreads'
<1> USE DEF Shapes, Control, StatesFollowThreads, ThreadRuns, CallMoves, WorkMoves
<1>1. CASE ClaimTarget(r) \/ RefuseTarget(r) \/ TakeSlot(r) \/ RefuseSlot(r)
  BY <1>1 DEF ClaimTarget, RefuseTarget, TakeSlot, RefuseSlot
<1>2. CASE TakePermit(r) \/ RefusePermit(r) \/ CallerReturnsSlot(r) \/ CallerUnclaims(r)
  BY <1>2 DEF TakePermit, RefusePermit, CallerReturnsSlot, CallerUnclaims
<1>3. CASE Spawn(r) \/ SpawnFails(r)
  BY <1>3 DEF Spawn, SpawnFails
<1>4. CASE Receive(r) \/ Disconnected(r) \/ TimesOut(r)
  BY <1>4 DEF Receive, Disconnected, TimesOut
<1>5. CASE MarkDetached(r) \/ MarkTooLate(r) \/ CountLive(r) \/ CountTotal(r)
  BY <1>5 DEF MarkDetached, MarkTooLate, CountLive, CountTotal
<1>6. CASE WorkStep(r)
  BY <1>6 DEF WorkStep, UnwindStep, RenderEnds, RenderPanics, Complete, Rejoin,
              WorkerReleases, WorkerReturnsSlot, WorkerUnclaims
<1>. QED
  BY <1>1, <1>2, <1>3, <1>4, <1>5, <1>6 DEF Step, CallStep

\* Whatever the order of the additions, the counter is the wrapped difference.
LEMMA LedgerKept ==
    ASSUME IInv, Ledger, NEW r \in Render, Step(r)
    PROVE  Ledger'
<1>0. Shapes /\ Control /\ StatesFollowThreads
  BY DEF IInv, Ledger
<1>1. StatesFollowThreads'
  BY <1>0, StatesKept
<1>2. LedgerCounts'
  <2> DEFINE a == Cardinality(Owed)
             b == Cardinality(Pending)
  <2>1. a \in 0..(Wrap - 1) /\ b \in 0..(Wrap - 1) /\ live = Wrapped(a - b) /\ Wrap \in Nat
    BY LedgerBounds, LimitAssumption DEF Ledger, LedgerCounts
  <2>2. /\ Cardinality(Owed \cup {r}) = (IF r \in Owed THEN a ELSE a + 1)
        /\ Cardinality(Pending \cup {r}) = (IF r \in Pending THEN b ELSE b + 1)
    BY FS_AddElement, LedgerBounds
  <2>3. /\ Cardinality(Owed \ {r}) = (IF r \in Owed THEN a - 1 ELSE a)
        /\ Cardinality(Pending \ {r}) = (IF r \in Pending THEN b - 1 ELSE b)
    BY FS_RemoveElement, LedgerBounds
  <2>4. CASE Owed' = Owed /\ Pending' = Pending /\ live' = live
    BY <2>1, <2>4 DEF LedgerCounts, Wrapped
  <2>5. CASE /\ r \notin Owed /\ r \notin Pending /\ live' = live
             /\ Owed' = Owed \cup {r} /\ Pending' = Pending \cup {r}
    <3>1. Cardinality(Owed)' = a + 1 /\ Cardinality(Pending)' = b + 1
      BY <2>2, <2>5
    <3>. QED  BY <2>1, <2>5, <3>1 DEF LedgerCounts, Wrapped
  <2>6. CASE /\ r \in Pending /\ live' = (live + 1) % Wrap
             /\ Owed' = Owed /\ Pending' = Pending \ {r}
    <3>1. Cardinality(Owed)' = a /\ Cardinality(Pending)' = b - 1 /\ b - 1 >= 0
      <4>1. Cardinality(Pending \ {r}) \in Nat
        BY FS_RemoveElement, FS_CardinalityType, LedgerBounds
      <4>. QED  BY <2>3, <2>6, <4>1
    <3>2. Wrapped(a - b) + 1 \in -1..Wrap
      BY <2>1, <3>1 DEF Wrapped
    <3>3. (live + 1) % Wrap = Wrapped(a - (b - 1))
      BY <2>1, <3>1, <3>2, WrapsAround DEF Wrapped
    <3>. QED  BY <2>6, <3>1, <3>3 DEF LedgerCounts, Wrapped
  <2>7. CASE /\ r \in Owed /\ live' = (live - 1) % Wrap
             /\ Owed' = Owed \ {r} /\ Pending' = Pending
    <3>1. Cardinality(Owed)' = a - 1 /\ Cardinality(Pending)' = b /\ a - 1 >= 0
      <4>1. Cardinality(Owed \ {r}) \in Nat
        BY FS_RemoveElement, FS_CardinalityType, LedgerBounds
      <4>. QED  BY <2>3, <2>7, <4>1
    <3>2. Wrapped(a - b) - 1 \in -1..Wrap
      BY <2>1, <3>1 DEF Wrapped
    <3>3. (live - 1) % Wrap = Wrapped((a - 1) - b)
      BY SMTT(30), <2>1, <3>1, <3>2, WrapsAround DEF Wrapped
    <3>. QED  BY <2>7, <3>1, <3>3 DEF LedgerCounts, Wrapped
  <2>. QED  BY <1>0, <2>4, <2>5, <2>6, <2>7, LedgerMoves
<1>. QED  BY <1>1, <1>2 DEF Ledger

\* Between additions the ledger's live count is the number of threads that
\* were given up on and are still running: mark_render_detached,
\* complete_render and DetachLedger, whoever comes first.
THEOREM LedgerAlwaysSettles == Spec => []LedgerSettles
<1>1. Init => Ledger
  <2> SUFFICES ASSUME Init PROVE Ledger
    OBVIOUS
  <2>1. Owed = {} /\ Pending = {}
    BY DEF Init, Owed, Pending
  <2>2. LedgerCounts
    BY <2>1, FS_EmptySet DEF Init, LedgerCounts, Wrapped
  <2>3. StatesFollowThreads
    BY DEF Init, StatesFollowThreads
  <2>. QED  BY <2>2, <2>3 DEF Ledger
<1>2. IInv /\ Ledger /\ [Next]_vars => Ledger'
  <2> SUFFICES ASSUME IInv, Ledger, [Next]_vars PROVE Ledger'
    OBVIOUS
  <2>1. CASE Next
    <3> PICK r \in Render : Step(r)
      BY <2>1 DEF Next, Step
    <3>. QED  BY LedgerKept
  <2>2. CASE UNCHANGED vars
    BY <2>2 DEF vars, Ledger, StatesFollowThreads, LedgerCounts, Owed, Pending
  <2>. QED  BY <2>1, <2>2
<1>3. IInv /\ Ledger => LedgerSettles
  <2> SUFFICES ASSUME IInv, Ledger, \A r \in Render : callPc[r] # "countLive" /\ workPc[r] # "rejoin"
               PROVE  live = Cardinality({r \in Render : state[r] = "detached" /\ ThreadRuns(r)})
    BY DEF LedgerSettles
  <2>1. Pending = {} /\ Owed = {r \in Render : state[r] = "detached" /\ ThreadRuns(r)}
    BY DEF Pending, Owed, Ledger, StatesFollowThreads, ThreadRuns
  <2>2. Cardinality(Pending) = 0 /\ Cardinality(Owed) \in Nat
    BY <2>1, FS_EmptySet, LedgerBounds
  <2>3. live = Cardinality(Owed)
    BY <2>2 DEF Ledger, LedgerCounts, Wrapped
  <2>. QED  BY <2>1, <2>3
<1>. QED  BY <1>1, <1>2, <1>3, Inductive, PTL DEF Spec

===============================================================================
