---------------------------- MODULE WindowRender ----------------------------
(***************************************************************************)
(* Rendering a window on a thread that may never come back: what           *)
(* capture_window_bounded takes before it starts the thread, who gives it  *)
(* back and when, and the ledger of the threads that were given up on.     *)
(*                                                                         *)
(*   target  an exclusive claim on the window, so that a window that hangs *)
(*           its renderer can hang one only                                *)
(*   slot    one of MaxWorkers, held until the thread exits                *)
(*   permit  one of MaxInFlight, held until the caller stops waiting       *)
(*                                                                         *)
(* A render is one call of capture_window_bounded, from any thread; the    *)
(* drawing itself may take for ever.  The permit's `released` flag and its *)
(* counter change in one step: whoever swaps the flag is alone with it,    *)
(* and the counter is the only thing others see.                           *)
(***************************************************************************)
EXTENDS Integers, FiniteSets

CONSTANTS
    Render,        \* the calls
    Window,        \* the windows they render
    MaxInFlight,   \* MAX_IN_FLIGHT_WINDOW_RENDERS
    MaxWorkers,    \* MAX_WINDOW_RENDER_WORKERS, and the ledger's ceiling
    Wrap           \* a usize holds 0..Wrap-1

ASSUME LimitAssumption ==
    /\ MaxInFlight \in Nat /\ MaxWorkers \in Nat /\ Wrap \in Nat \ {0}
    /\ IsFiniteSet(Render) /\ Cardinality(Render) < Wrap

VARIABLES
    callPc, workPc,   \* each call, and its thread
    target,           \* the window of each call
    sent,             \* renders whose result is in the channel
    claimed,          \* ACTIVE_WINDOW_RENDER_TARGETS
    workers,          \* WINDOW_RENDER_WORKERS
    active,           \* IN_FLIGHT_WINDOW_RENDERS
    permit,           \* each call's permit: none, held or released
    state,            \* render_state: RENDER_ACTIVE, _DETACHED, _COMPLETED
    live, total       \* DetachLedger, for DetachKind::WindowRender

vars == <<callPc, workPc, target, sent, claimed, workers, active, permit, state, live, total>>

Init ==
    /\ callPc = [r \in Render |-> "idle"]
    /\ workPc = [r \in Render |-> "none"]
    /\ target \in [Render -> Window]
    /\ sent = {}
    /\ claimed = {}
    /\ workers = 0
    /\ active = 0
    /\ permit = [r \in Render |-> "none"]
    /\ state = [r \in Render |-> "active"]
    /\ live = 0 /\ total = 0

CallMoves(r, from, to) == callPc[r] = from /\ callPc' = [callPc EXCEPT ![r] = to]
WorkMoves(r, from, to) == workPc[r] = from /\ workPc' = [workPc EXCEPT ![r] = to]

-----------------------------------------------------------------------------
(* What a render holds, and how it is given back: by the caller if no      *)
(* thread was started, by the thread otherwise.                            *)

Unclaim(r) == claimed' = claimed \ {target[r]}

ReturnSlot == workers' = workers - 1

\* Idempotent: the caller's clone and the thread's share the flag.
ReleasePermit(r) ==
    IF permit[r] = "held"
    THEN permit' = [permit EXCEPT ![r] = "released"] /\ active' = active - 1
    ELSE UNCHANGED <<permit, active>>

-----------------------------------------------------------------------------
(* capture_window_bounded and run_bounded_window_render, on the caller.    *)

\* Variation: a claim that is there already is taken for its own.
ClaimTargetAgain(r) ==
    /\ CallMoves(r, "idle", "slot")
    /\ claimed' = claimed \cup {target[r]}
    /\ UNCHANGED <<workPc, target, sent, workers, active, permit, state, live, total>>

ClaimTarget(r) ==
    /\ target[r] \notin claimed
    /\ CallMoves(r, "idle", "slot")
    /\ claimed' = claimed \cup {target[r]}
    /\ UNCHANGED <<workPc, target, sent, workers, active, permit, state, live, total>>

RefuseTarget(r) ==
    /\ target[r] \in claimed
    /\ CallMoves(r, "idle", "done")
    /\ UNCHANGED <<workPc, target, sent, claimed, workers, active, permit, state, live, total>>

\* Variation: the limit is not looked at again after a failed exchange.
TakeSlotBlindly(r) ==
    /\ CallMoves(r, "slot", "permit")
    /\ workers' = workers + 1
    /\ UNCHANGED <<workPc, target, sent, claimed, active, permit, state, live, total>>

TakeSlot(r) ==
    /\ workers < MaxWorkers
    /\ CallMoves(r, "slot", "permit")
    /\ workers' = workers + 1
    /\ UNCHANGED <<workPc, target, sent, claimed, active, permit, state, live, total>>

RefuseSlot(r) ==
    /\ workers >= MaxWorkers
    /\ CallMoves(r, "slot", "unclaim")
    /\ UNCHANGED <<workPc, target, sent, claimed, workers, active, permit, state, live, total>>

TakePermit(r) ==
    /\ active < MaxInFlight
    /\ CallMoves(r, "permit", "spawn")
    /\ active' = active + 1
    /\ permit' = [permit EXCEPT ![r] = "held"]
    /\ UNCHANGED <<workPc, target, sent, claimed, workers, state, live, total>>

RefusePermit(r) ==
    /\ active >= MaxInFlight
    /\ CallMoves(r, "permit", "returnSlot")
    /\ UNCHANGED <<workPc, target, sent, claimed, workers, active, permit, state, live, total>>

Spawn(r) ==
    /\ CallMoves(r, "spawn", "wait")
    /\ WorkMoves(r, "none", "render")
    /\ UNCHANGED <<target, sent, claimed, workers, active, permit, state, live, total>>

\* The closure is dropped unstarted, with what it was given.
SpawnFails(r) ==
    /\ CallMoves(r, "spawn", "returnSlot")
    /\ ReleasePermit(r)
    /\ UNCHANGED <<workPc, target, sent, claimed, workers, state, live, total>>

CallerReturnsSlot(r) ==
    /\ CallMoves(r, "returnSlot", "unclaim")
    /\ ReturnSlot
    /\ UNCHANGED <<workPc, target, sent, claimed, active, permit, state, live, total>>

CallerUnclaims(r) ==
    /\ CallMoves(r, "unclaim", "done")
    /\ Unclaim(r)
    /\ UNCHANGED <<workPc, target, sent, workers, active, permit, state, live, total>>

\* A result; the caller's clone of the permit goes as it returns.
Receive(r) ==
    /\ r \in sent
    /\ CallMoves(r, "wait", "done")
    /\ ReleasePermit(r)
    /\ UNCHANGED <<workPc, target, sent, claimed, workers, state, live, total>>

\* The thread ended without one.
Disconnected(r) ==
    /\ workPc[r] = "gone" /\ r \notin sent
    /\ CallMoves(r, "wait", "done")
    /\ ReleasePermit(r)
    /\ UNCHANGED <<workPc, target, sent, claimed, workers, state, live, total>>

\* Variation: a wait without a deadline.
TimesOutNever(r) ==
    /\ workPc[r] = "gone" /\ r \notin sent
    /\ CallMoves(r, "wait", "mark")
    /\ ReleasePermit(r)
    /\ UNCHANGED <<workPc, target, sent, claimed, workers, state, live, total>>

\* The deadline; a result that comes from now on is not looked at.
TimesOut(r) ==
    /\ workPc[r] # "gone" /\ r \notin sent
    /\ CallMoves(r, "wait", "mark")
    /\ ReleasePermit(r)
    /\ UNCHANGED <<workPc, target, sent, claimed, workers, state, live, total>>

\* Variation: the state is overwritten, whoever got there first.
MarkTooLateAnyway(r) ==
    /\ state[r] # "active"
    /\ CallMoves(r, "mark", "countLive")
    /\ state' = [state EXCEPT ![r] = "detached"]
    /\ UNCHANGED <<workPc, target, sent, claimed, workers, active, permit, live, total>>

\* mark_render_detached: the thread and the caller race for the state.
MarkDetached(r) ==
    /\ state[r] = "active"
    /\ CallMoves(r, "mark", "countLive")
    /\ state' = [state EXCEPT ![r] = "detached"]
    /\ UNCHANGED <<workPc, target, sent, claimed, workers, active, permit, live, total>>

MarkTooLate(r) ==
    /\ state[r] # "active"
    /\ CallMoves(r, "mark", "done")
    /\ UNCHANGED <<workPc, target, sent, claimed, workers, active, permit, state, live, total>>

\* DetachLedger::detached: live, then total.
CountLive(r) ==
    /\ CallMoves(r, "countLive", "countTotal")
    /\ live' = (live + 1) % Wrap
    /\ UNCHANGED <<workPc, target, sent, claimed, workers, active, permit, state, total>>

CountTotal(r) ==
    /\ CallMoves(r, "countTotal", "done")
    /\ total' = (total + 1) % Wrap
    /\ UNCHANGED <<workPc, target, sent, claimed, workers, active, permit, state, live>>

-----------------------------------------------------------------------------
(* The thread.  Its locals go in the reverse of their order: completion,   *)
(* permit, budget; the sender, which the closure captured, last.           *)

RenderEnds(r) ==
    /\ WorkMoves(r, "render", "complete")
    /\ sent' = sent \cup {r}
    /\ UNCHANGED <<callPc, target, claimed, workers, active, permit, state, live, total>>

RenderPanics(r) ==
    /\ WorkMoves(r, "render", "complete")
    /\ UNCHANGED <<callPc, target, sent, claimed, workers, active, permit, state, live, total>>

\* complete_render.
Complete(r) ==
    /\ WorkMoves(r, "complete", IF state[r] = "detached" THEN "rejoin" ELSE "release")
    /\ state' = [state EXCEPT ![r] = "completed"]
    /\ UNCHANGED <<callPc, target, sent, claimed, workers, active, permit, live, total>>

\* DetachLedger::rejoined; a usize wraps below zero.
Rejoin(r) ==
    /\ WorkMoves(r, "rejoin", "release")
    /\ live' = (live - 1) % Wrap
    /\ UNCHANGED <<callPc, target, sent, claimed, workers, active, permit, state, total>>

WorkerReleases(r) ==
    /\ WorkMoves(r, "release", "returnSlot")
    /\ ReleasePermit(r)
    /\ UNCHANGED <<callPc, target, sent, claimed, workers, state, live, total>>

WorkerReturnsSlot(r) ==
    /\ WorkMoves(r, "returnSlot", "unclaim")
    /\ ReturnSlot
    /\ UNCHANGED <<callPc, target, sent, claimed, active, permit, state, live, total>>

WorkerUnclaims(r) ==
    /\ WorkMoves(r, "unclaim", "gone")
    /\ Unclaim(r)
    /\ UNCHANGED <<callPc, target, sent, workers, active, permit, state, live, total>>

-----------------------------------------------------------------------------
CallStep(r) ==
    \/ ClaimTarget(r) \/ RefuseTarget(r) \/ TakeSlot(r) \/ RefuseSlot(r)
    \/ TakePermit(r) \/ RefusePermit(r) \/ Spawn(r) \/ SpawnFails(r)
    \/ CallerReturnsSlot(r) \/ CallerUnclaims(r)
    \/ Receive(r) \/ Disconnected(r) \/ TimesOut(r)
    \/ MarkDetached(r) \/ MarkTooLate(r) \/ CountLive(r) \/ CountTotal(r)

\* What the thread does once the drawing is over.
UnwindStep(r) ==
    \/ Complete(r) \/ Rejoin(r) \/ WorkerReleases(r)
    \/ WorkerReturnsSlot(r) \/ WorkerUnclaims(r)

WorkStep(r) == RenderEnds(r) \/ RenderPanics(r) \/ UnwindStep(r)

Next == \E r \in Render : CallStep(r) \/ WorkStep(r)

Spec == Init /\ [][Next]_vars

\* A caller's wait ends at its deadline at the latest.  Nothing is assumed of
\* the threads: a drawing need not end, nor one that ended be cleaned up.
Scheduled == \A r \in Render : WF_vars(CallStep(r))

-----------------------------------------------------------------------------
(* Properties.                                                             *)

\* Every variable stays in its range; the counters of slots, permits and
\* threads given up on never go below zero.
TypeOK ==
    /\ callPc \in [Render -> {"idle", "slot", "permit", "spawn", "wait", "mark",
                              "countLive", "countTotal", "returnSlot", "unclaim", "done"}]
    /\ workPc \in [Render -> {"none", "render", "complete", "rejoin", "release",
                              "returnSlot", "unclaim", "gone"}]
    /\ target \in [Render -> Window]
    /\ sent \subseteq Render
    /\ claimed \subseteq Window
    /\ workers \in Nat /\ active \in Nat
    /\ permit \in [Render -> {"none", "held", "released"}]
    /\ state \in [Render -> {"active", "detached", "completed"}]
    /\ live \in 0..(Wrap - 1) /\ total \in 0..(Wrap - 1)

ThreadRuns(r) == workPc[r] \notin {"none", "gone"}

HoldsTarget(r) == callPc[r] \in {"slot", "permit", "spawn", "returnSlot", "unclaim"} \/ ThreadRuns(r)

HoldsSlot(r) ==
    \/ callPc[r] \in {"permit", "spawn", "returnSlot"}
    \/ ThreadRuns(r) /\ workPc[r] # "unclaim"

SlotHolders   == {r \in Render : HoldsSlot(r)}
PermitHolders == {r \in Render : permit[r] = "held"}

\* A window is rendered by one thread at a time, the claims are exactly those
\* of the renders under way, and so a window that never answers costs one slot
\* however often it is tried.
OneRenderPerWindow ==
    /\ claimed = {target[r] : r \in {r \in Render : HoldsTarget(r)}}
    /\ \A r, s \in Render : HoldsTarget(r) /\ HoldsTarget(s) /\ target[r] = target[s] => r = s

\* Every slot in the count is some render's, and there are never more threads
\* than slots, whichever of them are refused, fail, panic or hang.
SlotsExact ==
    /\ workers = Cardinality(SlotHolders)
    /\ workers <= MaxWorkers
    /\ \A r \in Render : ThreadRuns(r) => HoldsSlot(r) \/ workPc[r] = "unclaim"

\* The caller and the thread both give the permit back, and it is counted
\* once; no caller leaves one behind, so that a hung window holds none.
PermitsExact ==
    /\ active = Cardinality(PermitHolders)
    /\ active <= MaxInFlight
    /\ \A r \in Render : callPc[r] \in {"mark", "countLive", "countTotal", "done"} => permit[r] # "held"

\* The ledger says how many threads were given up on and are still running,
\* whenever nobody is between the state and the count.
LedgerSettles ==
    (\A r \in Render : callPc[r] # "countLive" /\ workPc[r] # "rejoin")
        => live = Cardinality({r \in Render : state[r] = "detached" /\ ThreadRuns(r)})

\* A caller returns though its window never does.
CallReturns == \A r \in Render : callPc[r] # "idle" ~> callPc[r] = "done"

SlotLease   == INSTANCE Lease WITH Holder <- Render, Limit <- MaxWorkers, held <- SlotHolders
PermitLease == INSTANCE Lease WITH Holder <- Render, Limit <- MaxInFlight, held <- PermitHolders

\* Worker slots are leases, and so are the permits, which the caller and its
\* thread both try to release: one step never takes or gives back two, nobody
\* takes one past the limit, and only a holder gives one back.
SlotsAreLeased == SlotLease!Spec
PermitsAreLeased == PermitLease!Spec
PoolsAreLeased == SlotsAreLeased /\ PermitsAreLeased

===============================================================================
