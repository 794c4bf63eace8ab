-------------------------- MODULE Recordings_proofs --------------------------
(***************************************************************************)
(* Proofs about Recordings for every number of recordings and UI threads   *)
(* and every set of faults: one recorder that exit can stop, one holder    *)
(* for each finished recording until it is settled, once, and what the end *)
(* of the process may lose.                                                *)
(***************************************************************************)
EXTENDS Recordings, FiniteSetTheorems, TLAPS

-----------------------------------------------------------------------------
(* The ranges of the variables, in the groups the steps leave unchanged.   *)

\* A task a thread may have, and a command a UI thread may be sent.
Job == [do : {"idle", "open", "reclaim", "conclude", "push", "next"},
        rec : Recording \cup {None}, with : Answer \cup {"none"}]
Order == [show : {"show", "hide", "review"}, rec : Recording]

SelTyped ==
    /\ selPc \in {"idle", "start", "publish", "show", "spawn", "keepJoin", "gone"}
    /\ starting \in Recording \cup {None}
HostTyped ==
    /\ active \in BOOLEAN /\ exiting \in BOOLEAN
    /\ stop \in Recording \cup {None} /\ join \in Recording \cup {None}
    /\ flagged \subseteq Recording /\ inMemory \subseteq Recording
RecTyped ==
    /\ recPc \in [Recording -> {"none", "record", "hide", "clearStop", "clearActive",
                                "settle", "save", "queue", "flow", "gone"}]
    /\ result \in [Recording -> {"none", "ok", "error", "starved"}]
ReviewTyped == reviewOpen \in BOOLEAN /\ waiting \in Seq(Recording)
SaverTyped ==
    /\ savers \subseteq Recording /\ unsaved \subseteq Recording
    /\ saverPc \in [Recording -> {"none", "encode", "take", "write", "gone"}]
TaskTyped == task \in [Thread -> Job]
UiTyped ==
    /\ host \in Ui \cup {None}
    /\ uiPc \in [Ui -> {"none", "running", "stopping", "gone"}]
    /\ uiQueue \in [Ui -> Seq(Order)]
    /\ indicator \in [Ui -> Recording \cup {None}]
    /\ windows \in [Ui -> SUBSET Recording]
SharedTyped == shared \subseteq Recording
EndTyped ==
    /\ fate \in [Recording -> Settled \cup {"none"}]
    /\ files \in [Recording -> 0..1]
ExitTyped ==
    /\ exitPc \in {"running", "draining", "setExiting", "raiseStop", "joinRecording",
                   "takeSavers", "joinSavers", "joinSelection", "takeHost", "stopHost",
                   "done", "ended"}
    /\ pass \in {1, 2} /\ hosting \in Ui \cup {None} /\ taken \subseteq Recording

Typed == /\ SelTyped /\ HostTyped /\ RecTyped /\ ReviewTyped /\ SaverTyped
         /\ TaskTyped /\ UiTyped /\ SharedTyped /\ EndTyped /\ ExitTyped

\* The groups together are the type invariant.
LEMMA TypedIsTypeOK == Typed <=> TypeOK
<1> USE DEF SelTyped, HostTyped, RecTyped, ReviewTyped, SaverTyped, TaskTyped, UiTyped,
            SharedTyped, EndTyped, ExitTyped, Job, Order
<1>1. Typed => TypeOK
  BY Zenon DEF Typed, TypeOK
<1>2. TypeOK => Typed
  BY Zenon DEF Typed, TypeOK
<1> QED
  BY <1>1, <1>2

\* A group no variable of which changes stays in its range.
LEMMA Framed ==
    ASSUME Typed
    PROVE  /\ UNCHANGED selVars => SelTyped'
           /\ UNCHANGED hostVars => HostTyped'
           /\ UNCHANGED recVars => RecTyped'
           /\ UNCHANGED reviewVars => ReviewTyped'
           /\ UNCHANGED saverVars => SaverTyped'
           /\ UNCHANGED task => TaskTyped'
           /\ UNCHANGED uiVars => UiTyped'
           /\ UNCHANGED shared => SharedTyped'
           /\ UNCHANGED endVars => EndTyped'
           /\ UNCHANGED exitVars => ExitTyped'
<1> USE DEF Typed
<1>1. UNCHANGED selVars => SelTyped'
  BY DEF selVars, SelTyped
<1>2. UNCHANGED hostVars => HostTyped'
  BY DEF hostVars, HostTyped
<1>3. UNCHANGED recVars => RecTyped'
  BY DEF recVars, RecTyped
<1>4. UNCHANGED reviewVars => ReviewTyped'
  BY DEF reviewVars, ReviewTyped
<1>5. UNCHANGED saverVars => SaverTyped'
  BY DEF saverVars, SaverTyped
<1>6. UNCHANGED task => TaskTyped'
  BY DEF TaskTyped
<1>7. UNCHANGED uiVars => UiTyped'
  BY DEF uiVars, UiTyped
<1>8. UNCHANGED shared => SharedTyped'
  BY DEF SharedTyped
<1>9. UNCHANGED endVars => EndTyped'
  BY DEF endVars, EndTyped
<1>10. UNCHANGED exitVars => ExitTyped'
  BY DEF exitVars, ExitTyped
<1> QED
  BY <1>1, <1>2, <1>3, <1>4, <1>5, <1>6, <1>7, <1>8, <1>9, <1>10

-----------------------------------------------------------------------------
(* The claim on recording.                                                 *)

\* Confirmed and not yet handed to its recorder.
Confirmed == {"start", "publish", "show", "spawn"}

\* The selection thread from its claim to the spawn, then the recorder.
Claiming(r) == \/ selPc \in {"publish", "show", "spawn"} /\ starting = r
               \/ Recorder(r)

\* One thread has the claim, `active` says so, and the flag published under
\* it stays the claimant's until the recorder clears it.
OneClaim ==
    /\ \A r, s \in Recording : Claiming(r) /\ Claiming(s) => r = s
    /\ \A r \in Recording : Claiming(r) => active
    /\ \A r \in Recording :
         \/ selPc \in {"show", "spawn"} /\ starting = r
         \/ recPc[r] \in {"record", "hide", "clearStop"}
         => stop = r

\* A confirmed recording has had no recorder and no end.
FreshStart ==
    /\ selPc \in Confirmed \cup {"keepJoin"} => starting \in Recording
    /\ selPc \in Confirmed => recPc[starting] = "none" /\ fate[starting] = "none"

-----------------------------------------------------------------------------
(* How far a recording is.                                                 *)

\* Its recorder has the recording, which has ended; its recorder is done with it.
Keeping(r) == recPc[r] \in {"hide", "clearStop", "clearActive", "settle", "save", "queue"}
LetGo(r) == recPc[r] \in {"flow", "gone"}
Draft(r) == r \in inMemory /\ result[r] = "ok"

\* A recording in a file is saved with its end; a draft is all that is
\* unsettled once the recorder has let go.
Progress(r) ==
    /\ recPc[r] \in {"none", "record"} => result[r] = "none"
    /\ recPc[r] = "record" => fate[r] = "none"
    /\ Keeping(r) /\ ~Draft(r) => fate[r] = IF result[r] = "ok" THEN "saved" ELSE "none"
    /\ recPc[r] \in {"save", "queue"} => Draft(r)
    /\ LetGo(r) /\ fate[r] = "none" => Draft(r)
    /\ fate[r] = "none" => files[r] = 0

-----------------------------------------------------------------------------
(* Who has a draft.                                                        *)

Has(s, x) == \E i \in DOMAIN s : s[i] = x
Once(s) == \A i, j \in DOMAIN s : s[i] = s[j] => i = j

Opened(r, t) == task[t].do = "open" /\ task[t].rec = r
Tasked(r, t) == task[t].do \in {"open", "conclude"} /\ task[t].rec = r
Waits(r) == Has(waiting, r)
Edited(r) == r \in unsaved \/ saverPc[r] = "write"

\* No two of a task, the line of waiting drafts, a review and a saver.
Apart(r) ==
    /\ \A t, v \in Thread : Tasked(r, t) /\ Tasked(r, v) => t = v
    /\ \A t \in Thread : Tasked(r, t) => ~Waits(r) /\ r \notin shared /\ ~Edited(r)
    /\ Waits(r) => r \notin shared /\ ~Edited(r)
    /\ r \in shared => ~Edited(r)

\* A review is asked for once, of one UI thread, and an unanswered one of a
\* UI thread that lives.
AskedOnce(r) ==
    /\ \A u, v \in Ui : RequestedAt(u, r) /\ RequestedAt(v, r) => u = v
    /\ \A u \in Ui : RequestedAt(u, r) =>
                       ~Waits(r) /\ \A t \in Thread : ~Opened(r, t)
    /\ r \in shared => \E u \in Ui : UiAlive(u) /\ RequestedAt(u, r)

Elsewhere(r) ==
    (\E t \in Thread : Tasked(r, t)) \/ Waits(r) \/ r \in shared \/ Edited(r)

\* Nobody has what its recorder has not let go of.
Later(r) == Elsewhere(r) \/ (\E u \in Ui : RequestedAt(u, r)) => LetGo(r) /\ Draft(r)

\* What is not settled is with its recorder or with one of the others.
Held(r) == Draft(r) => (fate[r] = "none" <=> Keeping(r) \/ Elsewhere(r))

Custody(r) == Apart(r) /\ AskedOnce(r) /\ Later(r) /\ Held(r)

\* All there is to say of one recording.
Kept(r) == Progress(r) /\ Custody(r)

-----------------------------------------------------------------------------
(* The threads that act on them.                                           *)

ThreadsAct ==
    /\ \A r \in Recording : task[r].do # "idle" => recPc[r] = "flow"
    /\ \A u \in Ui : task[u].do # "idle" => UiAlive(u)
    /\ \A t \in Thread :
         task[t].do \in {"open", "reclaim", "conclude", "push"} => task[t].rec \in Recording
    /\ host # None => uiPc[host] = "running"

ReviewGoesOn ==
    /\ waiting # <<>> => reviewOpen
    /\ reviewOpen => shared # {} \/ \E t \in Thread :
                       task[t].do \in {"open", "conclude", "push", "next"}

SaversAreKnown ==
    /\ \A r \in unsaved :
         /\ saverPc[r] \in {"encode", "take"}
         /\ \/ r \in savers \cup taken
            \/ \E t \in Thread : task[t].do = "push" /\ task[t].rec = r
    /\ taken # {} => exitPc = "joinSavers"

IInv == /\ Typed /\ OneClaim /\ FreshStart
        /\ \A r \in Recording : Kept(r)
        /\ Once(waiting)
        /\ ThreadsAct /\ ReviewGoesOn /\ SaversAreKnown

-----------------------------------------------------------------------------
(* Queues, tasks and files.                                                *)

\* What joins a queue.
LEMMA AppendHas ==
    ASSUME NEW S, NEW s \in Seq(S), NEW e \in S
    PROVE  /\ Append(s, e) \in Seq(S) /\ Append(s, e) # <<>>
           /\ \A x : Has(Append(s, e), x) <=> Has(s, x) \/ x = e
           /\ Once(s) /\ ~Has(s, e) => Once(Append(s, e))
<1>1. /\ Append(s, e) \in Seq(S) /\ DOMAIN Append(s, e) = 1..(Len(s) + 1)
      /\ Len(s) \in Nat /\ DOMAIN s = 1..Len(s)
      /\ Append(s, e)[Len(s) + 1] = e
      /\ \A i \in 1..Len(s) : Append(s, e)[i] = s[i]
  OBVIOUS
<1>2. Append(s, e) # <<>>
  BY <1>1
<1>3. ASSUME NEW x PROVE Has(Append(s, e), x) <=> Has(s, x) \/ x = e
  BY <1>1 DEF Has
<1>4. ASSUME Once(s), ~Has(s, e) PROVE Once(Append(s, e))
  BY <1>1, <1>4 DEF Has, Once
<1> QED
  BY <1>1, <1>2, <1>3, <1>4

\* What leaves one.
LEMMA TailHas ==
    ASSUME NEW S, NEW s \in Seq(S), s # <<>>
    PROVE  /\ Tail(s) \in Seq(S) /\ Head(s) \in S /\ Has(s, Head(s))
           /\ \A x : Has(s, x) <=> x = Head(s) \/ Has(Tail(s), x)
           /\ Once(s) => Once(Tail(s)) /\ ~Has(Tail(s), Head(s))
<1>1. /\ Tail(s) \in Seq(S) /\ Len(s) \in Nat \ {0} /\ DOMAIN s = 1..Len(s)
      /\ DOMAIN Tail(s) = 1..(Len(s) - 1) /\ Head(s) = s[1] /\ s[1] \in S
      /\ \A i \in 1..(Len(s) - 1) : Tail(s)[i] = s[i + 1]
  OBVIOUS
<1>2. Has(s, Head(s))
  BY <1>1 DEF Has
<1>3. ASSUME NEW x PROVE Has(s, x) <=> x = Head(s) \/ Has(Tail(s), x)
  <2>1. ASSUME NEW i \in DOMAIN s, s[i] = x, i # 1 PROVE Has(Tail(s), x)
    <3>1. i - 1 \in DOMAIN Tail(s) /\ Tail(s)[i - 1] = x
      BY <1>1, <2>1
    <3> QED
      BY <3>1 DEF Has
  <2>2. ASSUME NEW i \in DOMAIN Tail(s), Tail(s)[i] = x PROVE Has(s, x)
    <3>1. i + 1 \in DOMAIN s /\ s[i + 1] = x
      BY <1>1, <2>2
    <3> QED
      BY <3>1 DEF Has
  <2> QED
    BY <1>1, <1>2, <2>1, <2>2 DEF Has
<1>4. ASSUME Once(s) PROVE Once(Tail(s)) /\ ~Has(Tail(s), Head(s))
  BY <1>1, <1>4 DEF Has, Once
<1> QED
  BY <1>1, <1>2, <1>3, <1>4

\* An empty queue has nothing.
LEMMA NothingWaits == waiting = <<>> => \A r : ~Waits(r)
BY DEF Waits, Has

\* A command joins the queue of the UI thread it is posted to.
LEMMA Requested ==
    ASSUME UiTyped, NEW u \in Ui, NEW what \in {"show", "hide", "review"},
           NEW s \in Recording, Request(u, what, s), UNCHANGED windows
    PROVE  /\ uiQueue' \in [Ui -> Seq(Order)]
           /\ \A r \in Recording, v \in Ui :
                RequestedAt(v, r)' <=> RequestedAt(v, r) \/ (v = u /\ what = "review" /\ r = s)
<1> DEFINE order == Command(what, s)
<1>1. order \in Order
  BY DEF Command, Order
<1>2. uiQueue[u] \in Seq(Order) /\ uiQueue' = [uiQueue EXCEPT ![u] = Append(@, order)]
  BY DEF UiTyped, Request
<1>3. \A r \in Recording : Command("review", r) = order <=> what = "review" /\ r = s
  BY DEF Command
<1> HIDE DEF order
<1>4. /\ Append(uiQueue[u], order) \in Seq(Order)
      /\ \A x : Has(Append(uiQueue[u], order), x) <=> Has(uiQueue[u], x) \/ x = order
  BY <1>1, <1>2, AppendHas
<1>5. /\ uiQueue' \in [Ui -> Seq(Order)] /\ uiQueue'[u] = Append(uiQueue[u], order)
      /\ \A v \in Ui : v # u => uiQueue'[v] = uiQueue[v]
  BY <1>2, <1>4 DEF UiTyped
<1>6. ASSUME NEW r \in Recording, NEW v \in Ui
      PROVE  RequestedAt(v, r)' <=> RequestedAt(v, r) \/ (v = u /\ what = "review" /\ r = s)
  <2>1. Has(uiQueue'[v], Command("review", r))
          <=> Has(uiQueue[v], Command("review", r)) \/ (v = u /\ what = "review" /\ r = s)
    <3>1. CASE v = u
      BY <1>3, <1>4, <1>5, <3>1
    <3>2. CASE v # u
      BY <1>5, <3>2
    <3> QED
      BY <3>1, <3>2
  <2>2. RequestedAt(v, r) <=> r \in windows[v] \/ Has(uiQueue[v], Command("review", r))
    BY DEF RequestedAt, Has
  <2>3. RequestedAt(v, r)' <=> r \in windows'[v] \/ Has(uiQueue'[v], Command("review", r))
    BY DEF RequestedAt, Has
  <2> QED
    BY <2>1, <2>2, <2>3
<1> QED
  BY <1>5, <1>6

\* A border is hidden by the UI thread there is.
LEMMA Hidden ==
    ASSUME UiTyped, NEW s \in Recording, HideIndicator(s)
    PROVE  /\ UiTyped' /\ UNCHANGED <<host, uiPc, windows>>
           /\ \A r \in Recording, v \in Ui : RequestedAt(v, r)' <=> RequestedAt(v, r)
<1>1. UNCHANGED <<host, uiPc, indicator, windows>>
  BY DEF HideIndicator
<1>2. CASE host # None
  <2>1. host \in Ui /\ Request(host, "hide", s)
    BY <1>2 DEF HideIndicator, UiTyped
  <2>2. /\ uiQueue' \in [Ui -> Seq(Order)]
        /\ \A r \in Recording, v \in Ui :
             RequestedAt(v, r)' <=> RequestedAt(v, r) \/ (v = host /\ "hide" = "review" /\ r = s)
    BY <1>1, <2>1, Requested
  <2> QED
    BY <1>1, <2>2 DEF UiTyped
<1>3. CASE host = None
  <2>1. UNCHANGED uiQueue
    BY <1>3 DEF HideIndicator
  <2> QED
    BY <1>1, <2>1 DEF UiTyped, RequestedAt
<1> QED
  BY <1>2, <1>3

\* What a thread does about a review.
LEMMA Became ==
    ASSUME TaskTyped, NEW t \in Thread, NEW job \in Job, Becomes(t, job)
    PROVE  /\ TaskTyped' /\ task'[t] = job
           /\ \A v \in Thread : v # t => task'[v] = task[v]
BY DEF TaskTyped, Becomes

\* A recording is settled, in a file or not.
LEMMA Written ==
    ASSUME EndTyped, NEW r \in Recording, files[r] = 0,
           NEW good \in {"saved", "edited"}, Writes(r, good)
    PROVE  /\ EndTyped' /\ fate'[r] \in Settled
           /\ \A s \in Recording : s # r => fate'[s] = fate[s] /\ files'[s] = files[s]
<1>1. fate' = [fate EXCEPT ![r] = good] \/ fate' = [fate EXCEPT ![r] = "failed"]
  BY DEF Writes
<1>2. files' = files \/ files' = [files EXCEPT ![r] = @ + 1]
  BY DEF Writes
<1>3. files' \in [Recording -> 0..1] /\ \A s \in Recording : s # r => files'[s] = files[s]
  <2>1. CASE files' = files
    BY <2>1 DEF EndTyped
  <2>2. CASE files' = [files EXCEPT ![r] = @ + 1]
    BY <2>2 DEF EndTyped
  <2> QED
    BY <1>2, <2>1, <2>2
<1>4. /\ fate' \in [Recording -> Settled \cup {"none"}] /\ fate'[r] \in Settled
      /\ \A s \in Recording : s # r => fate'[s] = fate[s]
  <2>1. CASE fate' = [fate EXCEPT ![r] = good]
    BY <2>1 DEF EndTyped, Settled
  <2>2. CASE fate' = [fate EXCEPT ![r] = "failed"]
    BY <2>2 DEF EndTyped, Settled
  <2> QED
    BY <1>1, <2>1, <2>2
<1> QED
  BY <1>3, <1>4 DEF EndTyped

\* A fate without a file.
LEMMA Ended ==
    ASSUME EndTyped, NEW r \in Recording, NEW what \in Settled \cup {"none"},
           fate' = [fate EXCEPT ![r] = what], UNCHANGED files
    PROVE  /\ EndTyped' /\ fate'[r] = what
           /\ \A s \in Recording : s # r => fate'[s] = fate[s]
BY DEF EndTyped

\* A recorder moves on.
LEMMA Moved ==
    ASSUME RecTyped, NEW r \in Recording, NEW from,
           NEW to \in {"none", "record", "hide", "clearStop", "clearActive",
                       "settle", "save", "queue", "flow", "gone"},
           RecorderMoves(r, from, to)
    PROVE  /\ recPc' \in [Recording -> {"none", "record", "hide", "clearStop", "clearActive",
                                        "settle", "save", "queue", "flow", "gone"}]
           /\ recPc[r] = from /\ recPc'[r] = to
           /\ \A s \in Recording : s # r => recPc'[s] = recPc[s]
<1> DEFINE pcs == {"none", "record", "hide", "clearStop", "clearActive",
                   "settle", "save", "queue", "flow", "gone"}
<1>1. recPc \in [Recording -> pcs] /\ to \in pcs
  BY DEF RecTyped
<1> HIDE DEF pcs
<1>2. recPc' \in [Recording -> pcs] /\ recPc'[r] = to
      /\ \A s \in Recording : s # r => recPc'[s] = recPc[s]
  BY <1>1 DEF RecorderMoves
<1> QED
  BY <1>2 DEF pcs, RecorderMoves

\* The threads a review is concluded on.
LEMMA ThreadsOf == Recording \subseteq Thread /\ Ui \subseteq Thread
BY DEF Thread

-----------------------------------------------------------------------------
(* Typed is kept.                                                          *)

\* What a thread has to do is about a draft that is not settled.
LEMMA TaskOf ==
    ASSUME ThreadsAct, \A r \in Recording : Kept(r), NEW t \in Thread,
           task[t].do \in {"open", "reclaim", "conclude", "push"}
    PROVE  /\ task[t].rec \in Recording
           /\ task[t].do \in {"open", "conclude"} =>
                /\ Tasked(task[t].rec, t) /\ LetGo(task[t].rec) /\ Draft(task[t].rec)
                /\ fate[task[t].rec] = "none" /\ files[task[t].rec] = 0
<1>1. task[t].rec \in Recording
  BY DEF ThreadsAct
<1>2. ASSUME task[t].do \in {"open", "conclude"}
      PROVE  Tasked(task[t].rec, t) /\ Elsewhere(task[t].rec)
  BY <1>2 DEF Tasked, Elsewhere
<1> QED
  BY <1>1, <1>2 DEF Kept, Custody, Later, Held, Progress

\* So is what a saver has.
LEMMA EditedOf ==
    ASSUME NEW r \in Recording, Kept(r), Edited(r)
    PROVE  LetGo(r) /\ Draft(r) /\ fate[r] = "none" /\ files[r] = 0
BY DEF Elsewhere, Kept, Custody, Later, Held, Progress

\* RecordingHost::start.
LEMMA StartTyped == ASSUME Typed, FreshStart, SelectionStep PROVE Typed'
<1> USE Framed DEF Confirmed
<1>0. SelTyped /\ HostTyped /\ RecTyped /\ UiTyped /\ EndTyped
  BY DEF Typed
<1>1. ASSUME NEW r \in Recording, Confirm(r) PROVE Typed'
  <2>1. SelTyped'
    BY <1>1 DEF Confirm, SelTyped
  <2> QED
    BY <1>1, <2>1 DEF Confirm, Typed
<1>2. CASE Refuse \/ NoDestination
  <2>1. SelTyped'
    BY <1>0, <1>2 DEF Refuse, NoDestination, Leave, SelTyped
  <2>2. EndTyped'
    <3>1. starting \in Recording /\ "refused" \in Settled /\ "failed" \in Settled
      BY <1>2 DEF Refuse, NoDestination, FreshStart, Settled
    <3>2. CASE Refuse
      BY <1>0, <3>1, <3>2, Ended DEF Refuse
    <3>3. CASE NoDestination
      BY <1>0, <3>1, <3>3, Ended DEF NoDestination
    <3> QED
      BY <1>2, <3>2, <3>3
  <2> QED
    BY <1>2, <2>1, <2>2 DEF Refuse, NoDestination, Typed
<1>3. CASE Claim
  <2>1. SelTyped'
    BY <1>0, <1>3 DEF Claim, SelTyped
  <2>2. HostTyped'
    BY <1>0, <1>3 DEF Claim, HostTyped, FreshStart
  <2> QED
    BY <1>3, <2>1, <2>2 DEF Claim, Typed
<1>4. CASE PublishStop
  <2>1. SelTyped'
    BY <1>0, <1>4 DEF PublishStop, SelTyped
  <2>2. HostTyped'
    BY <1>0, <1>4 DEF PublishStop, HostTyped, FreshStart
  <2> QED
    BY <1>4, <2>1, <2>2 DEF PublishStop, Typed
<1>5. CASE ShowIndicator
  <2>1. SelTyped'
    BY <1>0, <1>5 DEF ShowIndicator, SelTyped
  <2>2. HostTyped'
    BY <1>0, <1>5 DEF ShowIndicator, HostTyped, FreshStart
  <2>3. UiTyped'
    <3>1. starting \in Recording /\ UNCHANGED <<indicator, windows>>
      BY <1>5 DEF ShowIndicator, FreshStart
    <3>2. CASE host # None /\ Request(host, "show", starting) /\ UNCHANGED <<host, uiPc>>
      <4>1. host \in Ui
        BY <1>0, <3>2 DEF UiTyped
      <4>2. uiQueue' \in [Ui -> Seq(Order)]
        BY <1>0, <3>1, <3>2, <4>1, Requested
      <4> QED
        BY <1>0, <3>1, <3>2, <4>2 DEF UiTyped
    <3>3. ASSUME NEW u \in Ui, host' = u, uiPc' = [uiPc EXCEPT ![u] = "running"],
                 Request(u, "show", starting)
          PROVE  UiTyped'
      <4>1. uiQueue' \in [Ui -> Seq(Order)]
        BY <1>0, <3>1, <3>3, Requested
      <4>2. uiPc' \in [Ui -> {"none", "running", "stopping", "gone"}]
        BY <1>0, <3>3 DEF UiTyped
      <4> QED
        BY <1>0, <3>1, <3>3, <4>1, <4>2 DEF UiTyped
    <3>4. CASE UNCHANGED <<host, uiPc, uiQueue>>
      BY <1>0, <3>1, <3>4 DEF UiTyped
    <3> QED
      BY <1>5, <3>2, <3>3, <3>4 DEF ShowIndicator
  <2> QED
    BY <1>5, <2>1, <2>2, <2>3 DEF ShowIndicator, Typed
<1>6. CASE Spawn
  <2>1. SelTyped'
    BY <1>0, <1>6 DEF Spawn, SelTyped
  <2>2. RecTyped'
    BY <1>0, <1>6 DEF Spawn, RecTyped, FreshStart
  <2> QED
    BY <1>6, <2>1, <2>2 DEF Spawn, Typed
<1>7. CASE KeepJoin
  <2>1. SelTyped'
    BY <1>7 DEF KeepJoin, Leave, SelTyped
  <2>2. HostTyped'
    BY <1>0, <1>7 DEF KeepJoin, HostTyped, FreshStart
  <2> QED
    BY <1>7, <2>1, <2>2 DEF KeepJoin, Typed
<1>8. CASE SpawnFails
  <2>0. starting \in Recording /\ "failed" \in Settled
    BY <1>8 DEF SpawnFails, FreshStart, Settled
  <2>1. SelTyped'
    BY <1>8 DEF SpawnFails, Leave, SelTyped
  <2>2. HostTyped'
    BY <1>0, <1>8 DEF SpawnFails, HostTyped
  <2>3. UiTyped'
    BY <1>0, <1>8, <2>0, Hidden DEF SpawnFails
  <2>4. EndTyped'
    BY <1>0, <1>8, <2>0, Ended DEF SpawnFails
  <2> QED
    BY <1>8, <2>1, <2>2, <2>3, <2>4 DEF SpawnFails, Typed
<1>9. CASE SelectionLeaves
  <2>1. SelTyped'
    BY <1>9 DEF SelectionLeaves, Leave, SelTyped
  <2> QED
    BY <1>9, <2>1 DEF SelectionLeaves, Typed
<1> QED
  BY <1>1, <1>2, <1>3, <1>4, <1>5, <1>6, <1>7, <1>8, <1>9 DEF SelectionStep

\* The steps of RecordingHost::run.
RunStep(r) ==
    \/ RecordingFinishes(r) \/ RecordingFails(r) \/ RecordingStarves(r)
    \/ Hide(r) \/ ClearStop(r) \/ ClearActive(r) \/ Settle(r) \/ Announce(r)
    \/ SaveAtExit(r) \/ QueueBehind(r) \/ QueueFirst(r) \/ RecorderReturns(r)

\* RecordingHost::run.
LEMMA RunTyped ==
    ASSUME Typed, NEW r \in Recording, Kept(r), RunStep(r)
    PROVE  Typed'
<1> USE Framed
<1>0. /\ HostTyped /\ RecTyped /\ ReviewTyped /\ TaskTyped /\ UiTyped /\ EndTyped
      /\ Progress(r)
  BY DEF Typed, Kept
<1>1. CASE RecordingFinishes(r)
  <2>1. RecTyped'
    BY <1>0, <1>1 DEF RecordingFinishes, RecorderMoves, RecTyped
  <2>2. EndTyped'
    <3>1. files[r] = 0
      BY <1>0, <1>1 DEF RecordingFinishes, RecorderMoves, Progress
    <3>2. CASE r \in inMemory
      BY <1>1, <3>2, Framed DEF RecordingFinishes
    <3>3. CASE r \notin inMemory
      BY <1>0, <1>1, <3>1, <3>3 DEF RecordingFinishes, EndTyped, Settled
    <3> QED
      BY <3>2, <3>3
  <2> QED
    BY <1>1, <2>1, <2>2 DEF RecordingFinishes, Typed
<1>2. CASE RecordingFails(r) \/ RecordingStarves(r)
  <2>1. RecTyped'
    BY <1>0, <1>2 DEF RecordingFails, RecordingStarves, RecorderMoves, RecTyped
  <2> QED
    BY <1>2, <2>1 DEF RecordingFails, RecordingStarves, Typed
<1>3. CASE Hide(r)
  <2>1. RecTyped'
    BY <1>0, <1>3, Moved DEF Hide, RecTyped
  <2>2. UiTyped'
    BY <1>0, <1>3, Hidden DEF Hide
  <2> QED
    BY <1>3, <2>1, <2>2 DEF Hide, Typed
<1>4. CASE ClearStop(r) \/ ClearActive(r)
  <2>1. RecTyped'
    BY <1>0, <1>4, Moved DEF ClearStop, ClearActive, RecTyped
  <2>2. HostTyped'
    BY <1>0, <1>4 DEF ClearStop, ClearActive, HostTyped
  <2> QED
    BY <1>4, <2>1, <2>2 DEF ClearStop, ClearActive, Typed
<1>5. CASE Settle(r)
  <2>1. RecTyped'
    BY <1>0, <1>5, Moved DEF Settle, RecTyped
  <2> QED
    BY <1>5, <2>1 DEF Settle, Typed
<1>6. CASE Announce(r)
  <2>1. RecTyped'
    BY <1>0, <1>6, Moved DEF Announce, RecTyped
  <2>2. EndTyped'
    <3>1. PICK what \in Settled : fate' = [fate EXCEPT ![r] = what]
      BY <1>6 DEF Announce, Settled
    <3> QED
      BY <1>0, <1>6, <3>1, Ended DEF Announce
  <2> QED
    BY <1>6, <2>1, <2>2 DEF Announce, Typed
<1>7. CASE SaveAtExit(r)
  <2>1. RecTyped'
    BY <1>0, <1>7, Moved DEF SaveAtExit, RecTyped
  <2>2. fate[r] = "none" /\ files[r] = 0
    BY <1>7 DEF SaveAtExit, RecorderMoves, Kept, Progress, Custody, Held, Keeping
  <2>3. EndTyped'
    BY <1>0, <1>7, <2>2, Written DEF SaveAtExit
  <2> QED
    BY <1>7, <2>1, <2>3 DEF SaveAtExit, Typed
<1>8. CASE QueueBehind(r)
  <2>1. RecTyped'
    BY <1>0, <1>8, Moved DEF QueueBehind, RecTyped
  <2>2. ReviewTyped'
    BY <1>0, <1>8, AppendHas DEF QueueBehind, ReviewTyped
  <2> QED
    BY <1>8, <2>1, <2>2 DEF QueueBehind, Typed
<1>9. CASE QueueFirst(r)
  <2>1. RecTyped'
    BY <1>0, <1>9, Moved DEF QueueFirst, RecTyped
  <2>2. TaskTyped'
    <3>1. Do("open", r, "none") \in Job /\ r \in Thread
      BY DEF Do, Job, Thread
    <3> QED
      BY <1>0, <1>9, <3>1, Became DEF QueueFirst, Becomes
  <2>3. ReviewTyped'
    BY <1>0, <1>9 DEF QueueFirst, ReviewTyped
  <2> QED
    BY <1>9, <2>1, <2>2, <2>3 DEF QueueFirst, Typed
<1>10. CASE RecorderReturns(r)
  <2>1. RecTyped'
    BY <1>0, <1>10, Moved DEF RecorderReturns, RecTyped
  <2> QED
    BY <1>10, <2>1 DEF RecorderReturns, Typed
<1> QED
  BY <1>1, <1>2, <1>3, <1>4, <1>5, <1>6, <1>7, <1>8, <1>9, <1>10 DEF RunStep

\* The jobs a thread passes on to itself.
LEMMA Jobs ==
    ASSUME TaskTyped, NEW t \in Thread
    PROVE  /\ Idle \in Job /\ GoOn(t) \in Job
           /\ \A r \in Recording : /\ Do("open", r, "none") \in Job
                                   /\ Do("reclaim", r, "none") \in Job
                                   /\ Do("push", r, "edit") \in Job
           /\ \A r \in Recording, a \in Answer : Do("conclude", r, a) \in Job
<1>1. task[t] \in Job
  BY DEF TaskTyped
<1>2. GoOn(t) \in Job
  BY <1>1 DEF GoOn, Do, Job
<1>3. Idle \in Job
  BY DEF Idle, Job
<1>4. ASSUME NEW r \in Recording, NEW a \in Answer PROVE Do("conclude", r, a) \in Job
  BY DEF Do, Job
<1>5. ASSUME NEW r \in Recording
      PROVE  /\ Do("open", r, "none") \in Job /\ Do("reclaim", r, "none") \in Job
             /\ Do("push", r, "edit") \in Job
  BY DEF Do, Job, Answer
<1> QED
  BY <1>2, <1>3, <1>4, <1>5

\* open_review and conclude_review.
LEMMA FlowTyped ==
    ASSUME Typed, ThreadsAct, \A r \in Recording : Kept(r), NEW t \in Thread, FlowStep(t)
    PROVE  Typed'
<1> USE Framed
<1>0. /\ ReviewTyped /\ SaverTyped /\ TaskTyped /\ UiTyped /\ SharedTyped /\ EndTyped
      /\ "closed" \in Answer
  BY DEF Typed, Answer
<1>1. CASE RequestReview(t)
  <2>1. task[t].rec \in Recording /\ host \in Ui /\ "review" \in {"show", "hide", "review"}
    BY <1>0, <1>1, TaskOf DEF RequestReview, UiTyped
  <2>2. TaskTyped'
    BY <1>0, <1>1, <2>1, Jobs, Became DEF RequestReview
  <2>3. UiTyped'
    BY <1>0, <1>1, <2>1, Requested DEF RequestReview, UiTyped
  <2>4. SharedTyped'
    BY <1>0, <1>1, <2>1 DEF RequestReview, SharedTyped
  <2> QED
    BY <1>1, <2>2, <2>3, <2>4 DEF RequestReview, Typed
<1>2. CASE Reclaim(t)
  <2>1. task[t].rec \in Recording
    BY <1>2, TaskOf DEF Reclaim
  <2>2. TaskTyped'
    BY <1>0, <1>2, <2>1, Jobs, Became DEF Reclaim
  <2>3. SharedTyped'
    BY <1>0, <1>2 DEF Reclaim, SharedTyped
  <2> QED
    BY <1>2, <2>2, <2>3 DEF Reclaim, Typed
<1>3. CASE NoHostForReview(t)
  <2>1. task[t].rec \in Recording
    BY <1>3, TaskOf DEF NoHostForReview
  <2>2. TaskTyped'
    BY <1>0, <1>3, <2>1, Jobs, Became DEF NoHostForReview
  <2> QED
    BY <1>3, <2>2 DEF NoHostForReview, Typed
<1>4. CASE ConcludeUnchanged(t) \/ ConcludeDiscard(t) \/ NoSaver(t)
  <2>1. task[t].rec \in Recording /\ files[task[t].rec] = 0
    BY <1>4, TaskOf DEF ConcludeUnchanged, ConcludeDiscard, NoSaver
  <2>2. TaskTyped'
    BY <1>0, <1>4, Jobs, Became DEF ConcludeUnchanged, ConcludeDiscard, NoSaver
  <2>3. EndTyped'
    <3>1. CASE ConcludeDiscard(t)
      <4>1. "discarded" \in Settled
        BY DEF Settled
      <4> QED
        BY <1>0, <2>1, <3>1, <4>1, Ended DEF ConcludeDiscard
    <3>2. CASE Writes(task[t].rec, "saved")
      BY <1>0, <2>1, <3>2, Written
    <3> QED
      BY <1>4, <3>1, <3>2 DEF ConcludeUnchanged, NoSaver
  <2> QED
    BY <1>4, <2>2, <2>3 DEF ConcludeUnchanged, ConcludeDiscard, NoSaver, Typed
<1>5. CASE SpawnSaver(t)
  <2>1. task[t].rec \in Recording
    BY <1>5, TaskOf DEF SpawnSaver
  <2>2. TaskTyped'
    BY <1>0, <1>5, <2>1, Jobs, Became DEF SpawnSaver
  <2>3. SaverTyped'
    BY <1>0, <1>5, <2>1 DEF SpawnSaver, SaverTyped
  <2> QED
    BY <1>5, <2>2, <2>3 DEF SpawnSaver, Typed
<1>6. CASE PushSaver(t)
  <2>1. task[t].rec \in Recording
    BY <1>6, TaskOf DEF PushSaver
  <2>2. TaskTyped'
    BY <1>0, <1>6, Jobs, Became DEF PushSaver
  <2>3. SaverTyped'
    BY <1>0, <1>6, <2>1 DEF PushSaver, SaverTyped
  <2> QED
    BY <1>6, <2>2, <2>3 DEF PushSaver, Typed
<1>7. CASE NextReview(t)
  <2>1. waiting # <<>> => Head(waiting) \in Recording /\ Tail(waiting) \in Seq(Recording)
    BY <1>0, TailHas DEF ReviewTyped
  <2>2. TaskTyped'
    BY <1>0, <1>7, <2>1, Jobs, Became DEF NextReview
  <2>3. ReviewTyped'
    BY <1>0, <1>7, <2>1 DEF NextReview, ReviewTyped
  <2> QED
    BY <1>7, <2>2, <2>3 DEF NextReview, Typed
<1> QED
  BY <1>1, <1>2, <1>3, <1>4, <1>5, <1>6, <1>7 DEF FlowStep

\* save_edited.
LEMMA SavingTyped ==
    ASSUME Typed, NEW r \in Recording, Kept(r), SaverStep(r)
    PROVE  Typed'
<1> USE Framed
<1>0. SaverTyped /\ EndTyped
  BY DEF Typed
<1>1. CASE SaverEncodes(r)
  <2>1. SaverTyped'
    BY <1>0, <1>1 DEF SaverEncodes, SaverTyped
  <2> QED
    BY <1>1, <2>1 DEF SaverEncodes, Typed
<1>2. CASE SaverTakes(r)
  <2>1. SaverTyped'
    BY <1>0, <1>2 DEF SaverTakes, SaverTyped
  <2> QED
    BY <1>2, <2>1 DEF SaverTakes, Typed
<1>3. CASE SaverWrites(r)
  <2>1. SaverTyped'
    BY <1>0, <1>3 DEF SaverWrites, SaverTyped
  <2>2. files[r] = 0
    BY <1>3, EditedOf DEF SaverWrites, Edited
  <2>3. EndTyped'
    BY <1>0, <1>3, <2>2, Written DEF SaverWrites
  <2> QED
    BY <1>3, <2>1, <2>3 DEF SaverWrites, Typed
<1> QED
  BY <1>1, <1>2, <1>3 DEF SaverStep

\* What a UI thread takes from its queue.
LEMMA Applied ==
    ASSUME UiTyped, NEW u \in Ui, ApplyCommand(u)
    PROVE  /\ Head(uiQueue[u]) \in Order /\ uiQueue' \in [Ui -> Seq(Order)]
           /\ \A v \in Ui : v # u => uiQueue'[v] = uiQueue[v]
           /\ \A r \in Recording :
                Has(uiQueue[u], Command("review", r)) <=>
                   \/ Head(uiQueue[u]) = Command("review", r)
                   \/ Has(uiQueue'[u], Command("review", r))
<1>1. uiQueue[u] # <<>> /\ uiQueue[u] \in Seq(Order) /\ uiQueue' = [uiQueue EXCEPT ![u] = Tail(@)]
  BY DEF UiTyped, ApplyCommand
<1>2. /\ Tail(uiQueue[u]) \in Seq(Order) /\ Head(uiQueue[u]) \in Order
      /\ \A x : Has(uiQueue[u], x) <=> x = Head(uiQueue[u]) \/ Has(Tail(uiQueue[u]), x)
  BY <1>1, TailHas
<1>3. /\ uiQueue' \in [Ui -> Seq(Order)] /\ uiQueue'[u] = Tail(uiQueue[u])
      /\ \A v \in Ui : v # u => uiQueue'[v] = uiQueue[v]
  BY <1>1, <1>2 DEF UiTyped
<1> QED
  BY <1>2, <1>3

\* The desktop UI thread and the person at it.
LEMMA WindowsTyped ==
    ASSUME Typed, NEW u \in Ui,
           ApplyCommand(u) \/ CloseReview(u) \/ UiLeaves(u) \/ UserStep(u)
    PROVE  Typed'
<1> USE Framed
<1>0. TaskTyped /\ UiTyped /\ SharedTyped /\ HostTyped /\ u \in Thread
  BY DEF Typed, Thread
<1>1. CASE ApplyCommand(u)
  <2> DEFINE r == Head(uiQueue[u]).rec
  <2>1. r \in Recording /\ uiQueue' \in [Ui -> Seq(Order)]
    <3>1. Head(uiQueue[u]) \in Order
      BY <1>0, <1>1, Applied
    <3> QED
      BY <1>0, <1>1, <3>1, Applied DEF Order
  <2>2. TaskTyped'
    <3>1. Do("conclude", r, "failed") \in Job
      BY <1>0, <2>1, Jobs DEF Answer
    <3>2. Becomes(u, Do("conclude", r, "failed")) => TaskTyped'
      BY <1>0, <3>1, Became
    <3>3. UNCHANGED task \/ Becomes(u, Do("conclude", r, "failed"))
      BY <1>1 DEF ApplyCommand
    <3> QED
      BY <3>2, <3>3, Framed
  <2>3. indicator' \in [Ui -> Recording \cup {None}]
    <3>1. UNCHANGED indicator \/ \E shown \in Recording \cup {None} :
                                    indicator' = [indicator EXCEPT ![u] = shown]
      BY <1>1, <2>1 DEF ApplyCommand
    <3> QED
      BY <1>0, <3>1 DEF UiTyped
  <2>4. windows' \in [Ui -> SUBSET Recording]
    <3>1. UNCHANGED windows \/ windows' = [windows EXCEPT ![u] = @ \cup {r}]
      BY <1>1 DEF ApplyCommand
    <3>2. windows \in [Ui -> SUBSET Recording] /\ windows[u] \cup {r} \in SUBSET Recording
      BY <1>0, <2>1 DEF UiTyped
    <3> HIDE DEF r
    <3> QED
      BY <3>1, <3>2
  <2>5. SharedTyped'
    <3>1. UNCHANGED shared \/ shared' = shared \ {r}
      BY <1>1 DEF ApplyCommand
    <3> QED
      BY <1>0, <3>1 DEF SharedTyped
  <2>6. UNCHANGED <<selVars, hostVars, recVars, reviewVars, saverVars, host, uiPc,
                    endVars, exitVars>>
    BY <1>1 DEF ApplyCommand
  <2>7. UiTyped'
    BY <1>0, <2>1, <2>3, <2>4, <2>6 DEF UiTyped
  <2> QED
    BY <2>2, <2>5, <2>6, <2>7 DEF Typed
<1>2. ASSUME NEW r \in windows[u], NEW a \in Answer, Answers(u, r, a)
      PROVE  TaskTyped' /\ windows' \in [Ui -> SUBSET Recording] /\ SharedTyped'
  <2>1. r \in Recording /\ Do("conclude", r, a) \in Job
    BY <1>0, Jobs DEF UiTyped
  <2>2. TaskTyped'
    BY <1>0, <1>2, <2>1, Became, Framed DEF Answers
  <2>3. windows' \in [Ui -> SUBSET Recording]
    BY <1>0, <1>2 DEF Answers, UiTyped
  <2>4. SharedTyped'
    BY <1>0, <1>2 DEF Answers, SharedTyped
  <2> QED
    BY <2>2, <2>3, <2>4
<1>3. CASE CloseReview(u) \/ UserAnswers(u)
  <2>1. PICK r \in windows[u], a \in Answer : Answers(u, r, a)
    BY <1>3 DEF CloseReview, UserAnswers, Answer
  <2>2. TaskTyped' /\ windows' \in [Ui -> SUBSET Recording] /\ SharedTyped'
    BY <1>2, <2>1
  <2>3. UNCHANGED <<selVars, hostVars, recVars, reviewVars, saverVars,
                    host, uiPc, uiQueue, indicator, endVars, exitVars>>
    BY <1>3 DEF CloseReview, UserAnswers
  <2>4. UiTyped'
    BY <1>0, <2>2, <2>3 DEF UiTyped
  <2> QED
    BY <2>2, <2>3, <2>4 DEF Typed
<1>4. CASE UiLeaves(u)
  <2>1. UiTyped'
    BY <1>0, <1>4 DEF UiLeaves, UiTyped
  <2> QED
    BY <1>4, <2>1 DEF UiLeaves, Typed
<1>5. CASE UserStops(u)
  <2>1. HostTyped'
    BY <1>0, <1>5 DEF UserStops, HostTyped, UiTyped
  <2> QED
    BY <1>5, <2>1 DEF UserStops, Typed
<1> QED
  BY <1>1, <1>3, <1>4, <1>5 DEF UserStep

\* SelectionWorker::stop_inner.
LEMMA StoppingTyped ==
    ASSUME Typed, \A r \in Recording : Kept(r), ExitBegins \/ ExitStep
    PROVE  Typed'
<1> USE Framed
<1>0. HostTyped /\ SaverTyped /\ UiTyped /\ EndTyped /\ ExitTyped
  BY DEF Typed
<1>1. CASE ExitBegins \/ JoinCapture \/ SaversJoined \/ JoinSelection \/ ProcessEnds
  <2>1. UNCHANGED <<selVars, hostVars, recVars, reviewVars, saverVars, task, uiVars, shared,
                    endVars, pass, hosting, taken>>
    BY <1>1 DEF ExitBegins, JoinCapture, SaversJoined, JoinSelection, ProcessEnds
  <2>2. exitPc' \in {"draining", "setExiting", "joinSelection", "takeHost", "ended"}
    BY <1>1 DEF ExitBegins, JoinCapture, SaversJoined, JoinSelection, ProcessEnds, ExitMoves
  <2>3. ExitTyped'
    BY <1>0, <2>1, <2>2 DEF ExitTyped
  <2> QED
    BY <2>1, <2>3 DEF Typed
<1>2. CASE SetExiting \/ RaiseStop
  <2>1. HostTyped'
    BY <1>0, <1>2 DEF SetExiting, RaiseStop, HostTyped
  <2>2. ExitTyped'
    BY <1>0, <1>2 DEF SetExiting, RaiseStop, ExitMoves, ExitTyped
  <2> QED
    BY <1>2, <2>1, <2>2 DEF SetExiting, RaiseStop, Typed
<1>3. CASE JoinRecording
  <2>1. HostTyped'
    BY <1>0, <1>3 DEF JoinRecording, HostTyped
  <2>2. ExitTyped'
    BY <1>0, <1>3 DEF JoinRecording, ExitMoves, ExitTyped
  <2> QED
    BY <1>3, <2>1, <2>2 DEF JoinRecording, Typed
<1>4. CASE TakeSavers
  <2>1. SaverTyped'
    BY <1>0, <1>4 DEF TakeSavers, SaverTyped
  <2>2. ExitTyped'
    BY <1>0, <1>4 DEF TakeSavers, ExitMoves, ExitTyped, SaverTyped
  <2> QED
    BY <1>4, <2>1, <2>2 DEF TakeSavers, Typed
<1>5. ASSUME NEW r \in Recording, JoinSaver(r) PROVE Typed'
  <2>1. ExitTyped'
    BY <1>0, <1>5 DEF JoinSaver, ExitTyped
  <2> QED
    BY <1>5, <2>1 DEF JoinSaver, Typed
<1>6. ASSUME NEW r \in Recording, OvertakeSaver(r) PROVE Typed'
  <2>1. SaverTyped'
    BY <1>0, <1>6 DEF OvertakeSaver, SaverTyped
  <2>2. ExitTyped'
    BY <1>0, <1>6 DEF OvertakeSaver, ExitTyped
  <2>3. EndTyped'
    <3>1. CASE r \in unsaved
      <4>1. files[r] = 0
        BY <3>1, EditedOf DEF Edited
      <4> QED
        BY <1>0, <1>6, <3>1, <4>1, Written DEF OvertakeSaver
    <3>2. CASE r \notin unsaved
      BY <1>6, <3>2, Framed DEF OvertakeSaver
    <3> QED
      BY <3>1, <3>2
  <2> QED
    BY <1>6, <2>1, <2>2, <2>3 DEF OvertakeSaver, Typed
<1>7. CASE TakeHost
  <2>1. UiTyped'
    BY <1>0, <1>7 DEF TakeHost, UiTyped
  <2>2. ExitTyped'
    BY <1>0, <1>7 DEF TakeHost, ExitMoves, ExitTyped, UiTyped
  <2> QED
    BY <1>7, <2>1, <2>2 DEF TakeHost, Typed
<1>8. CASE EndPass
  <2>1. ExitTyped'
    BY <1>0, <1>8 DEF EndPass, ExitTyped
  <2> QED
    BY <1>8, <2>1 DEF EndPass, Typed
<1> QED
  BY <1>1, <1>2, <1>3, <1>4, <1>5, <1>6, <1>7, <1>8 DEF ExitStep

\* Nothing changes.
LEMMA StutterTyped == ASSUME Typed, UNCHANGED vars PROVE Typed'
BY Framed DEF vars, Typed

\* Every step keeps every variable in its range.
LEMMA TypedIsKept == ASSUME IInv, [Next]_vars PROVE Typed'
<1>0. /\ Typed /\ FreshStart /\ ThreadsAct /\ \A r \in Recording : Kept(r)
      /\ Recording \subseteq Thread /\ Ui \subseteq Thread
  BY DEF IInv, Thread
<1>1. CASE SelectionStep
  BY <1>0, <1>1, StartTyped
<1>2. ASSUME NEW r \in Recording, RecorderStep(r) PROVE Typed'
  BY <1>0, <1>2, RunTyped, FlowTyped DEF RecorderStep, RunStep
<1>3. ASSUME NEW r \in Recording, SaverStep(r) PROVE Typed'
  BY <1>0, <1>3, SavingTyped
<1>4. ASSUME NEW u \in Ui, UiStep(u) \/ UserStep(u) PROVE Typed'
  BY <1>0, <1>4, WindowsTyped, FlowTyped DEF UiStep
<1>5. CASE ExitBegins \/ ExitStep
  BY <1>0, <1>5, StoppingTyped
<1>6. CASE UNCHANGED vars
  BY <1>0, <1>6, StutterTyped
<1> QED
  BY <1>1, <1>2, <1>3, <1>4, <1>5, <1>6 DEF Next, RunNext

-----------------------------------------------------------------------------
(* What a step may do to the custody of one recording.                     *)

\* Whoever has it still has it, and nobody new is asked.
Still(r) ==
    /\ \A t \in Thread : (Tasked(r, t)' <=> Tasked(r, t)) /\ (Opened(r, t)' => Opened(r, t))
    /\ Waits(r)' <=> Waits(r)
    /\ r \in shared' <=> r \in shared
    /\ Edited(r)' <=> Edited(r)
    /\ \A u \in Ui : RequestedAt(u, r)' => RequestedAt(u, r)
    /\ \A u \in Ui : r \in shared /\ RequestedAt(u, r) /\ UiAlive(u)
                       => RequestedAt(u, r)' /\ UiAlive(u)'

\* Its recorder is where it was, and so is its end.
Same(r) ==
    /\ recPc'[r] = recPc[r] /\ result'[r] = result[r] /\ (r \in inMemory' <=> r \in inMemory)
    /\ fate'[r] = fate[r] /\ files'[r] = files[r]

placeVars == <<task, waiting, shared, unsaved, saverPc, uiQueue, windows, uiPc>>

\* A step that moves no draft.
LEMMA NothingMoves == UNCHANGED placeVars => \A r : Still(r)
BY DEF placeVars, Still, Tasked, Opened, Waits, Edited, RequestedAt, UiAlive

\* A step that ends no recording.
LEMMA NothingEnds == UNCHANGED <<hostVars, recVars, endVars>> => \A r : Same(r)
BY DEF hostVars, recVars, endVars, Same

\* A recording a step leaves alone, or whose recorder returns.
LEMMA StillKeeps ==
    ASSUME NEW r \in Recording, Kept(r), Still(r), Progress(r)',
           (Draft(r)' <=> Draft(r)), (Keeping(r)' <=> Keeping(r)), (LetGo(r)' <=> LetGo(r)),
           fate'[r] = fate[r]
    PROVE  Kept(r)'
<1>1. Apart(r)'
  BY DEF Kept, Custody, Apart, Still
<1>2. AskedOnce(r)'
  BY DEF Kept, Custody, AskedOnce, Still
<1>3. Elsewhere(r)' <=> Elsewhere(r)
  BY DEF Elsewhere, Still
<1>4. Later(r)'
  BY <1>3 DEF Kept, Custody, Later, Still
<1>5. Held(r)'
  BY <1>3 DEF Kept, Custody, Held
<1> QED
  BY <1>1, <1>2, <1>4, <1>5 DEF Kept, Custody

\* A recording a step leaves alone altogether.
LEMMA SameKeeps ==
    ASSUME NEW r \in Recording, Kept(r), Still(r), Same(r)
    PROVE  Kept(r)'
<1>1. /\ Draft(r)' <=> Draft(r)
      /\ Keeping(r)' <=> Keeping(r)
      /\ LetGo(r)' <=> LetGo(r)
  BY DEF Same, Draft, Keeping, LetGo
<1>2. Progress(r)'
  BY <1>1 DEF Kept, Progress, Same
<1> QED
  BY <1>1, <1>2, StillKeeps DEF Same

\* A recording its recorder has not let go of is in nobody else's hands.
LEMMA OnlyItsRecorder ==
    ASSUME NEW r \in Recording, Kept(r), ~LetGo(r)
    PROVE  /\ \A t \in Thread : ~Tasked(r, t) /\ ~Opened(r, t)
           /\ ~Waits(r) /\ r \notin shared /\ ~Edited(r)
           /\ \A u \in Ui : ~RequestedAt(u, r)
BY DEF Kept, Custody, Later, Elsewhere, Tasked, Opened

\* A recording in the hands of its recorder.
LEMMA OwnKeeps ==
    ASSUME NEW r \in Recording, Kept(r), ~LetGo(r), Still(r), Progress(r)',
           Draft(r)' => (fate'[r] = "none" <=> Keeping(r)')
    PROVE  Kept(r)'
<1>1. /\ \A t \in Thread : ~Tasked(r, t)' /\ ~Opened(r, t)'
      /\ ~Waits(r)' /\ r \notin shared' /\ ~Edited(r)'
      /\ \A u \in Ui : ~RequestedAt(u, r)'
  BY OnlyItsRecorder DEF Still
<1> QED
  BY <1>1 DEF Kept, Custody, Apart, AskedOnce, Elsewhere, Later, Held

\* A draft that is settled by the one who had it.
LEMMA SettledKeeps ==
    ASSUME NEW r \in Recording, Kept(r), LetGo(r), Draft(r),
           UNCHANGED <<recPc, result, inMemory>>, ~Elsewhere(r)', fate'[r] # "none",
           \A u \in Ui : RequestedAt(u, r)' => RequestedAt(u, r)
    PROVE  Kept(r)'
<1>1. /\ LetGo(r)' /\ ~Keeping(r)' /\ Draft(r)'
      /\ recPc'[r] \in {"flow", "gone"}
  BY DEF LetGo, Keeping, Draft
<1>2. Progress(r)'
  BY <1>1 DEF Progress
<1>3. \A t \in Thread : ~Tasked(r, t)' /\ ~Opened(r, t)'
  BY DEF Elsewhere, Tasked, Opened
<1>4. ~Waits(r)' /\ r \notin shared' /\ ~Edited(r)'
  BY DEF Elsewhere
<1>5. Apart(r)'
  BY <1>3, <1>4 DEF Apart
<1>6. AskedOnce(r)'
  BY <1>3, <1>4 DEF AskedOnce, Kept, Custody
<1> QED
  BY <1>1, <1>2, <1>5, <1>6 DEF Kept, Custody, Later, Held

\* A review that is answered, by a person, by its window or by exit, is the
\* task of the thread it is answered on.
LEMMA AnsweredKeeps ==
    ASSUME NEW r \in Recording, Kept(r), r \in shared, Same(r), NEW t \in Thread,
           task'[t] = Do("conclude", r, task'[t].with),
           \A v \in Thread : v # t => task'[v] = task[v],
           (Waits(r)' <=> Waits(r)), (Edited(r)' <=> Edited(r)), r \notin shared',
           \A u \in Ui : RequestedAt(u, r)' => RequestedAt(u, r)
    PROVE  Kept(r)'
<1>1. Elsewhere(r) /\ LetGo(r) /\ Draft(r) /\ fate[r] = "none"
  BY DEF Elsewhere, Kept, Custody, Later, Held
<1>2. /\ \A v \in Thread : ~Tasked(r, v) /\ ~Opened(r, v)
      /\ ~Waits(r) /\ ~Edited(r)
  BY DEF Kept, Custody, Apart, Tasked, Opened
<1>3. Tasked(r, t)' /\ ~Opened(r, t)'
  BY DEF Tasked, Opened, Do
<1>4. \A v \in Thread : v # t => ~Tasked(r, v)' /\ ~Opened(r, v)'
  BY <1>2 DEF Tasked, Opened
<1>5. LetGo(r)' /\ Draft(r)' /\ fate'[r] = "none"
  BY <1>1 DEF Same, LetGo, Draft
<1>6. Progress(r)'
  BY <1>1, <1>5 DEF Same, Kept, Progress, LetGo, Keeping, Draft
<1>7. Apart(r)'
  BY <1>2, <1>3, <1>4 DEF Apart
<1>8. AskedOnce(r)'
  BY <1>2, <1>3, <1>4 DEF AskedOnce, Kept, Custody
<1>9. Elsewhere(r)'
  BY <1>3 DEF Elsewhere
<1> QED
  BY <1>5, <1>6, <1>7, <1>8, <1>9 DEF Kept, Custody, Later, Held

-----------------------------------------------------------------------------
(* Kept is kept.                                                           *)

\* RecordingHost::start.
LEMMA StartKeeps ==
    ASSUME Typed, FreshStart, \A r \in Recording : Kept(r), SelectionStep
    PROVE  \A r \in Recording : Kept(r)'
<1> USE DEF Confirmed
<1>0. UiTyped /\ RecTyped /\ EndTyped
  BY DEF Typed
<1>1. CASE (\E r \in Recording : Confirm(r)) \/ KeepJoin \/ SelectionLeaves \/ PublishStop
  <2>1. /\ UNCHANGED placeVars
        /\ UNCHANGED <<inMemory, recVars, endVars>>
    BY <1>1 DEF Confirm, KeepJoin, SelectionLeaves, PublishStop, placeVars, reviewVars,
       saverVars, uiVars, hostVars
  <2>2. \A r : Same(r)
    BY <2>1 DEF Same, recVars, endVars
  <2> QED
    BY <2>1, <2>2, NothingMoves, SameKeeps
<1>2. ASSUME NEW s \in Recording, recPc[s] = "none",
             \A r \in Recording : Still(r),
             \A r \in Recording : r # s => Same(r),
             recPc'[s] \in {"none", "record"},
             recPc'[s] = "record" => fate'[s] = "none",
             result'[s] = result[s],
             fate'[s] = "none" => fate[s] = "none" /\ UNCHANGED files
      PROVE  \A r \in Recording : Kept(r)'
  <2>1. Kept(s)'
    <3>1. Progress(s) /\ result'[s] = "none" /\ ~LetGo(s)
      BY <1>2 DEF Kept, Progress, LetGo
    <3>2. ~Draft(s)' /\ ~LetGo(s)' /\ ~Keeping(s)'
      BY <1>2, <3>1 DEF Draft, LetGo, Keeping
    <3>3. Progress(s)'
      BY <1>2, <3>1, <3>2 DEF Progress
    <3> QED
      BY <1>2, <3>1, <3>2, <3>3, OwnKeeps
  <2> QED
    BY <1>2, <2>1, SameKeeps
<1>3. CASE Refuse \/ NoDestination
  <2>1. /\ UNCHANGED placeVars /\ UNCHANGED <<recPc, result, inMemory, files>>
        /\ starting \in Recording /\ recPc[starting] = "none"
    BY <1>3 DEF Refuse, NoDestination, FreshStart, placeVars, reviewVars, saverVars, uiVars,
       hostVars, recVars
  <2>2. /\ fate'[starting] \in {"refused", "failed"}
        /\ \A r \in Recording : r # starting => fate'[r] = fate[r]
    BY <1>0, <1>3, <2>1 DEF Refuse, NoDestination, EndTyped
  <2>3. \A r \in Recording : r # starting => Same(r)
    BY <2>1, <2>2 DEF Same
  <2> QED
    BY <1>2, <2>1, <2>2, <2>3, NothingMoves
<1>4. CASE Claim
  <2>1. /\ UNCHANGED placeVars /\ UNCHANGED <<recPc, result, fate, files>>
        /\ starting \in Recording /\ recPc[starting] = "none"
    BY <1>4 DEF Claim, FreshStart, placeVars, reviewVars, saverVars, uiVars, recVars, endVars
  <2>2. \A r \in Recording : r # starting => Same(r)
    BY <1>4, <2>1 DEF Claim, Same
  <2> QED
    BY <1>2, <2>1, <2>2, NothingMoves
<1>5. CASE ShowIndicator
  <2>1. /\ UNCHANGED <<task, waiting, shared, unsaved, saverPc, windows>>
        /\ UNCHANGED <<recPc, result, inMemory, fate, files>>
        /\ starting \in Recording
    BY <1>5 DEF ShowIndicator, FreshStart, reviewVars, saverVars, recVars, endVars
  <2>2. \A u \in Ui : UiAlive(u) => UiAlive(u)'
    BY <1>0, <1>5 DEF ShowIndicator, UiAlive, UiTyped
  <2>3. \A r \in Recording, u \in Ui : RequestedAt(u, r)' <=> RequestedAt(u, r)
    <3>1. ASSUME NEW v \in Ui, Request(v, "show", starting)
          PROVE  \A r \in Recording, u \in Ui : RequestedAt(u, r)' <=> RequestedAt(u, r)
      <4>1. \A r \in Recording, u \in Ui :
              RequestedAt(u, r)' <=>
                RequestedAt(u, r) \/ (u = v /\ "show" = "review" /\ r = starting)
        BY <1>0, <2>1, <3>1, Requested
      <4> QED
        BY <4>1
    <3>2. CASE host # None /\ Request(host, "show", starting)
      BY <1>0, <3>1, <3>2 DEF UiTyped
    <3>3. CASE UNCHANGED uiQueue
      BY <2>1, <3>3 DEF RequestedAt
    <3> QED
      BY <1>5, <3>1, <3>2, <3>3 DEF ShowIndicator
  <2>4. \A r \in Recording : Still(r)
    BY <2>1, <2>2, <2>3 DEF Still, Tasked, Opened, Waits, Edited
  <2>5. \A r \in Recording : Same(r)
    BY <2>1 DEF Same
  <2> QED
    BY <2>4, <2>5, SameKeeps
<1>6. CASE Spawn
  <2>1. /\ UNCHANGED placeVars /\ UNCHANGED <<result, inMemory, fate, files>>
        /\ starting \in Recording /\ recPc[starting] = "none" /\ fate[starting] = "none"
    BY <1>6 DEF Spawn, FreshStart, placeVars, reviewVars, saverVars, uiVars, hostVars, endVars
  <2>2. /\ recPc'[starting] = "record"
        /\ \A r \in Recording : r # starting => recPc'[r] = recPc[r]
    BY <1>0, <1>6, <2>1 DEF Spawn, RecTyped
  <2>3. \A r \in Recording : r # starting => Same(r)
    BY <2>1, <2>2 DEF Same
  <2> QED
    BY <1>2, <2>1, <2>2, <2>3, NothingMoves
<1>7. CASE SpawnFails
  <2>1. /\ UNCHANGED <<task, waiting, shared, unsaved, saverPc>>
        /\ UNCHANGED <<recPc, result, inMemory, files>>
        /\ starting \in Recording /\ recPc[starting] = "none"
    BY <1>7 DEF SpawnFails, FreshStart, reviewVars, saverVars, recVars
  <2>2. /\ fate'[starting] = "failed"
        /\ \A r \in Recording : r # starting => fate'[r] = fate[r]
    BY <1>0, <1>7, <2>1 DEF SpawnFails, EndTyped
  <2>3. /\ UNCHANGED <<uiPc, windows>>
        /\ \A r \in Recording, v \in Ui : RequestedAt(v, r)' <=> RequestedAt(v, r)
    BY <1>0, <1>7, <2>1, Hidden DEF SpawnFails
  <2>4. \A r \in Recording : Still(r)
    BY <2>1, <2>3 DEF Still, Tasked, Opened, Waits, Edited, UiAlive
  <2>5. \A r \in Recording : r # starting => Same(r)
    BY <2>1, <2>2 DEF Same
  <2> QED
    BY <1>2, <2>1, <2>2, <2>4, <2>5
<1> QED
  BY <1>1, <1>3, <1>4, <1>5, <1>6, <1>7 DEF SelectionStep

\* RecordingHost::run.
LEMMA RunKeeps ==
    ASSUME Typed, ThreadsAct, Once(waiting), \A r \in Recording : Kept(r),
           NEW r \in Recording, RunStep(r)
    PROVE  (\A s \in Recording : Kept(s)') /\ Once(waiting)'
<1>0. /\ UiTyped /\ RecTyped /\ EndTyped /\ ReviewTyped /\ TaskTyped /\ Kept(r) /\ Progress(r)
  BY DEF Typed, Kept
<1>1. ASSUME NEW from \in {"record", "hide", "clearStop", "clearActive", "settle", "save"},
             NEW to \in {"none", "record", "hide", "clearStop", "clearActive",
                         "settle", "save", "queue", "flow", "gone"},
             RecorderMoves(r, from, to),
             \A s \in Recording : Still(s),
             \A s \in Recording : s # r => Same(s),
             Progress(r)', Draft(r)' => (fate'[r] = "none" <=> Keeping(r)'),
             UNCHANGED waiting
      PROVE  (\A s \in Recording : Kept(s)') /\ Once(waiting)'
  <2>1. ~LetGo(r)
    BY <1>1 DEF RecorderMoves, LetGo
  <2>2. Kept(r)'
    BY <1>1, <2>1, OwnKeeps
  <2>3. \A s \in Recording : s # r => Kept(s)'
    BY <1>1, SameKeeps
  <2> QED
    BY <1>1, <2>2, <2>3 DEF Once
<1>2. CASE RecordingFinishes(r) \/ RecordingFails(r) \/ RecordingStarves(r)
  <2>1. UNCHANGED placeVars /\ UNCHANGED inMemory /\ RecorderMoves(r, "record", "hide")
    BY <1>2 DEF RecordingFinishes, RecordingFails, RecordingStarves, placeVars, reviewVars,
       saverVars, uiVars, hostVars
  <2>2. /\ recPc[r] = "record" /\ recPc'[r] = "hide"
        /\ \A s \in Recording : s # r => recPc'[s] = recPc[s]
    BY <1>0, <2>1, Moved
  <2>3. /\ result'[r] \in {"ok", "error", "starved"}
        /\ \A s \in Recording : s # r => result'[s] = result[s]
    BY <1>0, <1>2 DEF RecordingFinishes, RecordingFails, RecordingStarves, RecTyped
  <2>4. /\ fate[r] = "none" /\ files[r] = 0
    BY <1>0, <2>2 DEF Progress
  <2>5. /\ \A s \in Recording : s # r => fate'[s] = fate[s] /\ files'[s] = files[s]
        /\ result'[r] = "ok" /\ r \notin inMemory => fate'[r] = "saved"
        /\ ~(result'[r] = "ok" /\ r \notin inMemory) => fate'[r] = "none" /\ files'[r] = 0
    <3>1. CASE RecordingFinishes(r)
      BY <1>0, <2>4, <3>1 DEF RecordingFinishes, EndTyped, RecTyped, endVars
    <3>2. CASE RecordingFails(r) \/ RecordingStarves(r)
      BY <1>0, <2>4, <3>2 DEF RecordingFails, RecordingStarves, RecTyped, endVars
    <3> QED
      BY <1>2, <3>1, <3>2
  <2>6. Keeping(r)' /\ ~LetGo(r)' /\ (Draft(r)' <=> (r \in inMemory /\ result'[r] = "ok"))
    BY <2>1, <2>2 DEF Keeping, LetGo, Draft
  <2>7. Progress(r)' /\ (Draft(r)' => (fate'[r] = "none" <=> Keeping(r)'))
    BY <2>2, <2>3, <2>5, <2>6 DEF Progress
  <2>8. \A s \in Recording : s # r => Same(s)
    BY <2>1, <2>2, <2>3, <2>5 DEF Same
  <2> QED
    BY <1>1, <2>1, <2>7, <2>8, NothingMoves DEF placeVars
<1>3. CASE Hide(r) \/ ClearStop(r) \/ ClearActive(r) \/ Settle(r)
  <2>1. UNCHANGED <<task, waiting, shared, unsaved, saverPc>>
        /\ UNCHANGED <<inMemory, result, fate, files>>
    BY <1>3 DEF Hide, ClearStop, ClearActive, Settle, reviewVars, saverVars, hostVars, endVars
  <2>2. PICK from \in {"hide", "clearStop", "clearActive", "settle"},
             to \in {"clearStop", "clearActive", "settle", "save", "queue"} :
          RecorderMoves(r, from, to) /\ (to \in {"save", "queue"} => Draft(r))
    BY <1>3 DEF Hide, ClearStop, ClearActive, Settle, Draft
  <2>3. /\ recPc[r] = from /\ recPc'[r] = to
        /\ \A s \in Recording : s # r => recPc'[s] = recPc[s]
    BY <1>0, <2>2, Moved
  <2>4. \A s \in Recording : Still(s)
    <3>1. CASE Hide(r)
      <4>1. /\ UNCHANGED <<uiPc, windows>>
            /\ \A s \in Recording, v \in Ui : RequestedAt(v, s)' <=> RequestedAt(v, s)
        BY <1>0, <3>1, Hidden DEF Hide
      <4> QED
        BY <2>1, <4>1 DEF Still, Tasked, Opened, Waits, Edited, UiAlive
    <3>2. CASE ClearStop(r) \/ ClearActive(r) \/ Settle(r)
      <4>1. UNCHANGED placeVars
        BY <2>1, <3>2 DEF ClearStop, ClearActive, Settle, placeVars, uiVars
      <4> QED
        BY <4>1, NothingMoves
    <3> QED
      BY <1>3, <3>1, <3>2
  <2>5. \A s \in Recording : s # r => Same(s)
    BY <2>1, <2>3 DEF Same
  <2>6. Keeping(r) /\ Keeping(r)' /\ ~LetGo(r)' /\ (Draft(r)' <=> Draft(r)) /\ ~LetGo(r)
    BY <2>1, <2>2, <2>3 DEF Keeping, LetGo, Draft
  <2>7. Progress(r)'
    BY <1>0, <2>1, <2>2, <2>3, <2>6 DEF Progress
  <2>8. Draft(r)' => (fate'[r] = "none" <=> Keeping(r)')
    BY <1>0, <2>1, <2>6 DEF Kept, Custody, Held
  <2> QED
    BY <1>1, <2>1, <2>2, <2>4, <2>5, <2>7, <2>8
<1>4. CASE Announce(r) \/ SaveAtExit(r)
  <2>1. UNCHANGED placeVars /\ UNCHANGED <<inMemory, result>>
    BY <1>4 DEF Announce, SaveAtExit, placeVars, reviewVars, saverVars, uiVars, hostVars
  <2>2. PICK from \in {"settle", "save"} : RecorderMoves(r, from, "gone")
    BY <1>4 DEF Announce, SaveAtExit
  <2>3. /\ recPc[r] = from /\ recPc'[r] = "gone"
        /\ \A s \in Recording : s # r => recPc'[s] = recPc[s]
    BY <1>0, <2>2, Moved
  <2>4. /\ fate'[r] \in Settled
        /\ \A s \in Recording : s # r => fate'[s] = fate[s] /\ files'[s] = files[s]
    <3>1. CASE Announce(r)
      BY <1>0, <3>1 DEF Announce, EndTyped, Settled
    <3>2. CASE SaveAtExit(r)
      <4>1. fate[r] = "none" /\ files[r] = 0
        BY <1>0, <3>2 DEF SaveAtExit, RecorderMoves, Progress, Kept, Custody, Held, Keeping
      <4> QED
        BY <1>0, <3>2, <4>1, Written DEF SaveAtExit
    <3> QED
      BY <1>4, <3>1, <3>2
  <2>5. fate'[r] # "none" /\ LetGo(r)' /\ ~Keeping(r)'
    BY <2>3, <2>4 DEF Settled, LetGo, Keeping
  <2>6. Progress(r)' /\ (Draft(r)' => (fate'[r] = "none" <=> Keeping(r)'))
    BY <2>3, <2>5 DEF Progress
  <2>7. \A s \in Recording : s # r => Same(s)
    BY <2>1, <2>3, <2>4 DEF Same
  <2> QED
    BY <1>1, <2>1, <2>2, <2>6, <2>7, NothingMoves DEF placeVars
<1>5. ASSUME RecorderMoves(r, "queue", "gone") \/ RecorderMoves(r, "queue", "flow"),
             UNCHANGED <<inMemory, result, fate, files>>
      PROVE  /\ \A t \in Thread : ~Tasked(r, t) /\ ~Opened(r, t)
             /\ ~Waits(r) /\ r \notin shared /\ ~Edited(r)
             /\ \A u \in Ui : ~RequestedAt(u, r)
             /\ LetGo(r)' /\ ~Keeping(r)' /\ Draft(r)' /\ fate'[r] = "none" /\ Progress(r)'
             /\ \A s \in Recording : s # r => Same(s)
  <2>1. /\ recPc[r] = "queue" /\ recPc'[r] \in {"gone", "flow"}
        /\ \A s \in Recording : s # r => recPc'[s] = recPc[s]
    BY <1>0, <1>5, Moved
  <2>2. ~LetGo(r) /\ Keeping(r) /\ Draft(r)
    BY <1>0, <2>1 DEF LetGo, Keeping, Progress
  <2>3. fate[r] = "none" /\ files[r] = 0
    BY <1>0, <2>2 DEF Kept, Custody, Held, Progress
  <2>4. LetGo(r)' /\ ~Keeping(r)' /\ Draft(r)'
    BY <1>5, <2>1, <2>2 DEF LetGo, Keeping, Draft
  <2>5. Progress(r)'
    BY <1>5, <2>1, <2>3, <2>4 DEF Progress
  <2>6. \A s \in Recording : s # r => Same(s)
    BY <1>5, <2>1 DEF Same
  <2> QED
    BY <1>0, <1>5, <2>2, <2>3, <2>4, <2>5, <2>6, OnlyItsRecorder
<1>6. CASE QueueBehind(r)
  <2>1. /\ UNCHANGED <<task, shared, unsaved, saverPc, uiQueue, windows, uiPc>>
        /\ UNCHANGED <<inMemory, result, fate, files>>
        /\ waiting' = Append(waiting, r) /\ RecorderMoves(r, "queue", "gone")
    BY <1>6 DEF QueueBehind, saverVars, uiVars, hostVars, endVars
  <2>2. /\ \A s : Waits(s)' <=> Waits(s) \/ s = r
        /\ Once(waiting) /\ ~Waits(r) => Once(waiting)'
    BY <1>0, <2>1, AppendHas DEF ReviewTyped, Waits
  <2>3. \A s \in Recording : s # r => Still(s)
    BY <2>1, <2>2 DEF Still, Tasked, Opened, Edited, RequestedAt, UiAlive
  <2>4. Kept(r)'
    <3>1. /\ \A t \in Thread : ~Tasked(r, t)' /\ ~Opened(r, t)'
          /\ Waits(r)' /\ r \notin shared' /\ ~Edited(r)'
          /\ \A u \in Ui : ~RequestedAt(u, r)'
      BY <1>5, <2>1, <2>2 DEF Tasked, Opened, Edited, RequestedAt
    <3> QED
      BY <1>5, <2>1, <3>1 DEF Kept, Custody, Apart, AskedOnce, Elsewhere, Later, Held
  <2>5. \A s \in Recording : s # r => Kept(s)'
    BY <1>5, <2>1, <2>3, SameKeeps
  <2> QED
    BY <1>5, <2>1, <2>2, <2>4, <2>5
<1>7. CASE QueueFirst(r)
  <2>1. /\ UNCHANGED <<waiting, shared, unsaved, saverPc, uiQueue, windows, uiPc>>
        /\ UNCHANGED <<inMemory, result, fate, files>>
        /\ RecorderMoves(r, "queue", "flow")
    BY <1>7 DEF QueueFirst, saverVars, uiVars, hostVars, endVars
  <2>2. /\ task'[r] = Do("open", r, "none") /\ r \in Thread
        /\ \A v \in Thread : v # r => task'[v] = task[v]
    BY <1>0, <1>7 DEF QueueFirst, TaskTyped, Thread
  <2>3. task[r].do = "idle"
    BY <2>1 DEF ThreadsAct, RecorderMoves
  <2>4. /\ Tasked(r, r)' /\ Opened(r, r)'
        /\ \A s \in Recording : s # r => ~Tasked(s, r)' /\ ~Opened(s, r)'
    BY <2>2 DEF Tasked, Opened, Do
  <2>5. \A s \in Recording, v \in Thread :
          v # r => (Tasked(s, v)' <=> Tasked(s, v)) /\ (Opened(s, v)' <=> Opened(s, v))
    BY <2>2 DEF Tasked, Opened
  <2>6. \A s \in Recording : ~Tasked(s, r)
    BY <2>3 DEF Tasked
  <2>7. \A s \in Recording : s # r => Still(s)
    BY <2>1, <2>4, <2>5, <2>6 DEF Still, Waits, Edited, RequestedAt, UiAlive
  <2>8. Kept(r)'
    <3>1. /\ \A v \in Thread : v # r => ~Tasked(r, v)' /\ ~Opened(r, v)'
          /\ ~Waits(r)' /\ r \notin shared' /\ ~Edited(r)'
          /\ \A u \in Ui : ~RequestedAt(u, r)'
      BY <1>5, <2>1, <2>5 DEF Waits, Edited, RequestedAt
    <3>2. Apart(r)'
      BY <3>1 DEF Apart
    <3>3. AskedOnce(r)'
      BY <3>1 DEF AskedOnce
    <3> QED
      BY <1>5, <2>1, <2>2, <2>4, <3>1, <3>2, <3>3 DEF Kept, Custody, Elsewhere, Later, Held
  <2>9. \A s \in Recording : s # r => Kept(s)'
    BY <1>5, <2>1, <2>7, SameKeeps
  <2> QED
    BY <2>1, <2>8, <2>9 DEF Once
<1>8. CASE RecorderReturns(r)
  <2>1. /\ UNCHANGED placeVars /\ UNCHANGED <<inMemory, result, fate, files>>
        /\ RecorderMoves(r, "flow", "gone")
    BY <1>8 DEF RecorderReturns, placeVars, reviewVars, saverVars, uiVars, hostVars, endVars
  <2>2. /\ recPc[r] = "flow" /\ recPc'[r] = "gone"
        /\ \A s \in Recording : s # r => recPc'[s] = recPc[s]
    BY <1>0, <2>1, Moved
  <2>3. /\ LetGo(r) /\ LetGo(r)' /\ ~Keeping(r) /\ ~Keeping(r)' /\ (Draft(r)' <=> Draft(r))
    BY <2>1, <2>2 DEF LetGo, Keeping, Draft
  <2>4. Progress(r)'
    BY <1>0, <2>1, <2>2, <2>3 DEF Progress
  <2>5. Kept(r)'
    BY <1>0, <2>1, <2>3, <2>4, NothingMoves, StillKeeps
  <2>6. \A s \in Recording : s # r => Kept(s)'
    <3>1. \A s \in Recording : s # r => Same(s)
      BY <2>1, <2>2 DEF Same
    <3> QED
      BY <2>1, <3>1, NothingMoves, SameKeeps
  <2> QED
    BY <2>1, <2>5, <2>6 DEF Once, placeVars
<1> QED
  BY <1>2, <1>3, <1>4, <1>6, <1>7, <1>8 DEF RunStep

\* A step of a thread that moves no draft but may forget what it was to open.
LEMMA TaskStill ==
    ASSUME NEW t \in Thread, \A v \in Thread : v # t => task'[v] = task[v],
           UNCHANGED <<waiting, shared, unsaved, saverPc, uiQueue, windows, uiPc>>,
           NEW r, Tasked(r, t)' <=> Tasked(r, t), Opened(r, t)' => Opened(r, t)
    PROVE  Still(r)
BY DEF Still, Tasked, Opened, Waits, Edited, RequestedAt, UiAlive

\* What a step leaves when it concludes the task of a thread.
LEMMA ConcludedKeeps ==
    ASSUME ThreadsAct, \A r \in Recording : Kept(r), NEW t \in Thread,
           task[t].do \in {"open", "conclude"}, task'[t].do \notin {"open", "conclude"},
           \A v \in Thread : v # t => task'[v] = task[v],
           UNCHANGED <<waiting, shared, unsaved, saverPc, uiQueue, windows, uiPc>>,
           UNCHANGED <<recPc, result, inMemory>>,
           fate'[task[t].rec] # "none",
           \A s \in Recording : s # task[t].rec => fate'[s] = fate[s] /\ files'[s] = files[s]
    PROVE  \A r \in Recording : Kept(r)'
<1>1. PICK x \in Recording : /\ x = task[t].rec /\ Tasked(x, t) /\ LetGo(x) /\ Draft(x)
                             /\ fate'[x] # "none"
  BY TaskOf
<1>2. \A r \in Recording : ~Tasked(r, t)' /\ ~Opened(r, t)'
  BY DEF Tasked, Opened
<1>3. \A r \in Recording, v \in Thread :
        v # t => (Tasked(r, v)' <=> Tasked(r, v)) /\ (Opened(r, v)' <=> Opened(r, v))
  BY DEF Tasked, Opened
<1>4. \A r \in Recording : /\ Waits(r)' <=> Waits(r)
                           /\ Edited(r)' <=> Edited(r)
                           /\ \A u \in Ui : RequestedAt(u, r)' <=> RequestedAt(u, r)
  BY DEF Waits, Edited, RequestedAt
<1>5. Kept(x)'
  <2>1. /\ ~Waits(x) /\ x \notin shared /\ ~Edited(x)
        /\ \A v \in Thread : v # t => ~Tasked(x, v)
    BY <1>1 DEF Kept, Custody, Apart
  <2>2. ~Elsewhere(x)'
    BY <1>2, <1>3, <1>4, <2>1 DEF Elsewhere
  <2> QED
    BY <1>1, <1>4, <2>2, SettledKeeps
<1>6. ASSUME NEW r \in Recording, r # x PROVE Kept(r)'
  <2>1. ~Tasked(r, t)
    BY <1>1, <1>6 DEF Tasked
  <2>2. Still(r)
    BY <1>2, <2>1, TaskStill
  <2>3. Same(r)
    BY <1>1, <1>6 DEF Same
  <2> QED
    BY <2>2, <2>3, SameKeeps
<1> QED
  BY <1>5, <1>6

\* open_review and conclude_review.
LEMMA FlowKeeps ==
    ASSUME Typed, ThreadsAct, Once(waiting), \A r \in Recording : Kept(r),
           NEW t \in Thread, FlowStep(t)
    PROVE  (\A r \in Recording : Kept(r)') /\ Once(waiting)'
<1>0. /\ ReviewTyped /\ SaverTyped /\ TaskTyped /\ UiTyped /\ EndTyped /\ "closed" \in Answer
      /\ "saved" \in Settled /\ "failed" \in Settled /\ "discarded" \in Settled
      /\ "none" \notin Settled
  BY DEF Typed, Answer, Settled
<1>1. CASE RequestReview(t)
  <2>1. PICK x \in Recording : /\ x = task[t].rec /\ Tasked(x, t) /\ LetGo(x) /\ Draft(x)
                               /\ fate[x] = "none"
    BY <1>1, TaskOf DEF RequestReview
  <2>2. /\ UNCHANGED <<waiting, unsaved, saverPc, windows, uiPc>>
        /\ UNCHANGED <<hostVars, recVars, endVars>>
        /\ shared' = shared \cup {x} /\ host \in Ui /\ Request(host, "review", x)
    BY <1>0, <1>1, <2>1 DEF RequestReview, reviewVars, saverVars, UiTyped
  <2>3. /\ task'[t].do \notin {"open", "conclude"}
        /\ \A v \in Thread : v # t => task'[v] = task[v]
    <3>1. PICK job \in Job : Becomes(t, job) /\ job.do \notin {"open", "conclude"}
      BY <1>0, <1>1, <2>1, Jobs DEF RequestReview, Idle, Do
    <3> QED
      BY <1>0, <3>1, Became
  <2>4. \A r \in Recording, u \in Ui :
          RequestedAt(u, r)' <=> RequestedAt(u, r) \/ (u = host /\ "review" = "review" /\ r = x)
    BY <1>0, <2>2, Requested
  <2>5. \A r \in Recording : ~Tasked(r, t)' /\ ~Opened(r, t)'
    BY <2>3 DEF Tasked, Opened
  <2>6. \A r \in Recording, v \in Thread :
          v # t => (Tasked(r, v)' <=> Tasked(r, v)) /\ (Opened(r, v)' <=> Opened(r, v))
    BY <2>3 DEF Tasked, Opened
  <2>7. \A r \in Recording : Same(r)
    BY <2>2, NothingEnds
  <2>8. Kept(x)'
    <3>1. /\ Opened(x, t) /\ \A v \in Thread : v # t => ~Tasked(x, v)
          /\ ~Waits(x) /\ x \notin shared /\ ~Edited(x)
      BY <1>1, <2>1 DEF RequestReview, Opened, Kept, Custody, Apart
    <3>2. \A u \in Ui : ~RequestedAt(u, x)
      BY <3>1 DEF Kept, Custody, AskedOnce
    <3>3. \A v \in Thread : ~Tasked(x, v)' /\ ~Opened(x, v)'
      BY <2>5, <2>6, <3>1 DEF Tasked, Opened
    <3>4. ~Waits(x)' /\ x \in shared' /\ ~Edited(x)'
      BY <2>2, <3>1 DEF Waits, Edited
    <3>5. UiAlive(host) /\ \A u \in Ui : UiAlive(u)' <=> UiAlive(u)
      BY <1>1, <2>2 DEF RequestReview, ThreadsAct, UiAlive
    <3>6. \E u \in Ui : UiAlive(u)' /\ RequestedAt(u, x)'
      BY <2>2, <2>4, <3>5
    <3>7. \A u \in Ui : RequestedAt(u, x)' => u = host
      BY <2>4, <3>2
    <3>8. Apart(x)'
      BY <3>3, <3>4 DEF Apart
    <3>9. AskedOnce(x)'
      BY <3>3, <3>4, <3>6, <3>7 DEF AskedOnce
    <3>10. LetGo(x)' /\ Draft(x)' /\ ~Keeping(x)' /\ fate'[x] = "none" /\ Elsewhere(x)'
      BY <2>1, <2>7, <3>4 DEF Same, LetGo, Draft, Keeping, Elsewhere
    <3>11. Progress(x)'
      BY <2>1, <2>7, <3>10 DEF Same, Kept, Progress, LetGo
    <3> QED
      BY <3>8, <3>9, <3>10, <3>11 DEF Kept, Custody, Later, Held
  <2>9. ASSUME NEW r \in Recording, r # x PROVE Kept(r)'
    <3>1. ~Tasked(r, t)
      BY <2>1, <2>9 DEF Tasked
    <3>2. /\ \A u \in Ui : RequestedAt(u, r)' <=> RequestedAt(u, r)
          /\ Waits(r)' <=> Waits(r)
          /\ r \in shared' <=> r \in shared
          /\ Edited(r)' <=> Edited(r)
          /\ \A u \in Ui : UiAlive(u)' <=> UiAlive(u)
      BY <2>2, <2>4, <2>9 DEF Waits, Edited, UiAlive
    <3>3. Still(r)
      BY <2>5, <2>6, <3>1, <3>2 DEF Still
    <3> QED
      BY <2>7, <3>3, SameKeeps
  <2> QED
    BY <2>2, <2>8, <2>9 DEF Once
<1>2. CASE Reclaim(t)
  <2>1. PICK x \in Recording : x = task[t].rec /\ task[t].do = "reclaim"
    BY <1>2, TaskOf DEF Reclaim
  <2>2. /\ UNCHANGED <<waiting, unsaved, saverPc, uiQueue, windows, uiPc>>
        /\ UNCHANGED <<hostVars, recVars, endVars>>
        /\ shared' = shared \ {x}
        /\ Becomes(t, IF x \in shared THEN Do("conclude", x, "closed") ELSE Idle)
    BY <1>2, <2>1 DEF Reclaim, reviewVars, saverVars, uiVars
  <2>3. /\ task'[t] = IF x \in shared THEN Do("conclude", x, "closed") ELSE Idle
        /\ \A v \in Thread : v # t => task'[v] = task[v]
    <3>1. Do("conclude", x, "closed") \in Job /\ Idle \in Job
      BY <1>0, Jobs
    <3> QED
      BY <1>0, <2>2, <3>1, Became
  <2>4. \A r \in Recording : Same(r)
    BY <2>2, NothingEnds
  <2>5. CASE x \in shared
    <3>1. task'[t] = Do("conclude", x, task'[t].with)
      BY <2>3, <2>5 DEF Do
    <3>2. Kept(x)'
      <4>1. /\ Waits(x)' <=> Waits(x)
            /\ Edited(x)' <=> Edited(x)
            /\ \A u \in Ui : RequestedAt(u, x)' => RequestedAt(u, x)
        BY <2>2 DEF Waits, Edited, RequestedAt
      <4> QED
        BY <2>2, <2>3, <2>4, <2>5, <3>1, <4>1, AnsweredKeeps
    <3>3. ASSUME NEW r \in Recording, r # x PROVE Kept(r)'
      <4>1. ~Tasked(r, t) /\ ~Tasked(r, t)' /\ ~Opened(r, t)'
        BY <2>1, <3>1, <3>3 DEF Tasked, Opened, Do
      <4>2. Still(r)
        BY <2>2, <2>3, <3>3, <4>1 DEF Still, Tasked, Opened, Waits, Edited, RequestedAt, UiAlive
      <4> QED
        BY <2>4, <4>2, SameKeeps
    <3> QED
      BY <2>2, <3>2, <3>3 DEF Once
  <2>6. CASE x \notin shared
    <3>1. shared' = shared
      BY <2>2, <2>6
    <3>2. \A r : ~Tasked(r, t) /\ ~Tasked(r, t)' /\ ~Opened(r, t)'
      BY <2>1, <2>3, <2>6 DEF Tasked, Opened, Idle
    <3>3. \A r : Still(r)
      BY <2>2, <2>3, <3>1, <3>2, TaskStill
    <3> QED
      BY <2>2, <2>4, <3>3, SameKeeps DEF Once
  <2> QED
    BY <2>5, <2>6
<1>3. CASE NoHostForReview(t)
  <2>1. PICK x \in Recording : x = task[t].rec /\ task[t].do = "open"
    BY <1>3, TaskOf DEF NoHostForReview
  <2>2. /\ UNCHANGED <<waiting, shared, unsaved, saverPc, uiQueue, windows, uiPc>>
        /\ UNCHANGED <<hostVars, recVars, endVars>>
        /\ Becomes(t, Do("conclude", x, "closed"))
    BY <1>3, <2>1 DEF NoHostForReview, reviewVars, saverVars, uiVars
  <2>3. /\ task'[t] = Do("conclude", x, "closed")
        /\ \A v \in Thread : v # t => task'[v] = task[v]
    BY <1>0, <2>2, Jobs, Became
  <2>4. \A r : (Tasked(r, t)' <=> Tasked(r, t)) /\ ~Opened(r, t)'
    BY <2>1, <2>3 DEF Tasked, Opened, Do
  <2>5. \A r : Still(r)
    BY <2>2, <2>3, <2>4, TaskStill
  <2> QED
    BY <2>2, <2>5, NothingEnds, SameKeeps DEF Once
<1>4. CASE ConcludeUnchanged(t) \/ ConcludeDiscard(t) \/ NoSaver(t)
  <2>1. PICK x \in Recording : x = task[t].rec /\ task[t].do = "conclude" /\ files[x] = 0
    BY <1>4, TaskOf DEF ConcludeUnchanged, ConcludeDiscard, NoSaver
  <2>2. /\ UNCHANGED <<waiting, shared, unsaved, saverPc, uiQueue, windows, uiPc>>
        /\ UNCHANGED <<recPc, result, inMemory>>
        /\ Becomes(t, GoOn(t))
    BY <1>4 DEF ConcludeUnchanged, ConcludeDiscard, NoSaver, reviewVars, saverVars, uiVars,
       hostVars, recVars
  <2>3. /\ task'[t].do = "next"
        /\ \A v \in Thread : v # t => task'[v] = task[v]
    <3>1. task'[t] = GoOn(t) /\ \A v \in Thread : v # t => task'[v] = task[v]
      BY <1>0, <2>2, Jobs, Became
    <3> QED
      BY <3>1 DEF GoOn, Do
  <2>4. /\ fate'[x] \in Settled
        /\ \A s \in Recording : s # x => fate'[s] = fate[s] /\ files'[s] = files[s]
    <3>1. CASE ConcludeDiscard(t)
      BY <1>0, <2>1, <3>1, Ended DEF ConcludeDiscard
    <3>2. CASE Writes(x, "saved")
      BY <1>0, <2>1, <3>2, Written
    <3> QED
      BY <1>4, <2>1, <3>1, <3>2 DEF ConcludeUnchanged, NoSaver
  <2>5. fate'[task[t].rec] # "none"
    BY <1>0, <2>1, <2>4
  <2> QED
    BY <2>1, <2>2, <2>3, <2>4, <2>5, ConcludedKeeps DEF Once
<1>5. CASE SpawnSaver(t)
  <2>1. PICK x \in Recording : /\ x = task[t].rec /\ Tasked(x, t) /\ LetGo(x) /\ Draft(x)
                               /\ fate[x] = "none"
    BY <1>5, TaskOf DEF SpawnSaver
  <2>2. /\ UNCHANGED <<waiting, shared, uiQueue, windows, uiPc>>
        /\ UNCHANGED <<hostVars, recVars, endVars>>
        /\ unsaved' = unsaved \cup {x} /\ saverPc' = [saverPc EXCEPT ![x] = "encode"]
        /\ Becomes(t, Do("push", x, "edit"))
    BY <1>5, <2>1 DEF SpawnSaver, reviewVars, uiVars
  <2>3. /\ task'[t] = Do("push", x, "edit")
        /\ \A v \in Thread : v # t => task'[v] = task[v]
    BY <1>0, <2>2, Jobs, Became
  <2>4. \A r \in Recording : ~Tasked(r, t)' /\ ~Opened(r, t)'
    BY <2>3 DEF Tasked, Opened, Do
  <2>5. \A r \in Recording, v \in Thread :
          v # t => (Tasked(r, v)' <=> Tasked(r, v)) /\ (Opened(r, v)' <=> Opened(r, v))
    BY <2>3 DEF Tasked, Opened
  <2>6. Edited(x)' /\ \A r \in Recording : r # x => (Edited(r)' <=> Edited(r))
    BY <1>0, <2>2 DEF Edited, SaverTyped
  <2>7. \A r \in Recording : /\ Waits(r)' <=> Waits(r)
                             /\ \A u \in Ui : RequestedAt(u, r)' <=> RequestedAt(u, r)
                             /\ \A u \in Ui : UiAlive(u)' <=> UiAlive(u)
    BY <2>2 DEF Waits, RequestedAt, UiAlive
  <2>8. \A r \in Recording : Same(r)
    BY <2>2, NothingEnds
  <2>9. Kept(x)'
    <3>1. /\ \A v \in Thread : v # t => ~Tasked(x, v)
          /\ ~Waits(x) /\ x \notin shared
      BY <2>1 DEF Kept, Custody, Apart
    <3>2. \A v \in Thread : ~Tasked(x, v)' /\ ~Opened(x, v)'
      BY <2>4, <2>5, <3>1 DEF Tasked, Opened
    <3>3. ~Waits(x)' /\ x \notin shared'
      BY <2>2, <2>7, <3>1
    <3>4. Apart(x)'
      BY <3>2, <3>3 DEF Apart
    <3>5. AskedOnce(x)'
      BY <2>7, <3>2, <3>3 DEF AskedOnce, Kept, Custody
    <3>6. LetGo(x)' /\ Draft(x)' /\ ~Keeping(x)' /\ fate'[x] = "none" /\ Elsewhere(x)'
      BY <2>1, <2>6, <2>8 DEF Same, LetGo, Draft, Keeping, Elsewhere
    <3>7. Progress(x)'
      BY <2>1, <2>8, <3>6 DEF Same, Kept, Progress, LetGo
    <3> QED
      BY <3>4, <3>5, <3>6, <3>7 DEF Kept, Custody, Later, Held
  <2>10. ASSUME NEW r \in Recording, r # x PROVE Kept(r)'
    <3>1. ~Tasked(r, t)
      BY <2>1, <2>10 DEF Tasked
    <3>2. Still(r)
      BY <2>2, <2>4, <2>5, <2>6, <2>7, <2>10, <3>1 DEF Still
    <3> QED
      BY <2>8, <3>2, SameKeeps
  <2> QED
    BY <2>2, <2>9, <2>10 DEF Once
<1>6. CASE PushSaver(t)
  <2>1. /\ UNCHANGED <<waiting, shared, unsaved, saverPc, uiQueue, windows, uiPc>>
        /\ UNCHANGED <<hostVars, recVars, endVars>>
        /\ Becomes(t, GoOn(t)) /\ task[t].do = "push"
    BY <1>6 DEF PushSaver, reviewVars, uiVars
  <2>2. task'[t] = GoOn(t) /\ \A v \in Thread : v # t => task'[v] = task[v]
    BY <1>0, <2>1, Jobs, Became
  <2>3. \A r : ~Tasked(r, t) /\ ~Tasked(r, t)' /\ ~Opened(r, t)'
    BY <2>1, <2>2 DEF Tasked, Opened, GoOn, Do
  <2>4. \A r : Still(r)
    BY <2>1, <2>2, <2>3, TaskStill
  <2> QED
    BY <2>1, <2>4, NothingEnds, SameKeeps DEF Once
<1>7. CASE NextReview(t) /\ waiting = <<>>
  <2>1. /\ UNCHANGED <<waiting, shared, unsaved, saverPc, uiQueue, windows, uiPc>>
        /\ UNCHANGED <<hostVars, recVars, endVars>>
        /\ Becomes(t, Idle) /\ task[t].do = "next"
    BY <1>7 DEF NextReview, saverVars, uiVars
  <2>2. task'[t] = Idle /\ \A v \in Thread : v # t => task'[v] = task[v]
    BY <1>0, <2>1, Jobs, Became
  <2>3. \A r : ~Tasked(r, t) /\ ~Tasked(r, t)' /\ ~Opened(r, t)'
    BY <2>1, <2>2 DEF Tasked, Opened, Idle
  <2>4. \A r : Still(r)
    BY <2>1, <2>2, <2>3, TaskStill
  <2> QED
    BY <2>1, <2>4, NothingEnds, SameKeeps DEF Once
<1>8. CASE NextReview(t) /\ waiting # <<>>
  <2>1. PICK x \in Recording : x = Head(waiting)
    BY <1>0, <1>8, TailHas DEF ReviewTyped
  <2>2. /\ UNCHANGED <<shared, unsaved, saverPc, uiQueue, windows, uiPc>>
        /\ UNCHANGED <<hostVars, recVars, endVars>>
        /\ task[t].do = "next" /\ waiting' = Tail(waiting)
        /\ Becomes(t, IF task[t].with = "closed" THEN Do("conclude", x, "closed")
                                                 ELSE Do("open", x, "none"))
    BY <1>8, <2>1 DEF NextReview, saverVars, uiVars
  <2>3. /\ task'[t].do \in {"open", "conclude"} /\ task'[t].rec = x
        /\ \A v \in Thread : v # t => task'[v] = task[v]
    <3>1. PICK job \in Job : /\ Becomes(t, job) /\ job.do \in {"open", "conclude"}
                             /\ job.rec = x
      BY <1>0, <2>2, Jobs DEF Do
    <3> QED
      BY <1>0, <3>1, Became
  <2>4. /\ Waits(x) /\ ~Waits(x)' /\ Once(waiting)'
        /\ \A r \in Recording : r # x => (Waits(r)' <=> Waits(r))
    BY <1>0, <1>8, <2>1, <2>2, TailHas DEF ReviewTyped, Waits
  <2>5. \A r \in Recording : /\ Edited(r)' <=> Edited(r)
                             /\ \A u \in Ui : RequestedAt(u, r)' <=> RequestedAt(u, r)
                             /\ \A u \in Ui : UiAlive(u)' <=> UiAlive(u)
    BY <2>2 DEF Edited, RequestedAt, UiAlive
  <2>6. \A r \in Recording : ~Tasked(r, t)
    BY <2>2 DEF Tasked
  <2>7. \A r \in Recording, v \in Thread :
          v # t => (Tasked(r, v)' <=> Tasked(r, v)) /\ (Opened(r, v)' <=> Opened(r, v))
    BY <2>3 DEF Tasked, Opened
  <2>8. Tasked(x, t)' /\ \A r \in Recording : r # x => ~Tasked(r, t)' /\ ~Opened(r, t)'
    BY <2>3 DEF Tasked, Opened
  <2>9. \A r \in Recording : Same(r)
    BY <2>2, NothingEnds
  <2>10. Kept(x)'
    <3>1. /\ \A v \in Thread : ~Tasked(x, v)
          /\ x \notin shared /\ ~Edited(x) /\ \A u \in Ui : ~RequestedAt(u, x)
      BY <2>4 DEF Kept, Custody, Apart, AskedOnce
    <3>2. LetGo(x) /\ Draft(x) /\ fate[x] = "none"
      BY <2>4 DEF Kept, Custody, Later, Held, Elsewhere
    <3>3. \A v \in Thread : Tasked(x, v)' => v = t
      BY <2>7, <3>1
    <3>4. x \notin shared' /\ ~Edited(x)' /\ \A u \in Ui : ~RequestedAt(u, x)'
      BY <2>2, <2>5, <3>1
    <3>5. Apart(x)' /\ AskedOnce(x)'
      BY <2>4, <3>3, <3>4 DEF Apart, AskedOnce
    <3>6. LetGo(x)' /\ Draft(x)' /\ ~Keeping(x)' /\ fate'[x] = "none" /\ Elsewhere(x)'
      BY <2>8, <2>9, <3>2 DEF Same, LetGo, Draft, Keeping, Elsewhere
    <3>7. Progress(x)'
      BY <2>9, <3>2, <3>6 DEF Same, Kept, Progress, LetGo
    <3> QED
      BY <3>5, <3>6, <3>7 DEF Kept, Custody, Later, Held
  <2>11. ASSUME NEW r \in Recording, r # x PROVE Kept(r)'
    <3>1. Still(r)
      BY <2>2, <2>4, <2>5, <2>6, <2>7, <2>8, <2>11 DEF Still
    <3> QED
      BY <2>9, <3>1, SameKeeps
  <2> QED
    BY <2>4, <2>10, <2>11
<1> QED
  BY <1>1, <1>2, <1>3, <1>4, <1>5, <1>6, <1>7, <1>8 DEF FlowStep

\* save_edited.
LEMMA SavingKeeps ==
    ASSUME Typed, SaversAreKnown, Once(waiting), \A s \in Recording : Kept(s),
           NEW r \in Recording, SaverStep(r)
    PROVE  (\A s \in Recording : Kept(s)') /\ Once(waiting)'
<1>0. SaverTyped /\ EndTyped
  BY DEF Typed
<1>1. /\ UNCHANGED <<task, waiting, shared, uiQueue, windows, uiPc>>
      /\ UNCHANGED <<recPc, result, inMemory>>
  BY DEF SaverStep, SaverEncodes, SaverTakes, SaverWrites, reviewVars, uiVars, hostVars, recVars
<1>2. ASSUME NEW s \in Recording, Edited(s)' <=> Edited(s), UNCHANGED <<fate, files>>
      PROVE  Kept(s)'
  <2>1. Still(s) /\ Same(s)
    BY <1>1, <1>2 DEF Still, Same, Tasked, Opened, Waits, RequestedAt, UiAlive
  <2> QED
    BY <2>1, SameKeeps
<1>3. CASE SaverEncodes(r) \/ SaverTakes(r)
  <2>1. UNCHANGED <<fate, files>>
    BY <1>3 DEF SaverEncodes, SaverTakes, endVars
  <2>2. \A s \in Recording : Edited(s)' <=> Edited(s)
    <3>1. CASE SaverEncodes(r)
      BY <1>0, <3>1 DEF SaverEncodes, SaverTyped, Edited
    <3>2. CASE SaverTakes(r)
      BY <1>0, <3>2 DEF SaverTakes, SaverTyped, Edited
    <3> QED
      BY <1>3, <3>1, <3>2
  <2> QED
    BY <1>1, <1>2, <2>1, <2>2 DEF Once
<1>4. CASE SaverWrites(r)
  <2>1. saverPc[r] = "write" /\ r \notin unsaved /\ Edited(r)
    BY <1>4 DEF SaverWrites, SaversAreKnown, Edited
  <2>2. LetGo(r) /\ Draft(r) /\ fate[r] = "none" /\ files[r] = 0
    BY <2>1, EditedOf
  <2>3. /\ fate'[r] \in Settled
        /\ \A s \in Recording : s # r => fate'[s] = fate[s] /\ files'[s] = files[s]
    BY <1>0, <1>4, <2>2, Written DEF SaverWrites
  <2>4. ~Edited(r)' /\ \A s \in Recording : s # r => (Edited(s)' <=> Edited(s))
    BY <1>0, <1>4, <2>1 DEF SaverWrites, SaverTyped, Edited
  <2>5. ~Elsewhere(r)'
    <3>1. ~Waits(r) /\ r \notin shared /\ \A t \in Thread : ~Tasked(r, t)
      BY <2>1 DEF Kept, Custody, Apart
    <3> QED
      BY <1>1, <2>4, <3>1 DEF Elsewhere, Waits, Tasked
  <2>6. Kept(r)'
    <3>1. \A u \in Ui : RequestedAt(u, r)' => RequestedAt(u, r)
      BY <1>1 DEF RequestedAt
    <3>2. fate'[r] # "none"
      BY <2>3 DEF Settled
    <3> QED
      BY <1>1, <2>2, <2>5, <3>1, <3>2, SettledKeeps
  <2>7. ASSUME NEW s \in Recording, s # r PROVE Kept(s)'
    <3>1. Still(s) /\ Same(s)
      BY <1>1, <2>3, <2>4, <2>7 DEF Still, Same, Tasked, Opened, Waits, RequestedAt, UiAlive
    <3> QED
      BY <3>1, SameKeeps
  <2> QED
    BY <1>1, <2>6, <2>7 DEF Once
<1> QED
  BY <1>3, <1>4 DEF SaverStep

\* A review window that goes, on a UI thread that does nothing else.
LEMMA AnsweringKeeps ==
    ASSUME Typed, \A s \in Recording : Kept(s), NEW u \in Ui, task[u].do = "idle",
           NEW r \in Recording, NEW a \in Answer,
           shared' = shared \ {r},
           IF r \in shared THEN Becomes(u, Do("conclude", r, a)) ELSE UNCHANGED task,
           UNCHANGED <<waiting, unsaved, saverPc, uiPc>>,
           UNCHANGED <<hostVars, recVars, endVars>>,
           \A s \in Recording, v \in Ui : RequestedAt(v, s)' => RequestedAt(v, s),
           \A s \in Recording, v \in Ui : s # r /\ RequestedAt(v, s) => RequestedAt(v, s)'
    PROVE  \A s \in Recording : Kept(s)'
<1>0. TaskTyped /\ u \in Thread
  BY DEF Typed, Thread
<1>1. \A s \in Recording : Same(s)
  BY NothingEnds
<1>2. \A s \in Recording : /\ Waits(s)' <=> Waits(s)
                           /\ Edited(s)' <=> Edited(s)
                           /\ \A v \in Ui : UiAlive(v)' <=> UiAlive(v)
  BY DEF Waits, Edited, UiAlive
<1>3. \A v \in Thread : v # u => task'[v] = task[v]
  BY <1>0 DEF Becomes, TaskTyped
<1>4. r \in shared => task'[u] = Do("conclude", r, a)
  BY <1>0 DEF Becomes, TaskTyped
<1>5. r \notin shared => task'[u] = task[u]
  OBVIOUS
<1>6. ASSUME NEW s \in Recording, s # r \/ r \notin shared PROVE Kept(s)'
  <2>1. \A v \in Thread : (Tasked(s, v)' <=> Tasked(s, v)) /\ (Opened(s, v)' => Opened(s, v))
    <3>1. (Tasked(s, u)' <=> Tasked(s, u)) /\ (Opened(s, u)' => Opened(s, u))
      BY <1>4, <1>5, <1>6 DEF Tasked, Opened, Do
    <3> QED
      BY <1>3, <3>1 DEF Tasked, Opened
  <2>2. s \in shared' <=> s \in shared
    BY <1>6
  <2>3. s \in shared => s # r
    BY <1>6
  <2>4. Still(s)
    BY <1>2, <2>1, <2>2, <2>3 DEF Still
  <2> QED
    BY <1>1, <2>4, SameKeeps
<1>7. CASE r \in shared
  <2>1. task'[u] = Do("conclude", r, task'[u].with)
    BY <1>4, <1>7 DEF Do
  <2>2. Kept(r)'
    BY <1>0, <1>1, <1>2, <1>3, <1>7, <2>1, AnsweredKeeps
  <2> QED
    BY <1>6, <2>2
<1> QED
  BY <1>6, <1>7

\* The desktop UI thread and the person at it.
LEMMA WindowsKeep ==
    ASSUME Typed, Once(waiting), \A s \in Recording : Kept(s), NEW u \in Ui,
           ApplyCommand(u) \/ CloseReview(u) \/ UiLeaves(u) \/ UserStep(u)
    PROVE  (\A s \in Recording : Kept(s)') /\ Once(waiting)'
<1>0. UiTyped /\ TaskTyped /\ u \in Thread
  BY DEF Typed, Thread
<1>1. CASE ApplyCommand(u)
  <2>1. /\ UNCHANGED <<waiting, unsaved, saverPc, uiPc>>
        /\ UNCHANGED <<hostVars, recVars, endVars>> /\ task[u].do = "idle"
    BY <1>1 DEF ApplyCommand, UiFree, reviewVars, saverVars
  <2>2. PICK command \in Order : command = Head(uiQueue[u])
    BY <1>0, <1>1, Applied
  <2>3. PICK r \in Recording : r = command.rec
    BY DEF Order
  <2>4. /\ uiQueue' \in [Ui -> Seq(Order)]
        /\ \A v \in Ui : v # u => uiQueue'[v] = uiQueue[v]
        /\ \A s \in Recording : Has(uiQueue[u], Command("review", s)) <=>
                                  \/ command = Command("review", s)
                                  \/ Has(uiQueue'[u], Command("review", s))
    BY <1>0, <1>1, <2>2, Applied
  <2>5. \A s \in Recording : command = Command("review", s) <=> command.show = "review" /\ s = r
    BY <2>3 DEF Order, Command
  <2>6. \A s \in Recording, v \in Ui :
          /\ RequestedAt(v, s) <=> s \in windows[v] \/ Has(uiQueue[v], Command("review", s))
          /\ RequestedAt(v, s)' <=> s \in windows'[v] \/ Has(uiQueue'[v], Command("review", s))
    BY DEF RequestedAt, Has
  <2>7. CASE command.show # "review"
    <3>1. UNCHANGED <<windows, shared, task>>
      BY <1>1, <2>2, <2>7 DEF ApplyCommand
    <3>2. \A s \in Recording, v \in Ui : RequestedAt(v, s)' <=> RequestedAt(v, s)
      BY <2>4, <2>5, <2>6, <2>7, <3>1
    <3>3. \A s \in Recording : Still(s)
      BY <2>1, <3>1, <3>2 DEF Still, Tasked, Opened, Waits, Edited, UiAlive
    <3> QED
      BY <2>1, <3>3, NothingEnds, SameKeeps DEF Once
  <2>8. CASE windows' = [windows EXCEPT ![u] = @ \cup {r}] /\ command.show = "review"
             /\ UNCHANGED <<shared, task>>
    <3>1. \A s \in Recording, v \in Ui :
            s \in windows'[v] <=> s \in windows[v] \/ (v = u /\ s = r)
      BY <1>0, <2>8 DEF UiTyped
    <3>2. \A s \in Recording, v \in Ui : RequestedAt(v, s)' <=> RequestedAt(v, s)
      BY <2>4, <2>5, <2>6, <2>8, <3>1
    <3>3. \A s \in Recording : Still(s)
      BY <2>1, <2>8, <3>2 DEF Still, Tasked, Opened, Waits, Edited, UiAlive
    <3> QED
      BY <2>1, <3>3, NothingEnds, SameKeeps DEF Once
  <2>9. CASE /\ command.show = "review" /\ UNCHANGED windows /\ shared' = shared \ {r}
             /\ IF r \in shared THEN Becomes(u, Do("conclude", r, "failed")) ELSE UNCHANGED task
    <3>1. /\ \A s \in Recording, v \in Ui : RequestedAt(v, s)' => RequestedAt(v, s)
          /\ \A s \in Recording, v \in Ui : s # r /\ RequestedAt(v, s) => RequestedAt(v, s)'
      BY <2>4, <2>5, <2>6, <2>9
    <3>2. "failed" \in Answer
      BY DEF Answer
    <3> QED
      BY <2>1, <2>9, <3>1, <3>2, AnsweringKeeps DEF Once
  <2> QED
    BY <1>1, <2>2, <2>3, <2>7, <2>8, <2>9 DEF ApplyCommand
<1>2. CASE CloseReview(u) \/ UserAnswers(u)
  <2>1. PICK r \in windows[u], a \in Answer : Answers(u, r, a)
    BY <1>2 DEF CloseReview, UserAnswers, Answer
  <2>2. /\ UNCHANGED <<waiting, unsaved, saverPc, uiPc, uiQueue>>
        /\ UNCHANGED <<hostVars, recVars, endVars>> /\ task[u].do = "idle"
    BY <1>2 DEF CloseReview, UserAnswers, UiFree, reviewVars, saverVars
  <2>3. r \in Recording
    BY <1>0 DEF UiTyped
  <2>4. \A s \in Recording, v \in Ui : s \in windows'[v] <=> s \in windows[v] /\ ~(v = u /\ s = r)
    BY <1>0, <2>1 DEF Answers, UiTyped
  <2>5. /\ \A s \in Recording, v \in Ui : RequestedAt(v, s)' => RequestedAt(v, s)
        /\ \A s \in Recording, v \in Ui : s # r /\ RequestedAt(v, s) => RequestedAt(v, s)'
    BY <2>2, <2>4 DEF RequestedAt
  <2>6. \A s \in Recording : Kept(s)'
    BY <2>1, <2>2, <2>3, <2>5, AnsweringKeeps DEF Answers
  <2> QED
    BY <2>2, <2>6 DEF Once
<1>3. CASE UiLeaves(u)
  <2>1. /\ UNCHANGED <<task, waiting, shared, unsaved, saverPc, uiQueue, windows>>
        /\ UNCHANGED <<hostVars, recVars, endVars>>
    BY <1>3 DEF UiLeaves, reviewVars, saverVars
  <2>2. \A s \in Recording : ~RequestedAt(u, s)
    BY <1>3, <1>0 DEF UiLeaves, RequestedAt
  <2>3. \A v \in Ui : v # u => (UiAlive(v)' <=> UiAlive(v))
    BY <1>0, <1>3 DEF UiLeaves, UiTyped, UiAlive
  <2>4. \A s \in Recording : Still(s)
    BY <2>1, <2>2, <2>3 DEF Still, Tasked, Opened, Waits, Edited, RequestedAt
  <2> QED
    BY <2>1, <2>4, NothingEnds, SameKeeps DEF Once
<1>4. CASE UserStops(u)
  <2>1. /\ UNCHANGED placeVars /\ UNCHANGED <<recVars, endVars, inMemory>>
    BY <1>4 DEF UserStops, placeVars, reviewVars, saverVars, uiVars
  <2>2. \A s \in Recording : Same(s)
    BY <2>1 DEF Same, recVars, endVars
  <2> QED
    BY <2>1, <2>2, NothingMoves, SameKeeps DEF Once, placeVars
<1> QED
  BY <1>1, <1>2, <1>3, <1>4 DEF UserStep

\* SelectionWorker::stop_inner, which takes a draft from a saver that is late.
LEMMA StoppingKeeps ==
    ASSUME Typed, SaversAreKnown, ThreadsAct, Once(waiting), \A s \in Recording : Kept(s),
           ExitBegins \/ ExitStep
    PROVE  (\A s \in Recording : Kept(s)') /\ Once(waiting)'
<1>0. SaverTyped /\ UiTyped /\ EndTyped
  BY DEF Typed
<1>1. CASE ExitBegins \/ JoinCapture \/ SetExiting \/ RaiseStop \/ JoinRecording
           \/ TakeSavers \/ SaversJoined \/ JoinSelection \/ EndPass \/ ProcessEnds
           \/ (\E r \in Recording : JoinSaver(r))
  <2>1. UNCHANGED placeVars /\ UNCHANGED <<recVars, endVars, inMemory>>
    BY <1>1 DEF ExitBegins, JoinCapture, SetExiting, RaiseStop, JoinRecording, TakeSavers,
       SaversJoined, JoinSelection, EndPass, ProcessEnds, JoinSaver, placeVars, hostVars,
       reviewVars, saverVars, uiVars
  <2>2. \A s \in Recording : Same(s)
    BY <2>1 DEF Same, recVars, endVars
  <2> QED
    BY <2>1, <2>2, NothingMoves, SameKeeps DEF Once, placeVars
<1>2. CASE TakeHost
  <2>1. /\ UNCHANGED <<task, waiting, shared, unsaved, saverPc, uiQueue, windows>>
        /\ UNCHANGED <<hostVars, recVars, endVars>>
    BY <1>2 DEF TakeHost, reviewVars, saverVars
  <2>2. \A v \in Ui : UiAlive(v)' <=> UiAlive(v)
    BY <1>0, <1>2 DEF TakeHost, UiTyped, UiAlive, ThreadsAct
  <2>3. \A s \in Recording : Still(s)
    BY <2>1, <2>2 DEF Still, Tasked, Opened, Waits, Edited, RequestedAt
  <2> QED
    BY <2>1, <2>3, NothingEnds, SameKeeps DEF Once
<1>3. ASSUME NEW r \in Recording, OvertakeSaver(r)
      PROVE  (\A s \in Recording : Kept(s)') /\ Once(waiting)'
  <2>1. /\ UNCHANGED <<task, waiting, shared, saverPc, uiQueue, windows, uiPc>>
        /\ UNCHANGED <<recPc, result, inMemory>> /\ unsaved' = unsaved \ {r}
    BY <1>3 DEF OvertakeSaver, reviewVars, uiVars, hostVars, recVars
  <2>2. CASE r \notin unsaved
    <3>1. UNCHANGED placeVars /\ UNCHANGED <<fate, files>>
      BY <1>3, <2>1, <2>2 DEF OvertakeSaver, placeVars, endVars
    <3>2. \A s \in Recording : Same(s)
      BY <2>1, <3>1 DEF Same
    <3> QED
      BY <2>1, <3>1, <3>2, NothingMoves, SameKeeps DEF Once
  <2>3. CASE r \in unsaved
    <3>1. Edited(r) /\ saverPc[r] # "write"
      BY <2>3 DEF Edited, SaversAreKnown
    <3>2. LetGo(r) /\ Draft(r) /\ files[r] = 0
      BY <3>1, EditedOf
    <3>3. /\ fate'[r] \in Settled
          /\ \A s \in Recording : s # r => fate'[s] = fate[s] /\ files'[s] = files[s]
      BY <1>0, <1>3, <2>3, <3>2, Written DEF OvertakeSaver
    <3>4. ~Edited(r)' /\ \A s \in Recording : s # r => (Edited(s)' <=> Edited(s))
      BY <2>1, <3>1 DEF Edited
    <3>5. ~Elsewhere(r)'
      <4>1. ~Waits(r) /\ r \notin shared /\ \A t \in Thread : ~Tasked(r, t)
        BY <3>1 DEF Kept, Custody, Apart
      <4> QED
        BY <2>1, <3>4, <4>1 DEF Elsewhere, Waits, Tasked
    <3>6. Kept(r)'
      <4>1. \A u \in Ui : RequestedAt(u, r)' => RequestedAt(u, r)
        BY <2>1 DEF RequestedAt
      <4>2. fate'[r] # "none"
        BY <3>3 DEF Settled
      <4> QED
        BY <2>1, <3>2, <3>5, <4>1, <4>2, SettledKeeps
    <3>7. ASSUME NEW s \in Recording, s # r PROVE Kept(s)'
      <4>1. Still(s) /\ Same(s)
        BY <2>1, <3>3, <3>4, <3>7 DEF Still, Same, Tasked, Opened, Waits, RequestedAt, UiAlive
      <4> QED
        BY <4>1, SameKeeps
    <3> QED
      BY <2>1, <3>6, <3>7 DEF Once
  <2> QED
    BY <2>2, <2>3
<1> QED
  BY <1>1, <1>2, <1>3 DEF ExitStep

\* Every step keeps the custody of every recording.
LEMMA KeptIsKept ==
    ASSUME IInv, [Next]_vars
    PROVE  (\A s \in Recording : Kept(s)') /\ Once(waiting)'
<1>0. /\ Typed /\ FreshStart /\ ThreadsAct /\ SaversAreKnown /\ Once(waiting)
      /\ \A r \in Recording : Kept(r)
  BY DEF IInv
<1>1. CASE SelectionStep
  <2>1. UNCHANGED waiting
    BY <1>1 DEF SelectionStep, Confirm, Refuse, Claim, NoDestination, PublishStop,
       ShowIndicator, Spawn, KeepJoin, SpawnFails, SelectionLeaves, reviewVars
  <2> QED
    BY <1>0, <1>1, <2>1, StartKeeps DEF Once
<1>2. ASSUME NEW r \in Recording, RecorderStep(r)
      PROVE  (\A s \in Recording : Kept(s)') /\ Once(waiting)'
  BY <1>0, <1>2, RunKeeps, FlowKeeps, ThreadsOf DEF RecorderStep, RunStep
<1>3. ASSUME NEW r \in Recording, SaverStep(r)
      PROVE  (\A s \in Recording : Kept(s)') /\ Once(waiting)'
  BY <1>0, <1>3, SavingKeeps
<1>4. ASSUME NEW u \in Ui, UiStep(u) \/ UserStep(u)
      PROVE  (\A s \in Recording : Kept(s)') /\ Once(waiting)'
  BY <1>0, <1>4, WindowsKeep, FlowKeeps, ThreadsOf DEF UiStep
<1>5. CASE ExitBegins \/ ExitStep
  BY <1>0, <1>5, StoppingKeeps
<1>6. CASE UNCHANGED vars
  <2>1. UNCHANGED placeVars /\ UNCHANGED <<hostVars, recVars, endVars>>
    BY <1>6 DEF vars, placeVars, reviewVars, saverVars, uiVars
  <2> QED
    BY <1>0, <2>1, NothingMoves, NothingEnds, SameKeeps DEF Once, placeVars
<1> QED
  BY <1>1, <1>2, <1>3, <1>4, <1>5, <1>6 DEF Next, RunNext

-----------------------------------------------------------------------------
(* The claim is kept.                                                      *)

\* Who neither selects nor records leaves the claim alone.
LEMMA ClaimStays ==
    ASSUME OneClaim, UNCHANGED <<selVars, active, stop, recPc>>
    PROVE  OneClaim'
BY DEF OneClaim, Claiming, Recorder, selVars

\* RecordingHost::start claims, publishes the stop flag and hands both to the
\* recorder it spawns.
LEMMA StartKeepsClaim ==
    ASSUME Typed, OneClaim, FreshStart, SelectionStep
    PROVE  OneClaim'
<1> USE DEF selVars, hostVars, recVars, Leave, Confirmed
<1>1. ASSUME NEW r \in Recording, Confirm(r) PROVE OneClaim'
  BY <1>1 DEF Confirm, OneClaim, Claiming, Recorder
<1>2. CASE Refuse \/ NoDestination \/ SelectionLeaves \/ KeepJoin
  BY <1>2 DEF Refuse, NoDestination, SelectionLeaves, KeepJoin, OneClaim, Claiming, Recorder
<1>3. CASE Claim
  BY <1>3 DEF Claim, OneClaim, Claiming, Recorder
<1>4. CASE PublishStop
  <2>1. /\ stop' = starting /\ selPc' = "show" /\ selPc = "publish"
        /\ UNCHANGED <<starting, active, recPc>> /\ Claiming(starting) /\ starting \in Recording
    BY <1>4 DEF PublishStop, Claiming, FreshStart
  <2>2. \A r \in Recording : Claiming(r) => r = starting
    BY <2>1 DEF OneClaim
  <2>3. \A r \in Recording : Claiming(r)' <=> Claiming(r)
    BY <2>1 DEF Claiming, Recorder
  <2>4. \A r \in Recording : Recorder(r) => r = starting
    BY <2>2 DEF Claiming
  <2> QED
    BY <2>1, <2>2, <2>3, <2>4 DEF OneClaim, Recorder
<1>5. CASE ShowIndicator
  BY <1>5 DEF ShowIndicator, OneClaim, Claiming, Recorder
<1>6. CASE Spawn
  BY <1>6 DEF Spawn, FreshStart, OneClaim, Claiming, Recorder, Typed, RecTyped
<1>7. CASE SpawnFails
  BY <1>7 DEF SpawnFails, FreshStart, OneClaim, Claiming, Recorder
<1> QED
  BY <1>1, <1>2, <1>3, <1>4, <1>5, <1>6, <1>7 DEF SelectionStep

\* RecordingHost::run clears the flag, then the claim, once its recording is over.
LEMMA RunKeepsClaim ==
    ASSUME Typed, OneClaim, FreshStart, NEW r \in Recording, RunStep(r)
    PROVE  OneClaim'
<1> USE DEF selVars, hostVars, recVars, RecorderMoves
<1>0. ASSUME NEW to, recPc' = [recPc EXCEPT ![r] = to]
      PROVE  recPc'[r] = to /\ \A s \in Recording : s # r => recPc'[s] = recPc[s]
  BY <1>0 DEF Typed, RecTyped
<1>1. CASE RecordingFinishes(r) \/ RecordingFails(r) \/ RecordingStarves(r) \/ Hide(r)
  <2>1. PICK to \in {"hide", "clearStop"} : recPc' = [recPc EXCEPT ![r] = to]
    BY <1>1 DEF RecordingFinishes, RecordingFails, RecordingStarves, Hide
  <2>2. recPc[r] \in {"record", "hide"} /\ UNCHANGED <<selPc, starting, active, stop>>
    BY <1>1 DEF RecordingFinishes, RecordingFails, RecordingStarves, Hide
  <2>3. recPc'[r] = to /\ \A s \in Recording : s # r => recPc'[s] = recPc[s]
    BY <1>0, <2>1
  <2>4. \A s \in Recording : Claiming(s)' => Claiming(s)
    BY <2>2, <2>3 DEF Claiming, Recorder
  <2> QED
    BY <2>2, <2>3, <2>4 DEF OneClaim
<1>2. CASE ClearStop(r)
  <2>1. recPc' = [recPc EXCEPT ![r] = "clearActive"] /\ UNCHANGED <<selPc, starting, active>>
    BY <1>2 DEF ClearStop
  <2>2. Claiming(r)
    BY <1>2 DEF ClearStop, Claiming, Recorder
  <2>3. recPc'[r] = "clearActive" /\ \A s \in Recording : s # r => recPc'[s] = recPc[s]
    BY <1>0, <2>1
  <2>4. \A s \in Recording : Claiming(s)' => Claiming(s)
    BY <2>1, <2>2, <2>3 DEF Claiming, Recorder
  <2>5. \A s \in Recording : s # r => ~Claiming(s)
    BY <2>2 DEF OneClaim
  <2>6. ~(selPc \in {"show", "spawn"} /\ starting = r)
    BY <1>2 DEF FreshStart, ClearStop, Confirmed
  <2> QED
    BY <2>1, <2>3, <2>4, <2>5, <2>6 DEF OneClaim, Claiming, Recorder
<1>3. CASE ClearActive(r)
  <2>1. Recorder(r) /\ \A s \in Recording : Claiming(s) => s = r
    BY <1>3 DEF ClearActive, OneClaim, Claiming, Recorder
  <2>2. /\ recPc'[r] = "settle" /\ UNCHANGED <<selVars, stop>>
        /\ \A s \in Recording : s # r => recPc'[s] = recPc[s]
    BY <1>0, <1>3 DEF ClearActive
  <2>3. \A s \in Recording : ~Claiming(s)'
    BY <1>3, <2>1, <2>2 DEF Claiming, Recorder, FreshStart, ClearActive, Confirmed
  <2> QED
    BY <2>1, <2>2, <2>3 DEF OneClaim, Claiming, Recorder
<1>4. CASE \/ Settle(r) \/ Announce(r) \/ SaveAtExit(r) \/ QueueBehind(r)
           \/ QueueFirst(r) \/ RecorderReturns(r)
  <2>1. PICK from \in {"settle", "save", "queue", "flow"},
             to \in {"save", "queue", "flow", "gone"} :
          recPc[r] = from /\ recPc' = [recPc EXCEPT ![r] = to]
    BY <1>4 DEF Settle, Announce, SaveAtExit, QueueBehind, QueueFirst, RecorderReturns
  <2>2. UNCHANGED <<selPc, starting, active, stop>>
    BY <1>4 DEF Settle, Announce, SaveAtExit, QueueBehind, QueueFirst, RecorderReturns
  <2>3. recPc'[r] = to /\ \A s \in Recording : s # r => recPc'[s] = recPc[s]
    BY <1>0, <2>1
  <2> QED
    BY <2>1, <2>2, <2>3 DEF OneClaim, Claiming, Recorder
<1> QED
  BY <1>1, <1>2, <1>3, <1>4 DEF RunStep

\* RecordingHost::start takes a request for a recording nobody has started.
LEMMA StartKeepsFresh ==
    ASSUME Typed, FreshStart, SelectionStep
    PROVE  FreshStart'
<1> USE DEF selVars, hostVars, recVars, endVars, Leave, Confirmed, FreshStart
<1>1. ASSUME NEW r \in Recording, Confirm(r) PROVE FreshStart'
  BY <1>1 DEF Confirm
<1>2. CASE Refuse \/ NoDestination \/ SelectionLeaves \/ KeepJoin
  BY <1>2 DEF Refuse, NoDestination, SelectionLeaves, KeepJoin
<1>3. CASE Claim
  BY <1>3 DEF Claim
<1>4. CASE PublishStop
  BY <1>4 DEF PublishStop
<1>5. CASE ShowIndicator
  BY <1>5 DEF ShowIndicator
<1>6. CASE Spawn
  BY <1>6 DEF Spawn
<1>7. CASE SpawnFails
  BY <1>7 DEF SpawnFails
<1> QED
  BY <1>1, <1>2, <1>3, <1>4, <1>5, <1>6, <1>7 DEF SelectionStep

\* What a review, a saver, a UI thread and exit have to do with the claim:
\* nothing.  Exit raises the flag it finds and leaves it where it is.
ClaimUntouched == UNCHANGED <<selVars, active, stop, recPc>>

\* open_review and conclude_review.
LEMMA FlowUntouched ==
    ASSUME NEW t, FlowStep(t)
    PROVE  ClaimUntouched
<1> USE DEF ClaimUntouched, selVars, hostVars, recVars
<1>1. CASE RequestReview(t) \/ Reclaim(t) \/ NoHostForReview(t)
  BY <1>1 DEF RequestReview, Reclaim, NoHostForReview
<1>2. CASE ConcludeUnchanged(t) \/ ConcludeDiscard(t) \/ SpawnSaver(t) \/ NoSaver(t)
  BY <1>2 DEF ConcludeUnchanged, ConcludeDiscard, SpawnSaver, NoSaver
<1>3. CASE PushSaver(t) \/ NextReview(t)
  BY <1>3 DEF PushSaver, NextReview
<1> QED
  BY <1>1, <1>2, <1>3 DEF FlowStep

\* save_edited.
LEMMA SaverUntouched ==
    ASSUME NEW r, SaverStep(r)
    PROVE  ClaimUntouched
BY DEF SaverStep, SaverEncodes, SaverTakes, SaverWrites, ClaimUntouched,
       selVars, hostVars, recVars

\* The desktop UI and its user, who raises a flag and clears none.
LEMMA UiUntouched ==
    ASSUME NEW u, UiStep(u) \/ UserStep(u)
    PROVE  ClaimUntouched
<1> USE DEF ClaimUntouched, selVars, hostVars, recVars
<1>1. CASE ApplyCommand(u)
  BY <1>1 DEF ApplyCommand
<1>2. CASE CloseReview(u) \/ UiLeaves(u)
  BY <1>2 DEF CloseReview, UiLeaves
<1>3. CASE UserStops(u) \/ UserAnswers(u)
  BY <1>3 DEF UserStops, UserAnswers
<1>4. CASE FlowStep(u)
  BY <1>4, FlowUntouched
<1> QED
  BY <1>1, <1>2, <1>3, <1>4 DEF UiStep, UserStep

\* SelectionWorker::stop_inner, in either pass.
LEMMA ExitUntouched ==
    ASSUME ExitBegins \/ ExitStep
    PROVE  ClaimUntouched
<1> USE DEF ClaimUntouched, selVars, hostVars, recVars
<1>1. CASE ExitBegins \/ JoinCapture \/ SetExiting \/ RaiseStop
  BY <1>1 DEF ExitBegins, JoinCapture, SetExiting, RaiseStop
<1>2. CASE JoinRecording \/ TakeSavers \/ SaversJoined
  BY <1>2 DEF JoinRecording, TakeSavers, SaversJoined
<1>3. ASSUME NEW r \in Recording, JoinSaver(r) \/ OvertakeSaver(r) PROVE ClaimUntouched
  BY <1>3 DEF JoinSaver, OvertakeSaver
<1>4. CASE JoinSelection \/ TakeHost \/ EndPass \/ ProcessEnds
  BY <1>4 DEF JoinSelection, TakeHost, EndPass, ProcessEnds
<1> QED
  BY <1>1, <1>2, <1>3, <1>4 DEF ExitStep

-----------------------------------------------------------------------------
(* What ends a recording.                                                  *)

\* A recording that has ended stays as it is; so does one without a recorder.
EndsOnce == \A s \in Recording :
    fate[s] = "none" \/ (fate'[s] = fate[s] /\ files'[s] = files[s])
Unstarted == \A s \in Recording :
    recPc[s] = "none" => recPc'[s] = "none" /\ fate'[s] = fate[s]

\* A step that settles one recording.
LEMMA OneEnds ==
    ASSUME NEW r \in Recording, fate[r] = "none", recPc[r] # "none", UNCHANGED recPc,
           \A s \in Recording : s # r => fate'[s] = fate[s] /\ files'[s] = files[s]
    PROVE  EndsOnce /\ Unstarted
BY DEF EndsOnce, Unstarted

\* RecordingHost::start, which ends what it cannot start.
LEMMA StartEnds ==
    ASSUME Typed, FreshStart, SelectionStep
    PROVE  EndsOnce
<1>1. CASE Refuse \/ NoDestination \/ SpawnFails
  <2>1. /\ starting \in Recording /\ fate[starting] = "none" /\ UNCHANGED files
        /\ \E end \in Settled : fate' = [fate EXCEPT ![starting] = end]
    BY <1>1 DEF Refuse, NoDestination, SpawnFails, FreshStart, Confirmed, Settled
  <2> QED
    BY <2>1 DEF Typed, EndTyped, EndsOnce
<1>2. CASE (\E r \in Recording : Confirm(r)) \/ Claim \/ PublishStop \/ ShowIndicator
           \/ Spawn \/ KeepJoin \/ SelectionLeaves
  BY <1>2 DEF Confirm, Claim, PublishStop, ShowIndicator, Spawn, KeepJoin, SelectionLeaves,
     EndsOnce, endVars
<1> QED
  BY <1>1, <1>2 DEF SelectionStep

\* RecordingHost::run: a recording in a file ends with its recorder's last
\* frame and is announced as it ended.
LEMMA RunEnds ==
    ASSUME Typed, NEW r \in Recording, Kept(r), RunStep(r)
    PROVE  EndsOnce /\ Unstarted
<1>0. RecTyped /\ EndTyped /\ Progress(r)
  BY DEF Typed, Kept
<1>1. PICK from \in {"record", "hide", "clearStop", "clearActive", "settle", "save",
                     "queue", "flow"},
           to \in {"hide", "clearStop", "clearActive", "settle", "save", "queue",
                   "flow", "gone"} : RecorderMoves(r, from, to)
  BY DEF RunStep, RecordingFinishes, RecordingFails, RecordingStarves, Hide, ClearStop,
     ClearActive, Settle, Announce, SaveAtExit, QueueBehind, QueueFirst, RecorderReturns
<1>2. recPc[r] = from /\ \A s \in Recording : s # r => recPc'[s] = recPc[s]
  BY <1>0, <1>1, Moved
<1>3. /\ fate[r] = "none" \/ (fate'[r] = fate[r] /\ files'[r] = files[r])
      /\ \A s \in Recording : s # r => fate'[s] = fate[s] /\ files'[s] = files[s]
  <2>1. CASE RecordingFinishes(r)
    BY <1>0, <2>1 DEF RecordingFinishes, RecorderMoves, Progress, EndTyped, endVars
  <2>2. CASE Announce(r)
    <3>1. PICK end : /\ fate' = [fate EXCEPT ![r] = end] /\ UNCHANGED files
                     /\ end = IF result[r] = "ok" THEN "saved"
                              ELSE IF result[r] = "error" THEN "failed" ELSE "starved"
      BY <2>2 DEF Announce
    <3>2. fate[r] = IF result[r] = "ok" THEN "saved" ELSE "none"
      BY <1>0, <2>2 DEF Announce, RecorderMoves, Progress, Keeping, Draft
    <3> QED
      BY <1>0, <3>1, <3>2 DEF EndTyped
  <2>3. CASE SaveAtExit(r)
    <3>1. fate[r] = "none" /\ files[r] = 0
      BY <1>0, <2>3 DEF SaveAtExit, RecorderMoves, Progress, Kept, Custody, Held, Keeping
    <3> QED
      BY <1>0, <2>3, <3>1, Written DEF SaveAtExit
  <2>4. CASE RecordingFails(r) \/ RecordingStarves(r) \/ Hide(r) \/ ClearStop(r)
             \/ ClearActive(r) \/ Settle(r) \/ QueueBehind(r) \/ QueueFirst(r)
             \/ RecorderReturns(r)
    BY <2>4 DEF RecordingFails, RecordingStarves, Hide, ClearStop, ClearActive, Settle,
       QueueBehind, QueueFirst, RecorderReturns, endVars
  <2> QED
    BY <2>1, <2>2, <2>3, <2>4 DEF RunStep
<1> QED
  BY <1>2, <1>3 DEF EndsOnce, Unstarted

\* A step that ends nothing and starts nothing.
LEMMA NoneEnds == UNCHANGED <<recPc, fate, files>> => EndsOnce /\ Unstarted
BY DEF EndsOnce, Unstarted

\* open_review and conclude_review.
LEMMA FlowEnds ==
    ASSUME Typed, ThreadsAct, \A s \in Recording : Kept(s), NEW t \in Thread, FlowStep(t)
    PROVE  EndsOnce /\ Unstarted
<1>1. UNCHANGED recPc
  BY FlowUntouched DEF ClaimUntouched
<1>2. CASE ConcludeUnchanged(t) \/ ConcludeDiscard(t) \/ NoSaver(t)
  <2>1. PICK x \in Recording : /\ x = task[t].rec /\ LetGo(x)
                               /\ fate[x] = "none" /\ files[x] = 0
    BY <1>2, TaskOf DEF ConcludeUnchanged, ConcludeDiscard, NoSaver
  <2>2. \A s \in Recording : s # x => fate'[s] = fate[s] /\ files'[s] = files[s]
    <3>1. CASE ConcludeDiscard(t)
      BY <2>1, <3>1 DEF ConcludeDiscard, Typed, EndTyped
    <3>2. CASE Writes(x, "saved")
      BY <2>1, <3>2, Written DEF Typed
    <3> QED
      BY <1>2, <2>1, <3>1, <3>2 DEF ConcludeUnchanged, NoSaver
  <2>3. recPc[x] # "none"
    BY <2>1 DEF LetGo
  <2> QED
    BY <1>1, <2>1, <2>2, <2>3, OneEnds
<1>3. CASE RequestReview(t) \/ Reclaim(t) \/ NoHostForReview(t) \/ SpawnSaver(t)
           \/ PushSaver(t) \/ NextReview(t)
  BY <1>1, <1>3, NoneEnds DEF RequestReview, Reclaim, NoHostForReview, SpawnSaver, PushSaver,
     NextReview, endVars
<1> QED
  BY <1>2, <1>3 DEF FlowStep

\* save_edited.
LEMMA SavingEnds ==
    ASSUME Typed, NEW r \in Recording, Kept(r), SaverStep(r)
    PROVE  EndsOnce /\ Unstarted
<1>1. UNCHANGED recPc
  BY SaverUntouched DEF ClaimUntouched
<1>2. CASE SaverWrites(r)
  <2>1. LetGo(r) /\ fate[r] = "none" /\ files[r] = 0
    BY <1>2, EditedOf DEF SaverWrites, Edited
  <2>2. \A s \in Recording : s # r => fate'[s] = fate[s] /\ files'[s] = files[s]
    BY <1>2, <2>1, Written DEF SaverWrites, Typed
  <2>3. recPc[r] # "none"
    BY <2>1 DEF LetGo
  <2> QED
    BY <1>1, <2>1, <2>2, <2>3, OneEnds
<1>3. CASE SaverEncodes(r) \/ SaverTakes(r)
  BY <1>1, <1>3, NoneEnds DEF SaverEncodes, SaverTakes, endVars
<1> QED
  BY <1>2, <1>3 DEF SaverStep

\* The desktop UI ends a recording only as the thread of a review.
LEMMA WindowsEnd ==
    ASSUME NEW u \in Ui, ApplyCommand(u) \/ CloseReview(u) \/ UiLeaves(u) \/ UserStep(u)
    PROVE  EndsOnce /\ Unstarted
BY NoneEnds DEF ApplyCommand, CloseReview, UiLeaves, UserStep, UserStops, UserAnswers,
   recVars, endVars

\* SelectionWorker::stop_inner saves what a saver has not taken in time.
LEMMA StoppingEnds ==
    ASSUME Typed, \A s \in Recording : Kept(s), ExitBegins \/ ExitStep
    PROVE  EndsOnce /\ Unstarted
<1>1. UNCHANGED recPc
  BY ExitUntouched DEF ClaimUntouched
<1>2. ASSUME NEW r \in Recording, OvertakeSaver(r) PROVE EndsOnce /\ Unstarted
  <2>1. CASE r \in unsaved
    <3>1. LetGo(r) /\ fate[r] = "none" /\ files[r] = 0
      BY <2>1, EditedOf DEF Edited
    <3>2. \A s \in Recording : s # r => fate'[s] = fate[s] /\ files'[s] = files[s]
      BY <1>2, <2>1, <3>1, Written DEF OvertakeSaver, Typed
    <3>3. recPc[r] # "none"
      BY <3>1 DEF LetGo
    <3> QED
      BY <1>1, <3>1, <3>2, <3>3, OneEnds
  <2>2. CASE r \notin unsaved
    BY <1>1, <1>2, <2>2, NoneEnds DEF OvertakeSaver, endVars
  <2> QED
    BY <2>1, <2>2
<1>3. CASE ExitBegins \/ JoinCapture \/ SetExiting \/ RaiseStop \/ JoinRecording
           \/ TakeSavers \/ SaversJoined \/ JoinSelection \/ TakeHost \/ EndPass
           \/ ProcessEnds \/ (\E r \in Recording : JoinSaver(r))
  BY <1>1, <1>3, NoneEnds DEF ExitBegins, JoinCapture, SetExiting, RaiseStop, JoinRecording,
     TakeSavers, SaversJoined, JoinSelection, TakeHost, EndPass, ProcessEnds, JoinSaver, endVars
<1> QED
  BY <1>2, <1>3 DEF ExitStep

\* The request the selection thread holds is nobody else's business.
LEMMA FreshStays ==
    ASSUME FreshStart, UNCHANGED selVars, Unstarted
    PROVE  FreshStart'
BY DEF FreshStart, Unstarted, selVars, Confirmed

\* The claim, the request and the ends, whatever the step.
LEMMA ClaimIsKept ==
    ASSUME IInv, [Next]_vars
    PROVE  OneClaim' /\ FreshStart' /\ EndsOnce
<1>0. /\ Typed /\ OneClaim /\ FreshStart /\ ThreadsAct /\ \A r \in Recording : Kept(r)
      /\ Recording \subseteq Thread /\ Ui \subseteq Thread
  BY ThreadsOf DEF IInv
<1>1. ASSUME ClaimUntouched, EndsOnce, Unstarted PROVE OneClaim' /\ FreshStart' /\ EndsOnce
  BY <1>0, <1>1, ClaimStays, FreshStays DEF ClaimUntouched
<1>2. CASE SelectionStep
  BY <1>0, <1>2, StartKeepsClaim, StartKeepsFresh, StartEnds
<1>3. ASSUME NEW r \in Recording, RunStep(r) PROVE OneClaim' /\ FreshStart' /\ EndsOnce
  <2>1. OneClaim' /\ EndsOnce /\ Unstarted
    BY <1>0, <1>3, RunKeepsClaim, RunEnds
  <2>2. UNCHANGED selVars
    BY <1>3 DEF RunStep, RecordingFinishes, RecordingFails, RecordingStarves, Hide, ClearStop,
       ClearActive, Settle, Announce, SaveAtExit, QueueBehind, QueueFirst, RecorderReturns
  <2> QED
    BY <1>0, <2>1, <2>2, FreshStays
<1>4. ASSUME NEW t \in Thread, FlowStep(t) PROVE OneClaim' /\ FreshStart' /\ EndsOnce
  BY <1>0, <1>1, <1>4, FlowUntouched, FlowEnds
<1>5. ASSUME NEW r \in Recording, SaverStep(r) PROVE OneClaim' /\ FreshStart' /\ EndsOnce
  BY <1>0, <1>1, <1>5, SaverUntouched, SavingEnds
<1>6. ASSUME NEW u \in Ui, UiStep(u) \/ UserStep(u)
      PROVE  OneClaim' /\ FreshStart' /\ EndsOnce
  <2>1. CASE FlowStep(u)
    BY <1>0, <1>4, <2>1
  <2>2. CASE ApplyCommand(u) \/ CloseReview(u) \/ UiLeaves(u) \/ UserStep(u)
    <3>1. ClaimUntouched
      BY <2>2, UiUntouched DEF UiStep
    <3> QED
      BY <1>1, <2>2, <3>1, WindowsEnd
  <2> QED
    BY <1>6, <2>1, <2>2 DEF UiStep
<1>7. CASE ExitBegins \/ ExitStep
  BY <1>0, <1>1, <1>7, ExitUntouched, StoppingEnds
<1>8. CASE UNCHANGED vars
  <2>1. ClaimUntouched /\ UNCHANGED <<recPc, fate, files>>
    BY <1>8 DEF vars, ClaimUntouched, hostVars, recVars, endVars
  <2> QED
    BY <1>1, <2>1, NoneEnds
<1> QED
  BY <1>0, <1>2, <1>3, <1>4, <1>5, <1>6, <1>7, <1>8 DEF Next, RunNext, RecorderStep, RunStep

-----------------------------------------------------------------------------
(* The threads keep acting.                                                *)

Acting == ThreadsAct /\ ReviewGoesOn /\ SaversAreKnown

\* RecordingHost::start, which may start a UI thread.
LEMMA StartActs ==
    ASSUME Typed, FreshStart, Acting, SelectionStep
    PROVE  Acting'
<1>1. UNCHANGED <<reviewVars, saverVars, task, shared, exitPc, taken>>
  BY DEF SelectionStep, Confirm, Refuse, Claim, NoDestination, PublishStop, ShowIndicator,
     Spawn, KeepJoin, SpawnFails, SelectionLeaves, exitVars
<1>2. ReviewGoesOn' /\ SaversAreKnown'
  BY <1>1 DEF Acting, ReviewGoesOn, SaversAreKnown, reviewVars, saverVars
<1>3. \A r \in Recording : recPc[r] = "flow" => recPc'[r] = "flow"
  <2>1. CASE Spawn
    BY <2>1 DEF Spawn, FreshStart, Confirmed, Typed, RecTyped
  <2>2. CASE ~Spawn
    BY <2>2 DEF SelectionStep, Confirm, Refuse, Claim, NoDestination, PublishStop,
       ShowIndicator, KeepJoin, SpawnFails, SelectionLeaves, recVars
  <2> QED
    BY <2>1, <2>2
<1>4. (\A u \in Ui : UiAlive(u) => UiAlive(u)') /\ (host' # None => uiPc'[host'] = "running")
  <2>1. CASE ShowIndicator
    BY <2>1 DEF ShowIndicator, Acting, ThreadsAct, UiAlive, Typed, UiTyped
  <2>2. CASE ~ShowIndicator
    <3>1. UNCHANGED <<host, uiPc>>
      BY <2>2 DEF SelectionStep, Confirm, Refuse, Claim, NoDestination, PublishStop,
         Spawn, KeepJoin, SpawnFails, SelectionLeaves, HideIndicator, uiVars
    <3> QED
      BY <3>1 DEF Acting, ThreadsAct, UiAlive
  <2> QED
    BY <2>1, <2>2
<1>5. ThreadsAct'
  BY <1>1, <1>3, <1>4 DEF Acting, ThreadsAct
<1> QED
  BY <1>2, <1>5 DEF Acting

\* RecordingHost::run, which takes up a review when there is none.
LEMMA RunActs ==
    ASSUME Typed, Acting, NEW r \in Recording, RunStep(r)
    PROVE  Acting'
<1>0. /\ RecTyped /\ TaskTyped /\ r \in Thread /\ r \notin Ui
      /\ ThreadsAct /\ ReviewGoesOn /\ SaversAreKnown
  BY NoneAssumption DEF Typed, Acting, Thread
<1>1. PICK from \in {"record", "hide", "clearStop", "clearActive", "settle", "save",
                     "queue", "flow"},
           to \in {"hide", "clearStop", "clearActive", "settle", "save", "queue",
                   "flow", "gone"} :
         /\ RecorderMoves(r, from, to)
         /\ from = "flow" => task[r].do = "idle"
  BY DEF RunStep, RecordingFinishes, RecordingFails, RecordingStarves, Hide, ClearStop,
     ClearActive, Settle, Announce, SaveAtExit, QueueBehind, QueueFirst, RecorderReturns
<1>2. /\ recPc[r] = from /\ recPc'[r] = to /\ task[r].do = "idle"
      /\ \A s \in Recording : s # r => recPc'[s] = recPc[s]
  <2>1. /\ recPc[r] = from /\ recPc'[r] = to
        /\ \A s \in Recording : s # r => recPc'[s] = recPc[s]
    BY <1>0, <1>1, Moved
  <2> QED
    BY <1>0, <1>1, <2>1 DEF ThreadsAct
<1>3. UNCHANGED <<saverVars, shared, host, uiPc, exitPc, taken>>
  BY DEF RunStep, RecordingFinishes, RecordingFails, RecordingStarves, Hide, ClearStop,
     ClearActive, Settle, Announce, SaveAtExit, QueueBehind, QueueFirst, RecorderReturns,
     HideIndicator, uiVars, exitVars
<1>4. CASE QueueFirst(r)
  <2>1. /\ task'[r] = Do("open", r, "none") /\ recPc'[r] = "flow"
        /\ \A v \in Thread : v # r => task'[v] = task[v]
        /\ waiting' = waiting /\ reviewOpen' = TRUE
    BY <1>0, <1>4, Moved DEF QueueFirst, TaskTyped
  <2>2. ThreadsAct'
    BY <1>0, <1>2, <1>3, <2>1 DEF ThreadsAct, UiAlive, Thread, Do
  <2>3. ReviewGoesOn'
    BY <1>0, <2>1 DEF ReviewGoesOn, Do
  <2>4. SaversAreKnown'
    BY <1>0, <1>2, <1>3, <2>1 DEF SaversAreKnown, saverVars
  <2> QED
    BY <2>2, <2>3, <2>4 DEF Acting
<1>5. CASE ~QueueFirst(r)
  <2>1. UNCHANGED <<task, reviewOpen>> /\ (waiting' = waiting \/ reviewOpen)
    BY <1>5 DEF RunStep, RecordingFinishes, RecordingFails, RecordingStarves, Hide, ClearStop,
       ClearActive, Settle, Announce, SaveAtExit, QueueBehind, RecorderReturns, reviewVars
  <2>2. ThreadsAct'
    BY <1>0, <1>2, <1>3, <2>1 DEF ThreadsAct, UiAlive
  <2>3. ReviewGoesOn'
    BY <1>0, <1>3, <2>1 DEF ReviewGoesOn
  <2>4. SaversAreKnown'
    BY <1>0, <1>3, <2>1 DEF SaversAreKnown, saverVars
  <2> QED
    BY <2>2, <2>3, <2>4 DEF Acting
<1> QED
  BY <1>4, <1>5

\* A thread that is at work on a review goes on with it.
LEMMA ThreadActs ==
    ASSUME ThreadsAct, NEW t \in Thread, task[t].do # "idle",
           \A v \in Thread : v # t => task'[v] = task[v],
           UNCHANGED <<recPc, host, uiPc>>,
           task'[t].do \in {"open", "reclaim", "conclude", "push"} => task'[t].rec \in Recording
    PROVE  ThreadsAct'
<1>1. \A v \in Thread : task'[v].do # "idle" => task[v].do # "idle"
  OBVIOUS
<1> QED
  BY <1>1, ThreadsOf DEF ThreadsAct, UiAlive

\* open_review and conclude_review.
LEMMA FlowActs ==
    ASSUME Typed, Acting, \A s \in Recording : Kept(s), NEW t \in Thread, FlowStep(t)
    PROVE  Acting'
<1>0. /\ ReviewTyped /\ SaverTyped /\ TaskTyped /\ "closed" \in Answer
      /\ ThreadsAct /\ ReviewGoesOn /\ SaversAreKnown
  BY DEF Typed, Acting, Answer
<1>1. /\ UNCHANGED <<recPc, host, uiPc, exitPc, taken>> /\ task[t].do # "idle"
  BY DEF FlowStep, RequestReview, Reclaim, NoHostForReview, ConcludeUnchanged, ConcludeDiscard,
     SpawnSaver, NoSaver, PushSaver, NextReview, recVars, uiVars, exitVars
<1>2. PICK job \in Job :
         /\ Becomes(t, job)
         /\ job.do \in {"open", "reclaim", "conclude", "push"} => job.rec \in Recording
  <2>1. task[t].do \in {"open", "reclaim", "conclude", "push"} => task[t].rec \in Recording
    BY <1>0 DEF ThreadsAct
  <2>2. waiting # <<>> => Head(waiting) \in Recording
    BY <1>0, TailHas DEF ReviewTyped
  <2>3. /\ Idle \in Job /\ Idle.do = "idle"
        /\ GoOn(t) \in Job /\ GoOn(t).do = "next"
    BY <1>0, Jobs DEF Idle, GoOn, Do
  <2>4. \A x \in Recording : /\ Do("open", x, "none") \in Job /\ Do("open", x, "none").rec = x
                             /\ Do("reclaim", x, "none") \in Job
                             /\ Do("reclaim", x, "none").rec = x
                             /\ Do("push", x, "edit") \in Job /\ Do("push", x, "edit").rec = x
                             /\ Do("conclude", x, "closed") \in Job
                             /\ Do("conclude", x, "closed").rec = x
    BY <1>0, Jobs DEF Do
  <2>5. CASE RequestReview(t) \/ Reclaim(t) \/ NoHostForReview(t) \/ SpawnSaver(t)
    BY <2>1, <2>3, <2>4, <2>5 DEF RequestReview, Reclaim, NoHostForReview, SpawnSaver
  <2>6. CASE ConcludeUnchanged(t) \/ ConcludeDiscard(t) \/ NoSaver(t) \/ PushSaver(t)
    BY <2>3, <2>6 DEF ConcludeUnchanged, ConcludeDiscard, NoSaver, PushSaver
  <2>7. CASE NextReview(t)
    BY <2>2, <2>3, <2>4, <2>7 DEF NextReview
  <2> QED
    BY <2>5, <2>6, <2>7 DEF FlowStep
<1>3. task'[t] = job /\ \A v \in Thread : v # t => task'[v] = task[v]
  BY <1>0, <1>2, Became
<1>4. ThreadsAct'
  BY <1>0, <1>1, <1>2, <1>3, ThreadActs
<1>5. ReviewGoesOn'
  <2>1. CASE task'[t].do \in {"open", "conclude", "push", "next"} /\ (waiting # <<>> => reviewOpen')
             /\ (waiting' # <<>> => waiting # <<>>)
    BY <2>1 DEF ReviewGoesOn
  <2>2. UNCHANGED reviewVars => (waiting # <<>> => reviewOpen') /\ (waiting' # <<>> => waiting # <<>>)
    BY <1>0 DEF ReviewGoesOn, reviewVars
  <2>3. CASE NoHostForReview(t) \/ ConcludeUnchanged(t) \/ ConcludeDiscard(t) \/ SpawnSaver(t)
             \/ NoSaver(t) \/ PushSaver(t)
    <3>1. UNCHANGED reviewVars
      BY <2>3 DEF NoHostForReview, ConcludeUnchanged, ConcludeDiscard, SpawnSaver, NoSaver,
         PushSaver
    <3>2. task'[t].do \in {"conclude", "push", "next"}
      BY <1>0, <2>3 DEF NoHostForReview, ConcludeUnchanged, ConcludeDiscard, SpawnSaver, NoSaver,
         PushSaver, Becomes, TaskTyped, GoOn, Do
    <3> QED
      BY <2>1, <2>2, <3>1, <3>2
  <2>4. CASE RequestReview(t)
    BY <1>0, <2>4 DEF RequestReview, ReviewGoesOn, reviewVars
  <2>5. CASE Reclaim(t)
    <3>1. UNCHANGED reviewVars /\ task[t].do = "reclaim"
      BY <2>5 DEF Reclaim
    <3>2. CASE task[t].rec \in shared
      <4>1. task'[t].do = "conclude"
        BY <1>0, <2>5, <3>2 DEF Reclaim, Becomes, TaskTyped, Do
      <4> QED
        BY <2>1, <2>2, <3>1, <4>1
    <3>3. CASE task[t].rec \notin shared
      <4>1. shared' = shared
        BY <2>5, <3>3 DEF Reclaim
      <4> QED
        BY <1>0, <1>3, <3>1, <4>1 DEF ReviewGoesOn, reviewVars
    <3> QED
      BY <3>2, <3>3
  <2>6. CASE NextReview(t) /\ waiting = <<>>
    BY <2>6 DEF NextReview, ReviewGoesOn
  <2>7. CASE NextReview(t) /\ waiting # <<>>
    <3>1. reviewOpen' /\ task'[t].do \in {"open", "conclude"}
      BY <1>0, <2>7 DEF NextReview, Becomes, TaskTyped, Do
    <3> QED
      BY <2>1, <2>7, <3>1
  <2> QED
    BY <2>3, <2>4, <2>5, <2>6, <2>7 DEF FlowStep
<1>6. SaversAreKnown'
  <2>1. CASE SpawnSaver(t)
    <3>1. PICK x \in Recording : x = task[t].rec
      BY <1>0, <2>1 DEF SpawnSaver, ThreadsAct
    <3>2. /\ unsaved' = unsaved \cup {x} /\ savers' = savers
          /\ saverPc'[x] = "encode" /\ \A s \in Recording : s # x => saverPc'[s] = saverPc[s]
          /\ task[t].do = "conclude" /\ task'[t].do = "push" /\ task'[t].rec = x
      BY <1>0, <2>1, <3>1 DEF SpawnSaver, SaverTyped, Becomes, TaskTyped, Do
    <3>3. /\ \A s \in unsaved : saverPc[s] \in {"encode", "take"} /\ s \in Recording
          /\ \A s \in unsaved : \/ s \in savers \cup taken
                                \/ \E v \in Thread : task[v].do = "push" /\ task[v].rec = s
      BY <1>0 DEF SaversAreKnown, SaverTyped
    <3>4. \A s \in unsaved' : saverPc'[s] \in {"encode", "take"}
      BY <3>2, <3>3
    <3>5. ASSUME NEW s \in unsaved'
          PROVE  \/ s \in savers \cup taken
                 \/ \E v \in Thread : task'[v].do = "push" /\ task'[v].rec = s
      <4>1. CASE s = x
        BY <3>2, <4>1
      <4>2. CASE s # x
        <5>1. s \in unsaved
          BY <3>2, <4>2
        <5>2. ASSUME NEW v \in Thread, task[v].do = "push", task[v].rec = s
              PROVE  task'[v].do = "push" /\ task'[v].rec = s
          <6>1. v # t
            BY <3>2, <5>2
          <6> QED
            BY <1>3, <5>2, <6>1
        <5> QED
          BY <3>3, <5>1, <5>2
      <4> QED
        BY <4>1, <4>2
    <3>6. taken' # {} => exitPc' = "joinSavers"
      BY <1>0, <1>1 DEF SaversAreKnown
    <3> QED
      BY <1>1, <3>2, <3>4, <3>5, <3>6 DEF SaversAreKnown
  <2>2. CASE PushSaver(t)
    <3>1. /\ UNCHANGED <<unsaved, saverPc>> /\ unsaved \subseteq Recording
          /\ savers' = {s \in savers : saverPc[s] # "gone"} \cup {task[t].rec}
      BY <1>0, <2>2 DEF PushSaver, SaverTyped
    <3>2. \A s \in unsaved, v \in Thread :
            v # t /\ task[v].do = "push" /\ task[v].rec = s =>
              task'[v].do = "push" /\ task'[v].rec = s
      BY <1>3
    <3> QED
      BY <1>0, <1>1, <3>1, <3>2 DEF SaversAreKnown
  <2>3. CASE RequestReview(t) \/ Reclaim(t) \/ NoHostForReview(t) \/ ConcludeUnchanged(t)
             \/ ConcludeDiscard(t) \/ NoSaver(t) \/ NextReview(t)
    <3>1. UNCHANGED saverVars /\ task[t].do # "push"
      BY <2>3 DEF RequestReview, Reclaim, NoHostForReview, ConcludeUnchanged, ConcludeDiscard,
         NoSaver, NextReview
    <3>2. \A v \in Thread : task[v].do = "push" => task'[v] = task[v]
      BY <1>3, <3>1
    <3> QED
      BY <1>0, <1>1, <3>1, <3>2 DEF SaversAreKnown, saverVars
  <2> QED
    BY <2>1, <2>2, <2>3 DEF FlowStep
<1> QED
  BY <1>4, <1>5, <1>6 DEF Acting

\* save_edited: a saver that has its draft is no longer asked for it.
LEMMA SavingActs ==
    ASSUME Typed, Acting, NEW r \in Recording, SaverStep(r)
    PROVE  Acting'
<1>0. SaverTyped /\ ThreadsAct /\ ReviewGoesOn /\ SaversAreKnown
  BY DEF Typed, Acting
<1>1. UNCHANGED <<task, recPc, host, uiPc, reviewVars, shared, savers, exitPc, taken>>
  BY DEF SaverStep, SaverEncodes, SaverTakes, SaverWrites, recVars, uiVars, exitVars
<1>2. /\ unsaved' \subseteq unsaved /\ unsaved \subseteq Recording
      /\ \A s \in unsaved' : saverPc'[s] \in {"encode", "take"}
  <2>1. \A s \in unsaved : s \in Recording /\ saverPc[s] \in {"encode", "take"}
    BY <1>0 DEF SaversAreKnown, SaverTyped
  <2>2. CASE SaverEncodes(r)
    BY <1>0, <2>1, <2>2 DEF SaverEncodes, SaverTyped
  <2>3. CASE SaverTakes(r)
    BY <1>0, <2>1, <2>3 DEF SaverTakes, SaverTyped
  <2>4. CASE SaverWrites(r)
    BY <1>0, <2>1, <2>4 DEF SaverWrites, SaverTyped
  <2> QED
    BY <2>2, <2>3, <2>4 DEF SaverStep
<1>3. ThreadsAct' /\ ReviewGoesOn'
  BY <1>0, <1>1 DEF ThreadsAct, ReviewGoesOn, UiAlive, reviewVars
<1>4. SaversAreKnown'
  BY <1>0, <1>1, <1>2 DEF SaversAreKnown
<1> QED
  BY <1>3, <1>4 DEF Acting

\* The desktop UI thread and the person at it.
LEMMA WindowsAct ==
    ASSUME Typed, Acting, NEW u \in Ui,
           ApplyCommand(u) \/ CloseReview(u) \/ UiLeaves(u) \/ UserStep(u)
    PROVE  Acting'
<1>0. /\ TaskTyped /\ UiTyped /\ u \in Thread /\ u \notin Recording
      /\ ThreadsAct /\ ReviewGoesOn /\ SaversAreKnown
  BY NoneAssumption DEF Typed, Acting, Thread
<1>1. UNCHANGED <<recPc, host, reviewVars, saverVars, exitPc, taken>>
  BY DEF ApplyCommand, CloseReview, UiLeaves, UserStep, UserStops, UserAnswers, recVars, uiVars,
     exitVars
<1>2. ASSUME UiFree(u), UNCHANGED uiPc, NEW r \in Recording, NEW a \in Answer,
             shared' = shared \ {r},
             IF r \in shared THEN Becomes(u, Do("conclude", r, a)) ELSE UNCHANGED task
      PROVE  Acting'
  <2>1. CASE r \in shared
    <3>1. /\ task'[u].do = "conclude" /\ task'[u].rec = r /\ task[u].do = "idle"
          /\ UiAlive(u) /\ \A v \in Thread : v # u => task'[v] = task[v]
      BY <1>0, <1>2, <2>1 DEF Becomes, TaskTyped, Do, UiFree, UiAlive
    <3>2. ThreadsAct'
      BY <1>0, <1>1, <1>2, <3>1 DEF ThreadsAct, UiAlive, Thread
    <3>3. ReviewGoesOn'
      BY <1>0, <1>1, <3>1 DEF ReviewGoesOn, reviewVars
    <3>4. SaversAreKnown'
      BY <1>0, <1>1, <3>1 DEF SaversAreKnown, saverVars
    <3> QED
      BY <3>2, <3>3, <3>4 DEF Acting
  <2>2. CASE r \notin shared
    <3>1. UNCHANGED <<task, shared>>
      BY <1>2, <2>2
    <3> QED
      BY <1>0, <1>1, <1>2, <3>1 DEF Acting, ThreadsAct, ReviewGoesOn, SaversAreKnown, UiAlive,
         reviewVars, saverVars
  <2> QED
    BY <2>1, <2>2
<1>3. CASE UNCHANGED <<task, shared, uiPc>>
  BY <1>0, <1>1, <1>3 DEF Acting, ThreadsAct, ReviewGoesOn, SaversAreKnown, UiAlive,
     reviewVars, saverVars
<1>4. CASE ApplyCommand(u)
  <2>1. PICK r \in Recording : r = Head(uiQueue[u]).rec
    <3>1. Head(uiQueue[u]) \in Order
      BY <1>0, <1>4, Applied
    <3> QED
      BY <3>1 DEF Order
  <2>2. UNCHANGED uiPc /\ UiFree(u) /\ "failed" \in Answer
    BY <1>4 DEF ApplyCommand, Answer
  <2>3. \/ UNCHANGED <<shared, task>>
        \/ /\ shared' = shared \ {r}
           /\ IF r \in shared THEN Becomes(u, Do("conclude", r, "failed")) ELSE UNCHANGED task
    BY <1>4, <2>1 DEF ApplyCommand
  <2> QED
    BY <1>2, <1>3, <2>2, <2>3
<1>5. CASE CloseReview(u) \/ UserAnswers(u)
  <2>1. PICK r \in windows[u], a \in Answer : Answers(u, r, a)
    BY <1>5 DEF CloseReview, UserAnswers, Answer
  <2>2. UNCHANGED uiPc /\ UiFree(u) /\ r \in Recording
    BY <1>0, <1>5 DEF CloseReview, UserAnswers, UiTyped
  <2> QED
    BY <1>2, <2>1, <2>2 DEF Answers
<1>6. CASE UiLeaves(u)
  <2>1. /\ UNCHANGED <<task, shared>> /\ task[u].do = "idle" /\ uiPc[u] = "stopping"
        /\ \A v \in Ui : v # u => uiPc'[v] = uiPc[v]
    BY <1>0, <1>6 DEF UiLeaves, UiFree, UiTyped
  <2>2. ThreadsAct'
    BY <1>0, <1>1, <2>1 DEF ThreadsAct, UiAlive, UiTyped
  <2> QED
    BY <1>0, <1>1, <2>1, <2>2 DEF Acting, ReviewGoesOn, SaversAreKnown, reviewVars, saverVars
<1>7. CASE UserStops(u)
  BY <1>3, <1>7 DEF UserStops, uiVars
<1> QED
  BY <1>4, <1>5, <1>6, <1>7 DEF UserStep

\* SelectionWorker::stop_inner, which takes the savers to wait for them.
LEMMA StoppingActs ==
    ASSUME Typed, Acting, ExitBegins \/ ExitStep
    PROVE  Acting'
<1>0. SaverTyped /\ UiTyped /\ ThreadsAct /\ ReviewGoesOn /\ SaversAreKnown
  BY DEF Typed, Acting
<1>1. UNCHANGED <<recPc, task, shared, reviewVars, saverPc>>
  BY DEF ExitBegins, ExitStep, JoinCapture, SetExiting, RaiseStop, JoinRecording, TakeSavers,
     JoinSaver, OvertakeSaver, SaversJoined, JoinSelection, TakeHost, EndPass, ProcessEnds,
     recVars, saverVars
<1>2. ReviewGoesOn'
  BY <1>0, <1>1 DEF ReviewGoesOn, reviewVars
<1>3. ThreadsAct'
  <2>1. CASE TakeHost
    <3>1. /\ host' = None /\ \A v \in Ui : UiAlive(v)' <=> UiAlive(v)
      BY <1>0, <2>1 DEF TakeHost, UiTyped, UiAlive, ThreadsAct
    <3> QED
      BY <1>0, <1>1, <3>1 DEF ThreadsAct
  <2>2. CASE ~TakeHost
    <3>1. UNCHANGED <<host, uiPc>>
      BY <2>2 DEF ExitBegins, ExitStep, JoinCapture, SetExiting, RaiseStop, JoinRecording,
         TakeSavers, JoinSaver, OvertakeSaver, SaversJoined, JoinSelection, EndPass,
         ProcessEnds, uiVars
    <3> QED
      BY <1>0, <1>1, <3>1 DEF ThreadsAct, UiAlive
  <2> QED
    BY <2>1, <2>2
<1>4. SaversAreKnown'
  <2>1. CASE TakeSavers
    <3>1. /\ UNCHANGED unsaved /\ taken' = savers /\ exitPc' = "joinSavers" /\ taken = {}
      BY <1>0, <2>1 DEF TakeSavers, ExitMoves, SaversAreKnown
    <3> QED
      BY <1>0, <1>1, <3>1 DEF SaversAreKnown
  <2>2. ASSUME NEW r \in Recording, JoinSaver(r) PROVE SaversAreKnown'
    <3>1. /\ UNCHANGED <<unsaved, savers, exitPc>> /\ taken' = taken \ {r} /\ saverPc[r] = "gone"
      BY <2>2 DEF JoinSaver, saverVars
    <3> QED
      BY <1>0, <1>1, <3>1 DEF SaversAreKnown
  <2>3. ASSUME NEW r \in Recording, OvertakeSaver(r) PROVE SaversAreKnown'
    <3>1. UNCHANGED <<savers, exitPc>> /\ taken' = taken \ {r} /\ unsaved' = unsaved \ {r}
      BY <2>3 DEF OvertakeSaver
    <3> QED
      BY <1>0, <1>1, <3>1 DEF SaversAreKnown
  <2>4. CASE ExitBegins \/ JoinCapture \/ SetExiting \/ RaiseStop \/ JoinRecording
             \/ SaversJoined \/ JoinSelection \/ TakeHost \/ EndPass \/ ProcessEnds
    <3>1. UNCHANGED <<unsaved, savers, taken>> /\ taken = {}
      BY <1>0, <2>4 DEF ExitBegins, JoinCapture, SetExiting, RaiseStop, JoinRecording,
         SaversJoined, JoinSelection, TakeHost, EndPass, ProcessEnds, ExitMoves, SaversAreKnown,
         saverVars, exitVars
    <3> QED
      BY <1>0, <1>1, <3>1 DEF SaversAreKnown
  <2> QED
    BY <2>1, <2>2, <2>3, <2>4 DEF ExitStep
<1> QED
  BY <1>2, <1>3, <1>4 DEF Acting

\* Every step leaves every thread at work that has something to do.
LEMMA ActingIsKept == ASSUME IInv, [Next]_vars PROVE Acting'
<1>0. Typed /\ FreshStart /\ Acting /\ \A r \in Recording : Kept(r)
  BY DEF IInv, Acting
<1>1. CASE SelectionStep
  BY <1>0, <1>1, StartActs
<1>2. ASSUME NEW r \in Recording, RecorderStep(r) PROVE Acting'
  BY <1>0, <1>2, RunActs, FlowActs, ThreadsOf DEF RecorderStep, RunStep
<1>3. ASSUME NEW r \in Recording, SaverStep(r) PROVE Acting'
  BY <1>0, <1>3, SavingActs
<1>4. ASSUME NEW u \in Ui, UiStep(u) \/ UserStep(u) PROVE Acting'
  BY <1>0, <1>4, WindowsAct, FlowActs, ThreadsOf DEF UiStep
<1>5. CASE ExitBegins \/ ExitStep
  BY <1>0, <1>5, StoppingActs
<1>6. CASE UNCHANGED vars
  BY <1>0, <1>6 DEF vars, Acting, ThreadsAct, ReviewGoesOn, SaversAreKnown, UiAlive, recVars,
     reviewVars, saverVars, uiVars, exitVars
<1> QED
  BY <1>1, <1>2, <1>3, <1>4, <1>5, <1>6 DEF Next, RunNext

-----------------------------------------------------------------------------
(* Theorems.                                                               *)

\* The daemon starts with nothing claimed and nothing recorded.
LEMMA InitialState == Init => IInv
<1> SUFFICES ASSUME Init PROVE IInv
  OBVIOUS
<1>1. Typed
  <2>1. SelTyped /\ HostTyped /\ RecTyped /\ SaverTyped
    BY DEF Init, SelTyped, HostTyped, RecTyped, SaverTyped
  <2>2. ReviewTyped /\ UiTyped /\ SharedTyped
    <3>1. <<>> \in Seq(Recording) /\ <<>> \in Seq(Order)
      OBVIOUS
    <3>2. uiQueue \in [Ui -> Seq(Order)]
      BY <3>1 DEF Init
    <3> QED
      BY <3>1, <3>2 DEF Init, ReviewTyped, UiTyped, SharedTyped
  <2>3. TaskTyped
    BY DEF Init, TaskTyped, Idle, Job
  <2>4. EndTyped /\ ExitTyped
    BY DEF Init, EndTyped, ExitTyped
  <2> QED
    BY <2>1, <2>2, <2>3, <2>4 DEF Typed
<1>2. OneClaim /\ FreshStart
  BY DEF Init, OneClaim, FreshStart, Claiming, Recorder, Confirmed
<1>3. ASSUME NEW r \in Recording PROVE Kept(r)
  <2>1. /\ recPc[r] = "none" /\ result[r] = "none" /\ fate[r] = "none" /\ files[r] = 0
        /\ r \notin inMemory /\ r \notin shared /\ r \notin unsaved /\ saverPc[r] # "write"
        /\ ~Waits(r) /\ \A u \in Ui : ~RequestedAt(u, r)
    BY DEF Init, Waits, Has, RequestedAt
  <2>2. \A t \in Thread : ~Tasked(r, t) /\ ~Opened(r, t)
    BY DEF Init, Tasked, Opened, Idle
  <2>3. ~Elsewhere(r) /\ ~Draft(r) /\ ~Keeping(r) /\ ~LetGo(r)
    BY <2>1, <2>2 DEF Elsewhere, Edited, Draft, Keeping, LetGo
  <2> QED
    BY <2>1, <2>2, <2>3 DEF Kept, Progress, Custody, Apart, AskedOnce, Later, Held
<1>4. Once(waiting)
  BY DEF Init, Once
<1>5. ThreadsAct /\ ReviewGoesOn /\ SaversAreKnown
  BY DEF Init, ThreadsAct, ReviewGoesOn, SaversAreKnown, Idle, Thread
<1> QED
  BY <1>1, <1>2, <1>3, <1>4, <1>5 DEF IInv

\* Every step of the daemon keeps the invariant.
LEMMA IInvIsKept == ASSUME IInv, [Next]_vars PROVE IInv'
BY TypedIsKept, ClaimIsKept, KeptIsKept, ActingIsKept DEF IInv, Acting

\* From Record to its file, in every reachable state: the claim on recording
\* has one owner; a recording is with its recorder or with at most one of the
\* threads and queues it is passed between; and those threads go on.
THEOREM CustodyAlways == Spec => []IInv
<1>1. Init => IInv
  BY InitialState
<1>2. IInv /\ [Next]_vars => IInv'
  BY IInvIsKept
<1> QED
  BY <1>1, <1>2, PTL DEF Spec

\* Every variable of the daemon stays in its range.
THEOREM TypeCorrect == Spec => []TypeOK
<1>1. IInv => TypeOK
  BY TypedIsTypeOK DEF IInv
<1> QED
  BY <1>1, CustodyAlways, PTL

\* Two recordings never run at once, and HostInner::stop is the flag of the
\* one that runs: what exit raises stops it.
THEOREM OneRecorderAlways == Spec => []OneRecorder
<1>1. IInv => OneRecorder
  BY DEF IInv, OneClaim, OneRecorder, Claiming
<1> QED
  BY <1>1, CustodyAlways, PTL

\* No order of answers, stops, failed requests and late savers settles a
\* recording a second time or writes a second file for it.
THEOREM SettledOnceAlways == Spec => SettledOnce
<1>1. IInv /\ [Next]_vars =>
        [\A r \in Recording :
            /\ fate[r] \in Settled => fate'[r] = fate[r]
            /\ files[r] = 1 => files'[r] = 1]_vars
  <2> SUFFICES ASSUME IInv, [Next]_vars, NEW r \in Recording
               PROVE  /\ fate[r] \in Settled => fate'[r] = fate[r]
                      /\ files[r] = 1 => files'[r] = 1
    OBVIOUS
  <2>1. fate[r] = "none" \/ (fate'[r] = fate[r] /\ files'[r] = files[r])
    BY ClaimIsKept DEF EndsOnce
  <2>2. fate[r] = "none" => files[r] = 0
    BY DEF IInv, Kept, Progress
  <2>3. "none" \notin Settled
    BY DEF Settled
  <2> QED
    BY <2>1, <2>2, <2>3
<1> QED
  BY <1>1, CustodyAlways, PTL DEF Spec, SettledOnce

\* What a process that ends leaves unsettled was in the hands of a thread
\* that still ran, or of a saver exit never waited for.
THEOREM OnlyUnfinishedIsLostAlways == Spec => []OnlyUnfinishedIsLost
<1>1. IInv => OnlyUnfinishedIsLost
  <2> SUFFICES ASSUME IInv, exitPc = "ended", NEW r \in Recording,
                      recPc[r] # "none", fate[r] = "none",
                      \A s \in Recording : recPc[s] \in {"none", "gone"},
                      \A u \in Ui : ~UiAlive(u)
               PROVE  saverPc[r] = "write" \/ r \in savers
    BY DEF OnlyUnfinishedIsLost
  <2>1. /\ Kept(r) /\ Acting /\ recPc[r] = "gone"
    BY DEF IInv, Acting
  <2>2. \A t \in Thread : task[t].do = "idle"
    BY <2>1 DEF Acting, ThreadsAct, Thread
  <2>3. Elsewhere(r)
    BY <2>1 DEF Kept, Progress, Custody, Held, LetGo, Keeping
  <2>4. r \notin shared
    BY <2>1 DEF Kept, Custody, AskedOnce
  <2>5. \A s \in Recording : s \notin shared
    BY DEF IInv, Kept, Custody, AskedOnce
  <2>6. shared = {}
    BY <2>5 DEF IInv, Typed, SharedTyped
  <2>7. ~Waits(r)
    BY <2>1, <2>2, <2>6, NothingWaits DEF Acting, ReviewGoesOn
  <2>8. Edited(r)
    BY <2>2, <2>3, <2>4, <2>7 DEF Elsewhere, Tasked
  <2>9. taken = {}
    BY <2>1 DEF Acting, SaversAreKnown
  <2> QED
    BY <2>1, <2>2, <2>8, <2>9 DEF Edited, Acting, SaversAreKnown
<1> QED
  BY <1>1, CustodyAlways, PTL

\* Who holds a draft: its recorder, a task, its place in the line, the UI
\* thread its review was asked of, its saver.
LEMMA HoldersAre ==
    ASSUME IInv, NEW r \in Recording
    PROVE  \A x : x \in Holders(r) <=>
             \/ Keeping(r) /\ x = <<"recorder", r>>
             \/ \E t \in Thread : Tasked(r, t) /\ x = <<"task", t>>
             \/ \E i \in DOMAIN waiting : waiting[i] = r /\ x = <<"waiting", i>>
             \/ \E u \in Ui : r \in shared /\ UiAlive(u) /\ RequestedAt(u, r)
                              /\ x = <<"review", u>>
             \/ Edited(r) /\ x = <<"saver", r>>
<1>1. \A i \in DOMAIN waiting : reviewOpen
  <2>1. waiting = <<>> => DOMAIN waiting = {}
    OBVIOUS
  <2> QED
    BY <2>1 DEF IInv, ReviewGoesOn
<1>2. Edited(r) <=> \/ r \in unsaved /\ saverPc[r] \in {"encode", "take"}
                    \/ saverPc[r] = "write"
  BY DEF IInv, SaversAreKnown, Edited
<1> SUFFICES ASSUME NEW x
             PROVE  x \in Holders(r) <=>
                      \/ Keeping(r) /\ x = <<"recorder", r>>
                      \/ \E t \in Thread : Tasked(r, t) /\ x = <<"task", t>>
                      \/ \E i \in DOMAIN waiting : waiting[i] = r /\ x = <<"waiting", i>>
                      \/ \E u \in Ui : r \in shared /\ UiAlive(u) /\ RequestedAt(u, r)
                                       /\ x = <<"review", u>>
                      \/ Edited(r) /\ x = <<"saver", r>>
  OBVIOUS
<1>3. x \in {<<"recorder", s>> : s \in {s \in {r} :
          recPc[s] \in {"hide", "clearStop", "clearActive", "settle", "save", "queue"}}}
        <=> Keeping(r) /\ x = <<"recorder", r>>
  BY DEF Keeping
<1>4. x \in {<<"task", t>> : t \in {t \in Thread :
          task[t].do \in {"open", "conclude"} /\ task[t].rec = r}}
        <=> \E t \in Thread : Tasked(r, t) /\ x = <<"task", t>>
  BY DEF Tasked
<1>5. x \in {<<"waiting", i>> : i \in {i \in DOMAIN waiting : waiting[i] = r /\ reviewOpen}}
        <=> \E i \in DOMAIN waiting : waiting[i] = r /\ x = <<"waiting", i>>
  BY <1>1
<1>6. x \in {<<"review", u>> : u \in {u \in Ui :
          r \in shared /\ UiAlive(u) /\ RequestedAt(u, r)}}
        <=> \E u \in Ui : r \in shared /\ UiAlive(u) /\ RequestedAt(u, r) /\ x = <<"review", u>>
  OBVIOUS
<1>7. x \in {<<"saver", s>> : s \in {s \in {r} :
          \/ s \in unsaved /\ saverPc[s] \in {"encode", "take"}
          \/ saverPc[s] = "write"}}
        <=> Edited(r) /\ x = <<"saver", r>>
  BY <1>2
<1> QED
  BY <1>3, <1>4, <1>5, <1>6, <1>7, Zenon DEF Holders

\* A finished recording that is not settled is held exactly once, by whatever
\* path it got there: nobody else can save it, and somebody will.
THEOREM OneHolderAlways == Spec => []OneHolder
<1>1. IInv => OneHolder
  <2> SUFFICES ASSUME IInv, NEW r \in inMemory, result[r] = "ok"
               PROVE  Cardinality(Holders(r)) = IF fate[r] = "none" THEN 1 ELSE 0
    BY DEF OneHolder
  <2>1. r \in Recording /\ Kept(r) /\ Draft(r) /\ Once(waiting)
    BY DEF IInv, Typed, HostTyped, Draft
  <2> DEFINE isHolder(x) ==
               \/ Keeping(r) /\ x = <<"recorder", r>>
               \/ \E t \in Thread : Tasked(r, t) /\ x = <<"task", t>>
               \/ \E i \in DOMAIN waiting : waiting[i] = r /\ x = <<"waiting", i>>
               \/ \E u \in Ui : r \in shared /\ UiAlive(u) /\ RequestedAt(u, r)
                                /\ x = <<"review", u>>
               \/ Edited(r) /\ x = <<"saver", r>>
  <2>2. \A x : x \in Holders(r) <=> isHolder(x)
    BY <2>1, HoldersAre
  <2>3. fate[r] = "none" <=> Keeping(r) \/ Elsewhere(r)
    BY <2>1 DEF Kept, Custody, Held
  <2>4. CASE fate[r] # "none"
    <3>1. \A x : ~isHolder(x)
      BY <2>3, <2>4 DEF Elsewhere, Waits, Has
    <3>2. Holders(r) = {}
      BY <2>2, <3>1
    <3> QED
      BY <2>4, <3>2, FS_EmptySet
  <2>5. CASE fate[r] = "none"
    <3>1. /\ Keeping(r) => ~Elsewhere(r)
          /\ \A t, v \in Thread : Tasked(r, t) /\ Tasked(r, v) => t = v
          /\ \A t \in Thread : Tasked(r, t) => ~Waits(r) /\ r \notin shared /\ ~Edited(r)
          /\ Waits(r) => r \notin shared /\ ~Edited(r)
          /\ r \in shared => ~Edited(r)
          /\ \A u, v \in Ui : RequestedAt(u, r) /\ RequestedAt(v, r) => u = v
          /\ r \in shared => \E u \in Ui : UiAlive(u) /\ RequestedAt(u, r)
      BY <2>1 DEF Kept, Custody, Apart, AskedOnce, Later, Keeping, LetGo
    <3>2. PICK h : isHolder(h) /\ \A x : isHolder(x) => x = h
      <4>1. CASE Keeping(r)
        <5>1. isHolder(<<"recorder", r>>)
          BY <4>1
        <5>2. \A x : isHolder(x) => x = <<"recorder", r>>
          BY <3>1, <4>1 DEF Elsewhere, Waits, Has
        <5> QED
          BY <5>1, <5>2
      <4>2. ASSUME NEW t \in Thread, Tasked(r, t), ~Keeping(r)
            PROVE  \E h : isHolder(h) /\ \A x : isHolder(x) => x = h
        <5>1. isHolder(<<"task", t>>)
          BY <4>2
        <5>2. \A x : isHolder(x) => x = <<"task", t>>
          BY <3>1, <4>2 DEF Waits, Has
        <5> QED
          BY <5>1, <5>2
      <4>3. CASE Waits(r) /\ ~Keeping(r)
        <5>1. PICK i \in DOMAIN waiting : waiting[i] = r
          BY <4>3 DEF Waits, Has
        <5>2. isHolder(<<"waiting", i>>)
          BY <5>1
        <5>3. \A j \in DOMAIN waiting : waiting[j] = r => j = i
          BY <2>1, <5>1 DEF Once
        <5>4. \A x : isHolder(x) => x = <<"waiting", i>>
          BY <3>1, <4>3, <5>3
        <5> QED
          BY <5>2, <5>4
      <4>4. CASE r \in shared /\ ~Keeping(r)
        <5>1. PICK u \in Ui : UiAlive(u) /\ RequestedAt(u, r)
          BY <3>1, <4>4
        <5>2. isHolder(<<"review", u>>)
          BY <4>4, <5>1
        <5>3. \A x : isHolder(x) => x = <<"review", u>>
          BY <3>1, <4>4, <5>1 DEF Waits, Has
        <5> QED
          BY <5>2, <5>3
      <4>5. CASE Edited(r) /\ ~Keeping(r)
        <5>1. isHolder(<<"saver", r>>)
          BY <4>5
        <5>2. \A x : isHolder(x) => x = <<"saver", r>>
          BY <3>1, <4>5 DEF Waits, Has
        <5> QED
          BY <5>1, <5>2
      <4> QED
        BY <2>3, <2>5, <4>1, <4>2, <4>3, <4>4, <4>5 DEF Elsewhere
    <3>3. Holders(r) = {h}
      <4> HIDE DEF isHolder
      <4>1. \A x : x \in Holders(r) <=> x = h
        BY <2>2, <3>2
      <4> QED
        BY <4>1
    <3> QED
      BY <2>5, <3>3, FS_Singleton
  <2> QED
    BY <2>4, <2>5
<1> QED
  BY <1>1, CustodyAlways, PTL
=============================================================================
