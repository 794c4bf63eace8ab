------------------------ MODULE CaptureEngine_proofs ------------------------
(***************************************************************************)
(* Proofs about CaptureEngine for every set of presses, every limit and    *)
(* every capacity: the capture thread has an engine or an outage to        *)
(* recover from, it counts what the selection worker holds exactly, the    *)
(* user is told of outages, and the limit keeps its promise.               *)
(***************************************************************************)
EXTENDS CaptureEngine, FiniteSetTheorems, TLAPS

Calling == {"calling", "backoff", "rebuilding"}
Command == [kind : CommandKinds, of : Attempt \cup {None}]

\* TypeOK without the bounds on counters and channels, which nothing rests on.
Shapes ==
    /\ engine \in BOOLEAN /\ notified \in BOOLEAN
    /\ recovery \in [failures : 0..NoticeAfter, waiting : BOOLEAN] \cup {None}
    /\ capPc \in CaptureStates /\ exitBy \in Exits
    /\ purpose \in Purposes /\ tries \in Nat /\ attempts \in Nat /\ inFlight \in Nat
    /\ commands \in Seq(Command) /\ selQueue \in Seq(Attempt)
    /\ place \in [Attempt -> Places] /\ job \in [Attempt -> JobStates]
    /\ notices \in Seq(NoticeKinds) /\ Len(notices) <= NoticeCapacity
    /\ told \in {"nothing", "unavailable", "recovered"}
    /\ noticeLost \in BOOLEAN

(* Where an attempt is, as the queues and the two hands tell it. *)

Carrying == {"trigger", "live", "finished"}
PlaceOf(kind) == CASE kind = "trigger"  -> "pressed"
                   [] kind = "live"     -> "confirmed"
                   [] kind = "finished" -> "reported"
                   [] OTHER             -> "none"

\* A command queue and the places it tells.
CommandsTell(cs, where) ==
    /\ \A i \in 1..Len(cs) : cs[i].kind \in Carrying =>
         cs[i].of \in Attempt /\ where[cs[i].of] = PlaceOf(cs[i].kind)
    /\ \A i, j \in 1..Len(cs) :
         cs[i].kind \in Carrying /\ cs[j].kind \in Carrying /\ i # j => cs[i].of # cs[j].of

QueueTells(q, where) ==
    /\ \A i \in 1..Len(q) : where[q[i]] = "queued"
    /\ \A i, j \in 1..Len(q) : i # j => q[i] # q[j]

HandTells ==
    capPc \in Calling =>
        /\ hand \in Attempt
        /\ purpose \in {"validate", "capture", "confirm"}
        /\ place[hand] = IF purpose = "confirm" THEN "confirming" ELSE "capturing"

OverlayTells ==
    /\ selPc = "working" => selHand \in Attempt /\ place[selHand] = "overlay"
    /\ selPc = "closing" => selHand \in Attempt /\ place[selHand] = "closing"

\* An attempt being captured is the one in the capture thread's hand.
CapturingIsInHand ==
    \A a \in Attempt : place[a] = "capturing" => capPc \in Calling /\ hand = a

Tokens == /\ CommandsTell(commands, place) /\ QueueTells(selQueue, place)
          /\ HandTells /\ OverlayTells /\ CapturingIsInHand

\* Every attempt begun is counted against the limit.
Begun == {a \in Attempt : place[a] \in OpenPlaces \cup EndedPlaces}
AttemptsCounted == attempts = Cardinality(Begun)

ExitTold == exitBy = "none" <=> capPc # "ended"

\* The last word on the engine, shown or on its way.
LastWord ==
    ~noticeLost =>
        /\ (\A i \in 1..Len(notices) : notices[i] = "other") =>
             (notified <=> told = "unavailable")
        /\ \A i \in 1..Len(notices) :
             /\ notices[i] # "other"
             /\ \A j \in 1..Len(notices) : j > i => notices[j] = "other"
             => (notified <=> notices[i] = "unavailable")

IInv == /\ Shapes /\ EngineOrOutage /\ Tokens /\ InFlightIsExact /\ AttemptsCounted
        /\ ExitTold /\ LastWord

-----------------------------------------------------------------------------
(* Queues of attempts.                                                     *)

\* What a receiver leaves of a channel.
LEMMA TailLeaves ==
    ASSUME NEW S, NEW s \in Seq(S), s # <<>>
    PROVE  /\ Tail(s) \in Seq(S) /\ Head(s) = s[1] /\ 1 \in 1..Len(s) /\ s[1] \in S
           /\ Len(Tail(s)) = Len(s) - 1
           /\ \A i \in 1..Len(Tail(s)) : Tail(s)[i] = s[i + 1] /\ i + 1 \in 1..Len(s)
BY SMTT(30)

\* What a sender adds to one.
LEMMA AppendLeaves ==
    ASSUME NEW S, NEW s \in Seq(S), NEW e \in S
    PROVE  /\ Append(s, e) \in Seq(S) /\ Len(Append(s, e)) = Len(s) + 1
           /\ \A i \in 1..Len(Append(s, e)) : i # Len(s) + 1 =>
                i \in 1..Len(s) /\ Append(s, e)[i] = s[i]
           /\ Append(s, e)[Len(s) + 1] = e
OBVIOUS

\* Moving an attempt that no command carries.
LEMMA CommandsKeep ==
    ASSUME NEW cs, NEW w \in [Attempt -> Places], CommandsTell(cs, w),
           NEW a \in Attempt, w[a] \notin {"pressed", "confirmed", "reported"}, NEW to
    PROVE  CommandsTell(cs, [w EXCEPT ![a] = to])
<1> DEFINE w2 == [w EXCEPT ![a] = to]
<1>1. \A b \in Attempt : b # a => w2[b] = w[b]
  OBVIOUS
<1> HIDE DEF w2
<1>2. ASSUME NEW i \in 1..Len(cs), cs[i].kind \in Carrying
      PROVE  cs[i].of \in Attempt /\ w2[cs[i].of] = PlaceOf(cs[i].kind)
  <2>1. cs[i].of \in Attempt /\ w[cs[i].of] = PlaceOf(cs[i].kind)
    BY <1>2 DEF CommandsTell
  <2>2. cs[i].of # a
    BY <1>2, <2>1 DEF Carrying, PlaceOf
  <2> QED
    BY <1>1, <2>1, <2>2
<1>3. CommandsTell(cs, w2)
  BY <1>2 DEF CommandsTell
<1> QED
  BY <1>3 DEF w2

\* Taking a command, and moving what it carried.
LEMMA CommandTaken ==
    ASSUME NEW cs \in Seq(Command), cs # <<>>, NEW w, CommandsTell(cs, w), NEW w2,
           Head(cs).kind \in Carrying,
           \A b \in Attempt : b # Head(cs).of => w2[b] = w[b]
    PROVE  CommandsTell(Tail(cs), w2)
<1>1. /\ Head(cs) = cs[1] /\ 1 \in 1..Len(cs)
      /\ \A i \in 1..Len(Tail(cs)) : Tail(cs)[i] = cs[i + 1] /\ i + 1 \in 1..Len(cs)
                                     /\ i + 1 # 1
  BY TailLeaves
<1>2. ASSUME NEW i \in 1..Len(Tail(cs)), Tail(cs)[i].kind \in Carrying
      PROVE  Tail(cs)[i].of \in Attempt /\ w2[Tail(cs)[i].of] = PlaceOf(Tail(cs)[i].kind)
  <2>1. /\ cs[i + 1].of \in Attempt /\ w[cs[i + 1].of] = PlaceOf(cs[i + 1].kind)
        /\ cs[i + 1].of # cs[1].of
    BY <1>1, <1>2 DEF CommandsTell
  <2> QED
    BY <1>1, <2>1
<1>3. ASSUME NEW i \in 1..Len(Tail(cs)), NEW j \in 1..Len(Tail(cs)), i # j,
             Tail(cs)[i].kind \in Carrying, Tail(cs)[j].kind \in Carrying
      PROVE  Tail(cs)[i].of # Tail(cs)[j].of
  <2>1. i + 1 # j + 1
    BY <1>3
  <2> QED
    BY <1>1, <1>3, <2>1 DEF CommandsTell
<1> QED
  BY <1>2, <1>3 DEF CommandsTell

\* Taking a command that carries no attempt.
LEMMA PlainTaken ==
    ASSUME NEW cs \in Seq(Command), cs # <<>>, NEW w, CommandsTell(cs, w)
    PROVE  CommandsTell(Tail(cs), w)
<1>1. /\ 1 \in 1..Len(cs)
      /\ \A i \in 1..Len(Tail(cs)) : Tail(cs)[i] = cs[i + 1] /\ i + 1 \in 1..Len(cs)
  BY TailLeaves
<1>2. ASSUME NEW i \in 1..Len(Tail(cs)), NEW j \in 1..Len(Tail(cs)), i # j,
             Tail(cs)[i].kind \in Carrying, Tail(cs)[j].kind \in Carrying
      PROVE  Tail(cs)[i].of # Tail(cs)[j].of
  <2>1. i + 1 # j + 1
    BY <1>2
  <2> QED
    BY <1>1, <1>2, <2>1 DEF CommandsTell
<1> QED
  BY <1>1, <1>2 DEF CommandsTell

\* Sending a command with an attempt that no other command carries.
LEMMA CommandSent ==
    ASSUME NEW cs \in Seq(Command), NEW w \in [Attempt -> Places], CommandsTell(cs, w),
           NEW a \in Attempt, w[a] \notin {"pressed", "confirmed", "reported"},
           NEW k \in Carrying
    PROVE  CommandsTell(Append(cs, Cmd(k, a)), [w EXCEPT ![a] = PlaceOf(k)])
<1> DEFINE w2 == [w EXCEPT ![a] = PlaceOf(k)]
           c2 == Append(cs, Cmd(k, a))
<1>1. Cmd(k, a) \in Command /\ Cmd(k, a).kind = k /\ Cmd(k, a).of = a
  BY DEF Cmd, Command, Carrying, CommandKinds
<1>2. /\ \A i \in 1..Len(c2) : i # Len(cs) + 1 => i \in 1..Len(cs) /\ c2[i] = cs[i]
      /\ c2[Len(cs) + 1] = Cmd(k, a)
  BY <1>1, AppendLeaves
<1>3. w2[a] = PlaceOf(k) /\ CommandsTell(cs, w2)
  BY CommandsKeep
<1>4. \A i \in 1..Len(cs) : cs[i].kind \in Carrying => cs[i].of # a
  BY DEF CommandsTell, Carrying, PlaceOf
<1> HIDE DEF w2, c2
<1>5. ASSUME NEW i \in 1..Len(c2), c2[i].kind \in Carrying
      PROVE  c2[i].of \in Attempt /\ w2[c2[i].of] = PlaceOf(c2[i].kind)
  BY <1>1, <1>2, <1>3, <1>5 DEF CommandsTell
<1>6. ASSUME NEW i \in 1..Len(c2), NEW j \in 1..Len(c2), i # j,
             c2[i].kind \in Carrying, c2[j].kind \in Carrying
      PROVE  c2[i].of # c2[j].of
  <2>1. CASE i = Len(cs) + 1
    BY <1>1, <1>2, <1>4, <1>6, <2>1
  <2>2. CASE j = Len(cs) + 1
    BY <1>1, <1>2, <1>4, <1>6, <2>2
  <2>3. CASE i # Len(cs) + 1 /\ j # Len(cs) + 1
    BY <1>2, <1>3, <1>6, <2>3 DEF CommandsTell
  <2> QED
    BY <2>1, <2>2, <2>3
<1>7. CommandsTell(c2, w2)
  BY <1>5, <1>6 DEF CommandsTell
<1> QED
  BY <1>7 DEF c2, w2

\* Sending one without an attempt.
LEMMA PlainSent ==
    ASSUME NEW cs \in Seq(Command), NEW w, CommandsTell(cs, w),
           NEW k \in {"frame", "shutdown"}
    PROVE  CommandsTell(Append(cs, Cmd(k, None)), w)
<1> DEFINE c2 == Append(cs, Cmd(k, None))
<1>1. Cmd(k, None) \in Command /\ Cmd(k, None).kind \notin Carrying
  BY DEF Cmd, Command, Carrying, CommandKinds
<1>2. /\ \A i \in 1..Len(c2) : i # Len(cs) + 1 => i \in 1..Len(cs) /\ c2[i] = cs[i]
      /\ c2[Len(cs) + 1] = Cmd(k, None)
  BY <1>1, AppendLeaves
<1> HIDE DEF c2
<1>3. CommandsTell(c2, w)
  BY <1>1, <1>2 DEF CommandsTell
<1> QED
  BY <1>3 DEF c2

\* The same for the selection worker's queue.
LEMMA QueueKeeps ==
    ASSUME NEW q \in Seq(Attempt), NEW w \in [Attempt -> Places], QueueTells(q, w),
           NEW a \in Attempt, w[a] # "queued", NEW to
    PROVE  QueueTells(q, [w EXCEPT ![a] = to])
<1>1. \A i \in 1..Len(q) : q[i] \in Attempt /\ q[i] # a
  BY DEF QueueTells
<1> QED
  BY <1>1 DEF QueueTells

\* The selection worker takes the job at the head of its queue (SelectionTake).
LEMMA QueueTaken ==
    ASSUME NEW q \in Seq(Attempt), q # <<>>, NEW w \in [Attempt -> Places],
           QueueTells(q, w), NEW to
    PROVE  QueueTells(Tail(q), [w EXCEPT ![Head(q)] = to])
<1>1. /\ Head(q) = q[1] /\ 1 \in 1..Len(q) /\ q[1] \in Attempt
      /\ \A i \in 1..Len(Tail(q)) : Tail(q)[i] = q[i + 1] /\ i + 1 \in 1..Len(q)
                                    /\ i + 1 # 1
  BY TailLeaves
<1>2. \A i \in 1..Len(q) : q[i] \in Attempt
  OBVIOUS
<1>3. \A i \in 1..Len(Tail(q)) : [w EXCEPT ![Head(q)] = to][Tail(q)[i]] = "queued"
  BY <1>1, <1>2 DEF QueueTells
<1>4. ASSUME NEW i \in 1..Len(Tail(q)), NEW j \in 1..Len(Tail(q)), i # j
      PROVE  Tail(q)[i] # Tail(q)[j]
  <2>1. i + 1 # j + 1
    BY <1>4
  <2> QED
    BY <1>1, <2>1 DEF QueueTells
<1> QED
  BY <1>3, <1>4 DEF QueueTells

\* A job joins the selection worker's queue (try_submit).
LEMMA QueueSent ==
    ASSUME NEW q \in Seq(Attempt), NEW w \in [Attempt -> Places], QueueTells(q, w),
           NEW a \in Attempt, w[a] # "queued"
    PROVE  QueueTells(Append(q, a), [w EXCEPT ![a] = "queued"])
<1> DEFINE w2 == [w EXCEPT ![a] = "queued"]
           q2 == Append(q, a)
<1>1. /\ \A i \in 1..Len(q2) : i # Len(q) + 1 => i \in 1..Len(q) /\ q2[i] = q[i]
      /\ q2[Len(q) + 1] = a
  BY AppendLeaves
<1>2. w2[a] = "queued" /\ QueueTells(q, w2)
  BY QueueKeeps
<1>3. \A i \in 1..Len(q) : q[i] # a
  BY DEF QueueTells
<1> HIDE DEF w2, q2
<1>4. QueueTells(q2, w2)
  BY <1>1, <1>2, <1>3 DEF QueueTells
<1> QED
  BY <1>4 DEF q2, w2

-----------------------------------------------------------------------------
(* Notices.                                                                *)

\* The notice channel has taken notices that say nothing of the engine, or none.
MoreOthers ==
    /\ notices' \in Seq(NoticeKinds)
    /\ Len(notices) <= Len(notices') /\ Len(notices') <= NoticeCapacity
    /\ \A i \in 1..Len(notices') :
         IF i <= Len(notices) THEN notices'[i] = notices[i] ELSE notices'[i] = "other"
    /\ UNCHANGED <<told, noticeLost>>

\* Notices that find room come last, the others are dropped.
LEMMA OthersSent ==
    ASSUME Shapes, NEW sent \in Seq({"other"}), Notify(sent)
    PROVE  MoreOthers
<1>1. NoticeCapacity \in Nat /\ notices \in Seq(NoticeKinds) /\ Len(notices) <= NoticeCapacity
  BY CapacityAssumption DEF Shapes
<1> DEFINE all == notices \o sent
           n   == IF Len(all) < NoticeCapacity THEN Len(all) ELSE NoticeCapacity
<1>2. /\ all \in Seq(NoticeKinds) /\ Len(all) = Len(notices) + Len(sent)
      /\ Len(sent) \in Nat /\ Len(notices) \in Nat
      /\ \A i \in 1..Len(all) :
           IF i <= Len(notices) THEN all[i] = notices[i] ELSE all[i] = "other"
  BY <1>1 DEF NoticeKinds
<1>3. notices' = SubSeq(all, 1, n)
  BY DEF Notify, AfterNotices
<1>4. n \in Nat /\ n <= Len(all) /\ Len(notices) <= n /\ n <= NoticeCapacity
  BY <1>1, <1>2
<1> HIDE DEF n, all
<1>5. /\ notices' \in Seq(NoticeKinds) /\ Len(notices') = n
      /\ \A i \in 1..n : notices'[i] = all[i]
  BY <1>2, <1>3, <1>4
<1>6. \A i \in 1..n : i \in 1..Len(all)
  BY <1>2, <1>4
<1> QED
  BY <1>2, <1>4, <1>5, <1>6 DEF MoreOthers, Notify

\* A notice about the engine comes last or is known to be lost.
LEMMA EngineNoticeSent ==
    ASSUME Shapes, NEW kind \in NoticeKinds, NotifyEngine(kind)
    PROVE  /\ notices' \in Seq(NoticeKinds) /\ Len(notices') <= NoticeCapacity
           /\ told' = told /\ noticeLost' \in BOOLEAN
           /\ noticeLost => noticeLost'
           /\ ~noticeLost' => /\ Len(notices') = Len(notices) + 1
                              /\ notices'[Len(notices) + 1] = kind
<1>1. NoticeCapacity \in Nat /\ notices \in Seq(NoticeKinds) /\ Len(notices) <= NoticeCapacity
  BY CapacityAssumption DEF Shapes
<1> DEFINE all == notices \o <<kind>>
           n   == IF Len(all) < NoticeCapacity THEN Len(all) ELSE NoticeCapacity
<1>2. /\ all \in Seq(NoticeKinds) /\ Len(all) = Len(notices) + 1 /\ Len(notices) \in Nat
      /\ all[Len(notices) + 1] = kind
  BY <1>1
<1>3. notices' = SubSeq(all, 1, n)
  BY DEF NotifyEngine, AfterNotices
<1>4. n \in Nat /\ n <= Len(all) /\ n <= NoticeCapacity
      /\ (Len(notices) < NoticeCapacity => n = Len(notices) + 1)
  BY <1>1, <1>2
<1> HIDE DEF n, all
<1>5. /\ notices' \in Seq(NoticeKinds) /\ Len(notices') = n
      /\ \A i \in 1..n : notices'[i] = all[i]
  BY <1>2, <1>3, <1>4
<1>6. noticeLost' = (noticeLost \/ Len(notices) >= NoticeCapacity) /\ told' = told
  BY DEF NotifyEngine
<1>7. /\ noticeLost' \in BOOLEAN /\ (noticeLost => noticeLost')
      /\ ~noticeLost' => ~(Len(notices) >= NoticeCapacity)
  BY <1>6, Zenon
<1>8. ~noticeLost' => Len(notices) < NoticeCapacity
  BY <1>1, <1>7
<1> QED
  BY <1>2, <1>4, <1>5, <1>6, <1>7, <1>8

\* Other notices do not change the last word.
LEMMA OthersKeepLastWord ==
    ASSUME Shapes, LastWord, MoreOthers, UNCHANGED notified
    PROVE  LastWord'
<1> SUFFICES ASSUME ~noticeLost' PROVE LastWord'
  BY DEF LastWord
<1>1. /\ ~noticeLost /\ told' = told /\ notified' = notified
      /\ Len(notices) \in Nat /\ Len(notices') \in Nat /\ Len(notices) <= Len(notices')
      /\ \A i \in 1..Len(notices') :
           IF i <= Len(notices) THEN notices'[i] = notices[i] ELSE notices'[i] = "other"
  BY DEF MoreOthers, Shapes
<1>2. ASSUME \A i \in 1..Len(notices') : notices'[i] = "other"
      PROVE  notified' <=> told' = "unavailable"
  <2>1. \A i \in 1..Len(notices) : notices[i] = "other"
    BY <1>1, <1>2
  <2> QED
    BY <1>1, <2>1 DEF LastWord
<1>3. ASSUME NEW i \in 1..Len(notices'), notices'[i] # "other",
             \A j \in 1..Len(notices') : j > i => notices'[j] = "other"
      PROVE  notified' <=> notices'[i] = "unavailable"
  <2>1. i \in 1..Len(notices) /\ notices'[i] = notices[i]
    BY <1>1, <1>3
  <2>2. \A j \in 1..Len(notices) : j > i => notices[j] = "other"
    BY <1>1, <1>3
  <2> QED
    BY <1>1, <1>3, <2>1, <2>2 DEF LastWord
<1> QED
  BY <1>2, <1>3 DEF LastWord

\* A notice about the engine is the last word, if it is what is now believed.
LEMMA EngineNoticeIsLastWord ==
    ASSUME Shapes, NEW kind \in {"unavailable", "recovered"}, NotifyEngine(kind),
           notified' <=> kind = "unavailable"
    PROVE  LastWord'
<1>1. /\ notices' \in Seq(NoticeKinds)
      /\ ~noticeLost' => /\ Len(notices') = Len(notices) + 1
                         /\ notices'[Len(notices) + 1] = kind
  BY EngineNoticeSent DEF NoticeKinds
<1>2. Len(notices) \in Nat
  BY DEF Shapes
<1> SUFFICES ASSUME ~noticeLost' PROVE LastWord'
  BY DEF LastWord
<1>3. Len(notices') \in 1..Len(notices') /\ notices'[Len(notices')] = kind
  BY <1>1, <1>2
<1>4. ASSUME NEW i \in 1..Len(notices'), notices'[i] # "other",
             \A j \in 1..Len(notices') : j > i => notices'[j] = "other"
      PROVE  i = Len(notices')
  BY <1>3, <1>4
<1> QED
  BY <1>3, <1>4 DEF LastWord

\* What the notification area shows was the oldest word.
LEMMA ShownKeepsLastWord ==
    ASSUME Shapes, LastWord, ShowNotice
    PROVE  LastWord' /\ Shapes'
<1>1. /\ notices # <<>> /\ notices' = Tail(notices) /\ noticeLost' = noticeLost
      /\ told' = IF Head(notices) = "other" THEN told ELSE Head(notices)
      /\ notices \in Seq(NoticeKinds)
  BY DEF ShowNotice, Shapes
<1>2. UNCHANGED <<engineVars, captureVars, job, selVars, selQueue, recPc, commands, place>>
  BY DEF ShowNotice, unseenByDaemon
<1>3. notified' = notified
  BY <1>2 DEF engineVars
<1>4. /\ Tail(notices) \in Seq(NoticeKinds) /\ Head(notices) = notices[1]
      /\ 1 \in 1..Len(notices) /\ notices[1] \in NoticeKinds
      /\ Len(Tail(notices)) = Len(notices) - 1 /\ Len(notices) \in Nat
      /\ \A i \in 1..Len(Tail(notices)) :
           Tail(notices)[i] = notices[i + 1] /\ i + 1 \in 1..Len(notices)
  BY <1>1, TailLeaves
<1>5. Shapes'
  <2>1. Len(notices') <= NoticeCapacity
    BY <1>1, <1>4, CapacityAssumption DEF Shapes
  <2>2. told' \in {"nothing", "unavailable", "recovered"}
    BY <1>1, <1>4 DEF Shapes, NoticeKinds
  <2> QED
    BY <1>1, <1>2, <1>4, <2>1, <2>2 DEF Shapes, engineVars, captureVars
<1>6. LastWord'
  <2> SUFFICES ASSUME ~noticeLost PROVE LastWord'
    BY <1>1 DEF LastWord
  <2>1. \A k \in 1..Len(notices) : k # 1 => k - 1 \in 1..Len(notices')
                                            /\ notices'[k - 1] = notices[k]
    <3> TAKE k \in 1..Len(notices)
    <3> HAVE k # 1
    <3>1. k - 1 \in 1..Len(Tail(notices)) /\ (k - 1) + 1 = k
      BY <1>4
    <3> QED
      BY <1>1, <1>4, <3>1
  <2>2. ASSUME \A i \in 1..Len(notices') : notices'[i] = "other"
        PROVE  notified' <=> told' = "unavailable"
    <3>1. \A k \in 1..Len(notices) : k # 1 => notices[k] = "other"
      BY <2>1, <2>2
    <3>2. CASE notices[1] = "other"
      <4>1. \A k \in 1..Len(notices) : notices[k] = "other"
        BY <3>1, <3>2
      <4> QED
        BY <1>1, <1>3, <1>4, <3>2, <4>1 DEF LastWord
    <3>3. CASE notices[1] # "other"
      <4>1. \A j \in 1..Len(notices) : j > 1 => notices[j] = "other"
        BY <3>1
      <4> QED
        BY <1>1, <1>3, <1>4, <3>3, <4>1 DEF LastWord
    <3> QED
      BY <3>2, <3>3
  <2>3. ASSUME NEW i \in 1..Len(notices'), notices'[i] # "other",
               \A j \in 1..Len(notices') : j > i => notices'[j] = "other"
        PROVE  notified' <=> notices'[i] = "unavailable"
    <3>1. i + 1 \in 1..Len(notices) /\ notices'[i] = notices[i + 1] /\ i \in Nat
      BY <1>1, <1>4
    <3>2. ASSUME NEW k \in 1..Len(notices), k > i + 1 PROVE notices[k] = "other"
      <4>1. k # 1 /\ k - 1 > i
        BY <3>1, <3>2
      <4> QED
        BY <2>1, <2>3, <4>1
    <3> QED
      BY <1>3, <2>3, <3>1, <3>2 DEF LastWord
  <2> QED
    BY <2>2, <2>3 DEF LastWord
<1> QED
  BY <1>5, <1>6

-----------------------------------------------------------------------------
(* Handing back, and failing.                                              *)

\* Where the selection worker's queue leaves an attempt it is offered again.
GivenBack(a) ==
    \/ /\ selQueue' = Append(selQueue, a)
       /\ place' = [place EXCEPT ![a] = "queued"]
       /\ inFlight' = inFlight
    \/ /\ selQueue' = selQueue
       /\ place' = [place EXCEPT ![a] = "ended"]
       /\ inFlight' = OneFewer

\* What changes of the types then.
GivenShapes == /\ place' \in [Attempt -> Places] /\ job' \in [Attempt -> JobStates]
               /\ selQueue' \in Seq(Attempt) /\ inFlight' \in Nat

\* Some notices, none about the engine.
LEMMA FewOthers ==
    ASSUME NEW sent \in {<<>>, <<"other">>}
    PROVE  sent \in Seq({"other"}) /\ sent \o <<"other">> \in Seq({"other"})
<1>1. <<"other">> \in Seq({"other"})
  OBVIOUS
<1>2. sent \in Seq({"other"})
  <2>1. CASE sent = <<>>
    BY <2>1
  <2>2. CASE sent = <<"other">>
    BY <1>1, <2>2
  <2> QED
    BY <2>1, <2>2
<1>3. \A s, t \in Seq({"other"}) : s \o t \in Seq({"other"})
  OBVIOUS
<1> QED
  BY <1>1, <1>2, <1>3

\* try_submit, with room and without.
LEMMA GiveBackDoes ==
    ASSUME Shapes, NEW a \in Attempt, NEW state \in JobStates,
           NEW also \in {<<>>, <<"other">>}, GiveBack(a, state, also)
    PROVE  MoreOthers /\ GivenBack(a) /\ GivenShapes
<1>1. job' = [job EXCEPT ![a] = state] /\ job' \in [Attempt -> JobStates]
  BY DEF GiveBack, Shapes
<1>2. CASE SelectionRoom
  <2>1. /\ selQueue' = Append(selQueue, a) /\ place' = [place EXCEPT ![a] = "queued"]
        /\ Notify(also) /\ inFlight' = inFlight
    BY <1>2 DEF GiveBack, Move
  <2>2. MoreOthers
    BY <2>1, OthersSent, FewOthers
  <2>3. selQueue' \in Seq(Attempt)
    BY <2>1 DEF Shapes
  <2>4. place' \in [Attempt -> Places]
    BY <2>1 DEF Shapes, Places
  <2> QED
    BY <1>1, <2>1, <2>2, <2>3, <2>4 DEF GivenBack, GivenShapes, Shapes
<1>3. CASE ~SelectionRoom
  <2>1. /\ selQueue' = selQueue /\ place' = [place EXCEPT ![a] = "ended"]
        /\ Notify(also \o <<"other">>) /\ inFlight' = OneFewer
    BY <1>3 DEF GiveBack, Move
  <2>2. MoreOthers
    BY <2>1, OthersSent, FewOthers
  <2>3. place' \in [Attempt -> Places]
    BY <2>1 DEF Shapes, Places
  <2>4. inFlight' \in Nat
    BY <2>1 DEF Shapes, OneFewer
  <2> QED
    BY <1>1, <2>1, <2>2, <2>3, <2>4 DEF GivenBack, GivenShapes, Shapes
<1> QED
  BY <1>2, <1>3

\* An engine call that fails ends the attempt, or hands it back to its overlay.
Failed ==
    /\ capPc \in Calling /\ capPc' = "top" /\ tries' = 0 /\ purpose' = "none"
    /\ UNCHANGED <<attempts, exitBy, commands, selVars, recPc, daemonVars>>
    /\ MoreOthers /\ GivenShapes
    /\ IF purpose = "confirm" THEN GivenBack(hand)
       ELSE /\ place' = [place EXCEPT ![hand] = "ended"]
            /\ UNCHANGED <<selQueue, inFlight>>

\* What the caller of capture_with_backend_recovery does with an error.
LEMMA CallFailsDoes ==
    ASSUME Shapes, HandTells, capPc \in Calling, \E n \in FailureNotices : CallFails(n)
    PROVE  Failed
<1>1. PICK n \in FailureNotices : CallFails(n)
  OBVIOUS
<1>2. n \in {<<>>, <<"other">>} /\ hand \in Attempt
  BY DEF FailureNotices, HandTells
<1>3. n \in Seq({"other"})
  BY <1>2, FewOthers
<1>4. CASE purpose = "confirm"
  BY <1>1, <1>2, <1>4, GiveBackDoes DEF CallFails, Failed, JobStates
<1>5. CASE purpose # "confirm"
  <2>1. Notify(n) /\ UNCHANGED <<job, selQueue, inFlight>> /\ Move(hand, "ended")
    BY <1>1, <1>5 DEF CallFails
  <2>2. MoreOthers
    BY <1>3, <2>1, OthersSent
  <2> QED
    BY <1>1, <1>2, <1>5, <2>1, <2>2
    DEF CallFails, Failed, GivenShapes, Shapes, Move, Places
<1> QED
  BY <1>4, <1>5

\* An outage that begins is one to recover from.
LEMMA OutageIsOne ==
    ASSUME NEW n \in Nat, NEW w \in BOOLEAN, NEW soon, OutageBegins(n, w, soon)
    PROVE  /\ engine' = FALSE /\ recovery' # None /\ notified' = notified
           /\ recovery' \in [failures : 0..NoticeAfter, waiting : BOOLEAN]
BY AttemptAssumption, RetryAssumption DEF OutageBegins, Outage

-----------------------------------------------------------------------------
(* Types, the engine, the reason for leaving and the last word.            *)

Outline == Shapes /\ EngineOrOutage /\ ExitTold /\ LastWord

\* Steps that say nothing and move nothing.
Silent == /\ UNCHANGED <<noticeVars, notified, commands, selQueue, jobVars, attempts, inFlight>>
          /\ capPc' \in CaptureStates /\ exitBy' \in Exits /\ purpose' \in Purposes
          /\ tries' \in Nat
          /\ (exitBy = "none" <=> capPc # "ended") => ExitTold'

\* A step that says nothing and moves nothing keeps the outline.
LEMMA SilentKeeps ==
    ASSUME Shapes, LastWord, ExitTold, Silent, engine' \in BOOLEAN,
           recovery' \in [failures : 0..NoticeAfter, waiting : BOOLEAN] \cup {None},
           EngineOrOutage'
    PROVE  Outline'
<1>1. Shapes'
  BY DEF Shapes, Silent, noticeVars, jobVars
<1>2. LastWord'
  BY DEF LastWord, Silent, noticeVars
<1> QED
  BY <1>1, <1>2 DEF Outline, Silent, ExitTold

\* The capture thread's loop, its waits and its rebuilds.
LEMMA QuietSteps ==
    ASSUME IInv,
           \/ LeaveOnStop
           \/ LeaveAtLimit
           \/ LeaveFatally
           \/ NothingDue
           \/ SourceNotReady
           \/ RetryComesDue
           \/ ReceiveTimeout
           \/ EngineLost
           \/ BackoffElapsed
           \/ Rebuilt
           \/ DisplaysCurrent
    PROVE  Outline'
<1> USE DEF IInv, engineVars, captureVars, noticeVars, jobVars, Silent, CaptureStates, Exits,
            Purposes, ExitTold, EngineOrOutage
<1>0. Shapes /\ LastWord /\ ExitTold
  OBVIOUS
<1>1. CASE LeaveOnStop
  <2>1. Silent
    BY <1>1 DEF LeaveOnStop, LeaveLoop, Shapes
  <2>2. /\ engine' \in BOOLEAN /\ EngineOrOutage'
        /\ recovery' \in [failures : 0..NoticeAfter, waiting : BOOLEAN] \cup {None}
    BY <1>1 DEF LeaveOnStop, LeaveLoop, Shapes
  <2> QED
    BY <1>0, <2>1, <2>2, SilentKeeps
<1>2. CASE LeaveAtLimit
  <2>1. Silent
    BY <1>2 DEF LeaveAtLimit, LeaveLoop, Shapes
  <2>2. /\ engine' \in BOOLEAN /\ EngineOrOutage'
        /\ recovery' \in [failures : 0..NoticeAfter, waiting : BOOLEAN] \cup {None}
    BY <1>2 DEF LeaveAtLimit, LeaveLoop, Shapes
  <2> QED
    BY <1>0, <2>1, <2>2, SilentKeeps
<1>3. CASE LeaveFatally
  <2>1. Silent
    BY <1>3 DEF LeaveFatally, LeaveLoop, Shapes
  <2>2. /\ engine' \in BOOLEAN /\ EngineOrOutage'
        /\ recovery' \in [failures : 0..NoticeAfter, waiting : BOOLEAN] \cup {None}
    BY <1>3 DEF LeaveFatally, LeaveLoop, Shapes
  <2> QED
    BY <1>0, <2>1, <2>2, SilentKeeps
<1>4. CASE NothingDue
  <2>1. Silent
    BY <1>4 DEF NothingDue, GoOn, Shapes
  <2>2. /\ engine' \in BOOLEAN /\ EngineOrOutage'
        /\ recovery' \in [failures : 0..NoticeAfter, waiting : BOOLEAN] \cup {None}
    BY <1>4 DEF NothingDue, GoOn, Shapes
  <2> QED
    BY <1>0, <2>1, <2>2, SilentKeeps
<1>5. CASE SourceNotReady
  <2>1. Silent
    BY <1>5 DEF SourceNotReady, GoOn, Shapes
  <2>2. /\ engine' \in BOOLEAN /\ EngineOrOutage'
        /\ recovery' \in [failures : 0..NoticeAfter, waiting : BOOLEAN] \cup {None}
    BY <1>5 DEF SourceNotReady, GoOn, Shapes
  <2> QED
    BY <1>0, <2>1, <2>2, SilentKeeps
<1>6. CASE RetryComesDue
  <2>1. Silent
    BY <1>6 DEF RetryComesDue, Shapes
  <2>2. /\ engine' \in BOOLEAN /\ EngineOrOutage'
        /\ recovery' \in [failures : 0..NoticeAfter, waiting : BOOLEAN] \cup {None}
    BY <1>6 DEF RetryComesDue, Shapes
  <2> QED
    BY <1>0, <2>1, <2>2, SilentKeeps
<1>7. CASE ReceiveTimeout
  <2>1. Silent
    BY <1>7 DEF ReceiveTimeout, Shapes
  <2>2. /\ engine' \in BOOLEAN /\ EngineOrOutage'
        /\ recovery' \in [failures : 0..NoticeAfter, waiting : BOOLEAN] \cup {None}
    BY <1>7 DEF ReceiveTimeout, Shapes
  <2> QED
    BY <1>0, <2>1, <2>2, SilentKeeps
<1>8. CASE EngineLost
  <2>1. Silent
    BY <1>8 DEF EngineLost, Shapes
  <2>2. /\ engine' \in BOOLEAN /\ EngineOrOutage'
        /\ recovery' \in [failures : 0..NoticeAfter, waiting : BOOLEAN] \cup {None}
    BY <1>8 DEF EngineLost, Shapes
  <2> QED
    BY <1>0, <2>1, <2>2, SilentKeeps
<1>9. CASE BackoffElapsed
  <2>1. Silent
    BY <1>9 DEF BackoffElapsed, Shapes
  <2>2. /\ engine' \in BOOLEAN /\ EngineOrOutage'
        /\ recovery' \in [failures : 0..NoticeAfter, waiting : BOOLEAN] \cup {None}
    BY <1>9 DEF BackoffElapsed, Shapes
  <2> QED
    BY <1>0, <2>1, <2>2, SilentKeeps
<1>10. CASE Rebuilt
  <2>1. Silent
    BY <1>10 DEF Rebuilt, Shapes
  <2>2. /\ engine' \in BOOLEAN /\ EngineOrOutage'
        /\ recovery' \in [failures : 0..NoticeAfter, waiting : BOOLEAN] \cup {None}
    BY <1>10 DEF Rebuilt, Shapes
  <2> QED
    BY <1>0, <2>1, <2>2, SilentKeeps
<1>11. CASE DisplaysCurrent
  <2>1. Silent
    BY <1>11 DEF DisplaysCurrent, Shapes
  <2>2. /\ engine' \in BOOLEAN /\ EngineOrOutage'
        /\ recovery' \in [failures : 0..NoticeAfter, waiting : BOOLEAN] \cup {None}
    BY <1>11 DEF DisplaysCurrent, Shapes
  <2> QED
    BY <1>0, <2>1, <2>2, SilentKeeps
<1> QED
  BY <1>1, <1>2, <1>3, <1>4, <1>5, <1>6, <1>7, <1>8, <1>9, <1>10, <1>11

\* Taking a command, in types and in what it tells.
LEMMA TakeDoes ==
    ASSUME Shapes, CommandsTell(commands, place), NEW kind, Take(kind)
    PROVE  /\ capPc = "receiving" /\ commands # <<>> /\ Head(commands).kind = kind
           /\ commands' = Tail(commands) /\ commands' \in Seq(Command)
           /\ kind \in Carrying => Taken \in Attempt /\ place[Taken] = PlaceOf(kind)
<1>1. commands # <<>> /\ commands' = Tail(commands) /\ Head(commands).kind = kind
      /\ capPc = "receiving"
  BY DEF Take
<1>2. commands' \in Seq(Command) /\ 1 \in 1..Len(commands) /\ Head(commands) = commands[1]
  BY <1>1, TailLeaves DEF Shapes
<1> QED
  BY <1>1, <1>2 DEF CommandsTell, Taken

\* Every command that is sent is one.
LEMMA SendDoes ==
    ASSUME Shapes, NEW k \in CommandKinds, NEW a \in Attempt \cup {None}
    PROVE  Append(commands, Cmd(k, a)) \in Seq(Command)
<1>1. Cmd(k, a) \in Command
  BY DEF Cmd, Command
<1> QED
  BY <1>1 DEF Shapes

\* Moving an attempt is a change of one place.
LEMMA MoveDoes ==
    ASSUME Shapes, NEW a \in Attempt, NEW where \in Places, Move(a, where)
    PROVE  place' = [place EXCEPT ![a] = where] /\ place' \in [Attempt -> Places]
BY DEF Shapes, Move

\* Steps whose notices, if any, say nothing of the engine.
Orderly ==
    /\ MoreOthers \/ UNCHANGED noticeVars
    /\ notified' = notified
    /\ GivenShapes /\ commands' \in Seq(Command)
    /\ capPc' \in CaptureStates /\ exitBy' \in Exits /\ purpose' \in Purposes
    /\ tries' \in Nat /\ attempts' \in Nat

\* So does one whose notices are about something else.
LEMMA OrderlyKeeps ==
    ASSUME Shapes, LastWord, Orderly, engine' \in BOOLEAN,
           recovery' \in [failures : 0..NoticeAfter, waiting : BOOLEAN] \cup {None},
           EngineOrOutage', ExitTold'
    PROVE  Outline'
<1>1. Shapes'
  <2>1. CASE MoreOthers
    BY <2>1 DEF Orderly, GivenShapes, Shapes, MoreOthers
  <2>2. CASE UNCHANGED noticeVars
    BY <2>2 DEF Orderly, GivenShapes, Shapes, noticeVars
  <2> QED
    BY <2>1, <2>2 DEF Orderly
<1>2. LastWord'
  <2>1. CASE MoreOthers
    BY <2>1, OthersKeepLastWord DEF Orderly
  <2>2. CASE UNCHANGED noticeVars
    BY <2>2 DEF Orderly, LastWord, noticeVars
  <2> QED
    BY <2>1, <2>2 DEF Orderly
<1> QED
  BY <1>1, <1>2 DEF Outline

\* The next step of an outage: the two steps that speak of the engine.
LEMMA OutageSteps ==
    ASSUME IInv, EngineReturns \/ \E waiting \in BOOLEAN : EngineStaysAway(waiting)
    PROVE  Outline'
<1>0. /\ Shapes /\ LastWord /\ ExitTold /\ capPc = "top" /\ capPc' = "receiving"
      /\ UNCHANGED <<hand, purpose, tries, attempts, inFlight, exitBy, commands,
                     jobVars, selVars, selQueue, recPc, daemonVars>>
  BY DEF IInv, EngineReturns, EngineStaysAway, GoOn
<1>1. ASSUME notices' \in Seq(NoticeKinds), Len(notices') <= NoticeCapacity,
             told' = told, noticeLost' \in BOOLEAN, engine' \in BOOLEAN,
             notified' \in BOOLEAN,
             recovery' \in [failures : 0..NoticeAfter, waiting : BOOLEAN] \cup {None}
      PROVE  Shapes' /\ ExitTold'
  BY <1>0, <1>1 DEF Shapes, jobVars, CaptureStates, ExitTold
<1>2. CASE EngineReturns
  <2>1. engine' = TRUE /\ recovery' = None /\ notified' = FALSE
    BY <1>2 DEF EngineReturns
  <2>2. EngineOrOutage'
    BY <1>0, <2>1 DEF EngineOrOutage
  <2>3. CASE notified
    <3>1. NotifyEngine("recovered")
      BY <1>2, <2>3 DEF EngineReturns
    <3>2. LastWord'
      BY <1>0, <2>1, <3>1, EngineNoticeIsLastWord
    <3>3. /\ notices' \in Seq(NoticeKinds) /\ Len(notices') <= NoticeCapacity
          /\ told' = told /\ noticeLost' \in BOOLEAN
      BY <1>0, <3>1, EngineNoticeSent DEF NoticeKinds
    <3> QED
      BY <1>1, <2>1, <2>2, <3>2, <3>3 DEF Outline
  <2>4. CASE ~notified
    <3>1. UNCHANGED noticeVars /\ notified' = notified
      BY <1>0, <1>2, <2>1, <2>4 DEF EngineReturns, Shapes
    <3>2. LastWord'
      BY <1>0, <3>1 DEF LastWord, noticeVars
    <3> QED
      BY <1>0, <1>1, <2>1, <2>2, <3>1, <3>2 DEF Outline, noticeVars, Shapes
  <2> QED
    BY <2>3, <2>4
<1>3. ASSUME NEW waiting \in BOOLEAN, EngineStaysAway(waiting) PROVE Outline'
  <2>0. recovery # None /\ recovery \in [failures : 0..NoticeAfter, waiting : BOOLEAN]
    BY <1>0, <1>3 DEF EngineStaysAway, Shapes
  <2>1. engine' = FALSE /\ recovery' = Outage(OneMoreFailure, waiting)
    BY <1>3 DEF EngineStaysAway
  <2>2. OneMoreFailure \in 0..NoticeAfter
    BY <2>0, RetryAssumption DEF OneMoreFailure
  <2>3. recovery' \in [failures : 0..NoticeAfter, waiting : BOOLEAN] /\ recovery' # None
    BY <2>1, <2>2, AttemptAssumption DEF Outage
  <2>4. EngineOrOutage'
    BY <1>0, <2>1, <2>3 DEF EngineOrOutage
  <2>5. CASE notified' = TRUE /\ NotifyEngine("unavailable")
    <3>1. LastWord'
      BY <1>0, <2>5, EngineNoticeIsLastWord
    <3>2. /\ notices' \in Seq(NoticeKinds) /\ Len(notices') <= NoticeCapacity
          /\ told' = told /\ noticeLost' \in BOOLEAN
      BY <1>0, <2>5, EngineNoticeSent DEF NoticeKinds
    <3> QED
      BY <1>1, <2>1, <2>3, <2>4, <2>5, <3>1, <3>2 DEF Outline
  <2>6. CASE UNCHANGED <<notified, noticeVars>>
    <3>1. LastWord'
      BY <1>0, <2>6 DEF LastWord, noticeVars
    <3> QED
      BY <1>0, <1>1, <2>1, <2>3, <2>4, <2>6, <3>1 DEF Outline, noticeVars, Shapes
  <2> QED
    BY <1>3, <2>5, <2>6 DEF EngineStaysAway
<1> QED
  BY <1>2, <1>3

\* The commands, one by one.
LEMMA CommandSteps ==
    ASSUME IInv,
           \/ RefuseTrigger \/ IgnoreTrigger \/ SpendTrigger \/ BeginTrigger
           \/ \E lost \in BOOLEAN : TakeFrame(lost)
           \/ TakeLiveWithoutEngine \/ TakeLive \/ TakeFinished \/ TakeShutdown
    PROVE  Outline'
<1>0. /\ Shapes /\ LastWord /\ ExitTold /\ EngineOrOutage
      /\ CommandsTell(commands, place)
  BY DEF IInv, Tokens
<1> USE DEF engineVars, noticeVars, jobVars, Exits, CaptureStates, Purposes, Places
<1>1. CASE RefuseTrigger
  <2>1. capPc = "receiving" /\ commands' \in Seq(Command) /\ Taken \in Attempt
    BY <1>0, <1>1, TakeDoes DEF RefuseTrigger, Carrying
  <2>2. MoreOthers
    BY <1>0, <1>1, FewOthers, OthersSent DEF RefuseTrigger
  <2>3. GivenShapes
    BY <1>0, <1>1, <2>1, MoveDoes DEF RefuseTrigger, GivenShapes, Shapes
  <2>4. Orderly
    BY <1>0, <1>1, <2>1, <2>2, <2>3 DEF RefuseTrigger, Orderly, Shapes
  <2>5. EngineOrOutage' /\ ExitTold'
    BY <1>0, <1>1, <2>1 DEF RefuseTrigger, EngineOrOutage, ExitTold
  <2> QED
    BY <1>0, <1>1, <2>4, <2>5, OrderlyKeeps DEF RefuseTrigger, Shapes
<1>2. CASE IgnoreTrigger
  <2>1. capPc = "receiving" /\ commands' \in Seq(Command) /\ Taken \in Attempt
    BY <1>0, <1>2, TakeDoes DEF IgnoreTrigger, Carrying
  <2>2. GivenShapes
    BY <1>0, <1>2, <2>1, MoveDoes DEF IgnoreTrigger, GivenShapes, Shapes, OneFewer
  <2>3. Orderly
    BY <1>0, <1>2, <2>1, <2>2 DEF IgnoreTrigger, CallEngine, Orderly, Shapes
  <2>4. EngineOrOutage' /\ ExitTold'
    BY <1>0, <1>2, <2>1 DEF IgnoreTrigger, CallEngine, EngineOrOutage, ExitTold
  <2> QED
    BY <1>0, <1>2, <2>3, <2>4, OrderlyKeeps DEF IgnoreTrigger, Shapes
<1>3. CASE SpendTrigger
  <2>1. capPc = "receiving" /\ commands' \in Seq(Command) /\ Taken \in Attempt
    BY <1>0, <1>3, TakeDoes DEF SpendTrigger, Carrying
  <2>2. GivenShapes
    BY <1>0, <1>3, <2>1, MoveDoes DEF SpendTrigger, GivenShapes, Shapes, OneFewer
  <2>3. Orderly
    BY <1>0, <1>3, <2>1, <2>2 DEF SpendTrigger, CallEngine, Orderly, Shapes
  <2>4. EngineOrOutage' /\ ExitTold'
    BY <1>0, <1>3, <2>1 DEF SpendTrigger, CallEngine, EngineOrOutage, ExitTold
  <2> QED
    BY <1>0, <1>3, <2>3, <2>4, OrderlyKeeps DEF SpendTrigger, Shapes
<1>4. CASE BeginTrigger
  <2>1. capPc = "receiving" /\ commands' \in Seq(Command) /\ Taken \in Attempt
    BY <1>0, <1>4, TakeDoes DEF BeginTrigger, Carrying
  <2>2. GivenShapes
    BY <1>0, <1>4, <2>1, MoveDoes DEF BeginTrigger, GivenShapes, Shapes, OneFewer
  <2>3. Orderly
    BY <1>0, <1>4, <2>1, <2>2 DEF BeginTrigger, CallEngine, Orderly, Shapes
  <2>4. EngineOrOutage' /\ ExitTold'
    BY <1>0, <1>4, <2>1 DEF BeginTrigger, CallEngine, EngineOrOutage, ExitTold
  <2> QED
    BY <1>0, <1>4, <2>3, <2>4, OrderlyKeeps DEF BeginTrigger, Shapes
<1>5. CASE TakeLive
  <2>1. capPc = "receiving" /\ commands' \in Seq(Command) /\ Taken \in Attempt
    BY <1>0, <1>5, TakeDoes DEF TakeLive, Carrying
  <2>2. GivenShapes
    BY <1>0, <1>5, <2>1, MoveDoes DEF TakeLive, GivenShapes, Shapes, OneFewer
  <2>3. Orderly
    BY <1>0, <1>5, <2>1, <2>2 DEF TakeLive, CallEngine, Orderly, Shapes
  <2>4. EngineOrOutage' /\ ExitTold'
    BY <1>0, <1>5, <2>1 DEF TakeLive, CallEngine, EngineOrOutage, ExitTold
  <2> QED
    BY <1>0, <1>5, <2>3, <2>4, OrderlyKeeps DEF TakeLive, Shapes
<1>6. CASE TakeFinished
  <2>1. capPc = "receiving" /\ commands' \in Seq(Command) /\ Taken \in Attempt
    BY <1>0, <1>6, TakeDoes DEF TakeFinished, Carrying
  <2>2. GivenShapes
    BY <1>0, <1>6, <2>1, MoveDoes DEF TakeFinished, GivenShapes, Shapes, OneFewer
  <2>3. Orderly
    BY <1>0, <1>6, <2>1, <2>2 DEF TakeFinished, CallEngine, Orderly, Shapes
  <2>4. EngineOrOutage' /\ ExitTold'
    BY <1>0, <1>6, <2>1 DEF TakeFinished, CallEngine, EngineOrOutage, ExitTold
  <2> QED
    BY <1>0, <1>6, <2>3, <2>4, OrderlyKeeps DEF TakeFinished, Shapes
<1>7. CASE TakeLiveWithoutEngine
  <2>1. capPc = "receiving" /\ commands' \in Seq(Command) /\ Taken \in Attempt
    BY <1>0, <1>7, TakeDoes DEF TakeLiveWithoutEngine, Carrying
  <2>2. MoreOthers /\ GivenShapes
    BY <1>0, <1>7, <2>1, GiveBackDoes DEF TakeLiveWithoutEngine, JobStates
  <2>3. Orderly
    BY <1>0, <1>7, <2>1, <2>2 DEF TakeLiveWithoutEngine, Orderly, Shapes
  <2>4. EngineOrOutage' /\ ExitTold'
    BY <1>0, <1>7, <2>1 DEF TakeLiveWithoutEngine, EngineOrOutage, ExitTold
  <2> QED
    BY <1>0, <1>7, <2>3, <2>4, OrderlyKeeps DEF TakeLiveWithoutEngine, Shapes
<1>8. ASSUME NEW lost \in BOOLEAN, TakeFrame(lost) PROVE Outline'
  <2>1. capPc = "receiving" /\ commands' \in Seq(Command)
    BY <1>0, <1>8, TakeDoes DEF TakeFrame
  <2>2. Orderly
    BY <1>0, <1>8, <2>1 DEF TakeFrame, Orderly, GivenShapes, Shapes, OutageBegins
  <2>3. CASE lost
    <3>1. /\ engine' = FALSE /\ recovery' # None
          /\ recovery' \in [failures : 0..NoticeAfter, waiting : BOOLEAN]
      BY <1>8, <2>3, OutageIsOne DEF TakeFrame
    <3>2. EngineOrOutage' /\ ExitTold'
      BY <1>0, <1>8, <2>1, <3>1 DEF TakeFrame, EngineOrOutage, ExitTold
    <3> QED
      BY <1>0, <2>2, <3>1, <3>2, OrderlyKeeps
  <2>4. CASE ~lost
    <3>1. EngineOrOutage' /\ ExitTold' /\ UNCHANGED <<engine, recovery>>
      BY <1>0, <1>8, <2>1, <2>4 DEF TakeFrame, EngineOrOutage, ExitTold
    <3> QED
      BY <1>0, <2>2, <3>1, OrderlyKeeps DEF Shapes
  <2> QED
    BY <2>3, <2>4
<1>9. CASE TakeShutdown
  <2>1. capPc = "receiving" /\ commands' \in Seq(Command)
    BY <1>0, <1>9, TakeDoes DEF TakeShutdown
  <2>2. Orderly /\ EngineOrOutage' /\ ExitTold'
    BY <1>0, <1>9, <2>1 DEF TakeShutdown, LeaveLoop, Orderly, GivenShapes, Shapes,
       EngineOrOutage, ExitTold
  <2> QED
    BY <1>0, <1>9, <2>2, OrderlyKeeps DEF TakeShutdown, Shapes
<1> QED
  BY <1>1, <1>2, <1>3, <1>4, <1>5, <1>6, <1>7, <1>8, <1>9

\* Engine calls that fail, once or for good.
LEMMA FailingSteps ==
    ASSUME IInv,
           \/ EngineLostForGood \/ EngineRefuses \/ BackoffStopped
           \/ \E waiting \in BOOLEAN : NotRebuilt(waiting)
    PROVE  Outline' /\ Failed
<1>0. /\ Shapes /\ LastWord /\ ExitTold /\ EngineOrOutage /\ HandTells /\ capPc \in Calling
  BY DEF IInv, Tokens, EngineLostForGood, EngineRefuses, BackoffStopped, NotRebuilt, Calling
<1>1. Failed
  <2>1. \E k \in FailureNotices : CallFails(k)
    BY DEF EngineLostForGood, EngineRefuses, BackoffStopped, NotRebuilt
  <2> QED
    BY <1>0, <2>1, CallFailsDoes
<1>2. ASSUME notified' = notified PROVE Orderly
  BY <1>0, <1>1, <1>2 DEF Orderly, Failed, Shapes, CaptureStates, Purposes
<1>3. ExitTold'
  BY <1>0, <1>1 DEF ExitTold, Failed, Calling
<1>4. CASE EngineRefuses
  <2>1. UNCHANGED engineVars /\ capPc = "calling"
    BY <1>4 DEF EngineRefuses
  <2>2. EngineOrOutage'
    BY <1>0, <1>1, <2>1 DEF EngineOrOutage, Failed, engineVars
  <2> QED
    BY <1>0, <1>1, <1>2, <1>3, <2>1, <2>2, OrderlyKeeps DEF engineVars, Shapes
<1>5. CASE EngineLostForGood \/ BackoffStopped \/ \E waiting \in BOOLEAN : NotRebuilt(waiting)
  <2>1. PICK n \in Nat, w \in BOOLEAN, soon \in BOOLEAN : OutageBegins(n, w, soon)
    BY <1>0, <1>5 DEF EngineLostForGood, BackoffStopped, NotRebuilt, Shapes
  <2>2. /\ engine' = FALSE /\ recovery' # None /\ notified' = notified
        /\ recovery' \in [failures : 0..NoticeAfter, waiting : BOOLEAN]
    BY <2>1, OutageIsOne
  <2>3. EngineOrOutage'
    BY <1>1, <2>2 DEF EngineOrOutage, Failed
  <2> QED
    BY <1>0, <1>1, <1>2, <1>3, <2>2, <2>3, OrderlyKeeps
<1> QED
  BY <1>4, <1>5

\* Engine calls that succeed, and what is done with the pixels.
LEMMA DoneSteps ==
    ASSUME IInv,
           \/ CapturedForDestinations \/ CapturedForOverlay \/ DispatchFails
           \/ \E matches \in BOOLEAN : Confirmed(matches)
    PROVE  Outline'
<1>0. /\ Shapes /\ LastWord /\ ExitTold /\ EngineOrOutage /\ hand \in Attempt
      /\ capPc = "calling" /\ capPc' \in {"top", "fatal"} /\ purpose' = "none" /\ tries' = 0
      /\ UNCHANGED <<engine, recovery, notified, attempts, exitBy, commands>>
  BY DEF IInv, Tokens, HandTells, Calling, CapturedForDestinations, CapturedForOverlay,
     DispatchFails, Confirmed, CallDone, engineVars
<1>1. EngineOrOutage' /\ ExitTold'
  BY <1>0 DEF EngineOrOutage, ExitTold
<1>2. CASE CapturedForDestinations \/ DispatchFails
  <2>1. Move(hand, "ended") /\ UNCHANGED <<inFlight, job, selQueue, noticeVars>>
    BY <1>2 DEF CapturedForDestinations, DispatchFails
  <2>2. GivenShapes
    BY <1>0, <2>1, MoveDoes DEF GivenShapes, Shapes, Places
  <2> QED
    BY <1>0, <1>1, <2>1, <2>2, OrderlyKeeps DEF Orderly, Shapes, CaptureStates, Purposes
<1>3. CASE CapturedForOverlay
  <2>1. /\ UNCHANGED <<job, noticeVars>>
        /\ \/ /\ selQueue' = Append(selQueue, hand) /\ inFlight' = inFlight + 1
              /\ Move(hand, "queued")
           \/ Move(hand, "ended") /\ UNCHANGED <<selQueue, inFlight>>
    BY <1>3 DEF CapturedForOverlay
  <2>2. GivenShapes
    <3>1. place' \in [Attempt -> Places]
      BY <1>0, <2>1, MoveDoes DEF Places
    <3>2. selQueue' \in Seq(Attempt) /\ inFlight' \in Nat
      <4>1. CASE selQueue' = Append(selQueue, hand) /\ inFlight' = inFlight + 1
        BY <1>0, <4>1 DEF Shapes
      <4>2. CASE UNCHANGED <<selQueue, inFlight>>
        BY <1>0, <4>2 DEF Shapes
      <4> QED
        BY <2>1, <4>1, <4>2
    <3> QED
      BY <1>0, <2>1, <3>1, <3>2 DEF GivenShapes, Shapes
  <2> QED
    BY <1>0, <1>1, <2>1, <2>2, OrderlyKeeps DEF Orderly, Shapes, CaptureStates, Purposes
<1>4. ASSUME NEW matches \in BOOLEAN, Confirmed(matches) PROVE Outline'
  <2>1. \E state \in JobStates, also \in {<<>>, <<"other">>} : GiveBack(hand, state, also)
    BY <1>4 DEF Confirmed, JobStates
  <2>2. MoreOthers /\ GivenShapes
    BY <1>0, <2>1, GiveBackDoes
  <2> QED
    BY <1>0, <1>1, <2>2, OrderlyKeeps DEF Orderly, Shapes, CaptureStates, Purposes
<1> QED
  BY <1>2, <1>3, <1>4

\* What the selection worker, the recording thread and a press cannot touch.
Apart == /\ UNCHANGED <<engineVars, captureVars>>
         /\ job' = job

\* And one of a thread other than the capture thread.
LEMMA ApartKeeps ==
    ASSUME IInv, Apart, MoreOthers \/ UNCHANGED noticeVars,
           place' \in [Attempt -> Places], selQueue' \in Seq(Attempt),
           commands' \in Seq(Command)
    PROVE  Outline'
<1>1. Shapes /\ LastWord /\ EngineOrOutage' /\ ExitTold'
  BY DEF IInv, Apart, EngineOrOutage, ExitTold, engineVars, captureVars
<1>2. Orderly
  BY <1>1 DEF Apart, Orderly, GivenShapes, Shapes, engineVars, captureVars
<1> QED
  BY <1>1, <1>2, OrderlyKeeps DEF Apart, engineVars, Shapes

\* The selection worker and the person at its overlay.
LEMMA SelectionSteps ==
    ASSUME IInv, SelectionStep \/ OverlayStep
    PROVE  Outline'
<1>0. Shapes /\ OverlayTells
  BY DEF IInv, Tokens
<1> USE DEF unseenBySelection, Apart, jobVars, noticeVars
<1>1. CASE SelectionCheckStop
  BY <1>0, <1>1, ApartKeeps DEF SelectionCheckStop, Shapes
<1>2. CASE SelectionTake
  <2>1. Head(selQueue) \in Attempt /\ Tail(selQueue) \in Seq(Attempt)
    BY <1>0, <1>2, TailLeaves DEF SelectionTake, Shapes
  <2>2. place' \in [Attempt -> Places]
    BY <1>0, <1>2, <2>1, MoveDoes DEF SelectionTake, Places
  <2> QED
    BY <1>0, <1>2, <2>1, <2>2, ApartKeeps DEF SelectionTake, Shapes
<1>3. CASE SelectionPollTimeout
  BY <1>0, <1>3, ApartKeeps DEF SelectionPollTimeout, Shapes
<1>4. ASSUME NEW state, EndSelection(state)
      PROVE  /\ Apart /\ place' \in [Attempt -> Places] /\ selQueue' \in Seq(Attempt)
             /\ commands' \in Seq(Command)
  <2>1. selHand \in Attempt /\ Move(selHand, "closing")
    BY <1>0, <1>4 DEF EndSelection, OverlayTells
  <2>2. place' \in [Attempt -> Places]
    BY <1>0, <2>1, MoveDoes DEF Places
  <2> QED
    BY <1>0, <1>4, <2>2 DEF EndSelection, Shapes
<1>5. CASE FinishReturned
  BY <1>4, <1>5, ApartKeeps DEF FinishReturned
<1>6. ASSUME NEW sent \in {<<>>, <<"other">>}, CloseOverlay(sent) PROVE Outline'
  <2>1. MoreOthers
    BY <1>0, <1>6, FewOthers, OthersSent DEF CloseOverlay
  <2> QED
    BY <1>4, <1>6, <2>1, ApartKeeps DEF CloseOverlay
<1>7. CASE StartRecording
  <2>1. MoreOthers \/ UNCHANGED noticeVars
    BY <1>0, <1>7, FewOthers, OthersSent DEF StartRecording
  <2> QED
    BY <1>4, <1>7, <2>1, ApartKeeps DEF StartRecording
<1>8. CASE ConfirmLive
  <2>1. selHand \in Attempt
    BY <1>0, <1>8 DEF ConfirmLive, OverlayTells
  <2>2. place' \in [Attempt -> Places]
    BY <1>0, <1>8, <2>1, MoveDoes DEF ConfirmLive, Places
  <2>3. commands' \in Seq(Command)
    BY <1>0, <1>8, <2>1, SendDoes DEF ConfirmLive, CommandKinds, Shapes
  <2>4. MoreOthers \/ UNCHANGED noticeVars
    BY <1>0, <1>8, FewOthers, OthersSent DEF ConfirmLive
  <2> QED
    BY <1>0, <1>8, <2>2, <2>3, <2>4, ApartKeeps DEF ConfirmLive, Shapes
<1>9. CASE DropCompletion
  <2>1. selHand \in Attempt
    BY <1>0, <1>9 DEF DropCompletion, OverlayTells
  <2>2. place' \in [Attempt -> Places]
    BY <1>0, <1>9, <2>1, MoveDoes DEF DropCompletion, Places
  <2>3. commands' \in Seq(Command)
    BY <1>0, <1>9, <2>1, SendDoes DEF DropCompletion, CommandKinds, Shapes
  <2> QED
    BY <1>0, <1>9, <2>2, <2>3, ApartKeeps DEF DropCompletion, Shapes
<1> QED
  BY <1>1, <1>2, <1>3, <1>5, <1>6, <1>7, <1>8, <1>9 DEF SelectionStep, OverlayStep

\* The recording thread, presses and the event loop.
LEMMA OtherSteps ==
    ASSUME IInv,
           \/ RecordingStep \/ \E a \in Attempt : Press(a)
           \/ RequestShutdown \/ DaemonStep \/ TeardownPolls
    PROVE  Outline'
<1>0. Shapes /\ LastWord /\ EngineOrOutage /\ ExitTold
  BY DEF IInv
<1> USE DEF unseenByRecording, unseenByDaemon, Apart, jobVars
<1>1. CASE RecordingStep
  <2>1. commands' \in Seq(Command)
    BY <1>0, <1>1, SendDoes
    DEF RecordingStep, AskFrame, FrameTimeout, EndRecording, CommandKinds, Shapes
  <2> QED
    BY <1>0, <1>1, <2>1, ApartKeeps
    DEF RecordingStep, AskFrame, FrameTimeout, EndRecording, Shapes
<1>2. ASSUME NEW a \in Attempt, Press(a) PROVE Outline'
  <2>1. place' \in [Attempt -> Places]
    BY <1>0, <1>2, MoveDoes DEF Press, Places
  <2>2. commands' \in Seq(Command)
    BY <1>0, <1>2, SendDoes DEF Press, CommandKinds, Shapes
  <2> QED
    BY <1>0, <1>2, <2>1, <2>2, ApartKeeps DEF Press, Shapes
<1>3. CASE ShowNotice
  <2>1. EngineOrOutage' /\ ExitTold'
    BY <1>0, <1>3 DEF ShowNotice, EngineOrOutage, ExitTold, engineVars, captureVars
  <2> QED
    BY <1>0, <1>3, <2>1, ShownKeepsLastWord DEF Outline
<1>4. CASE RequestShutdown
  BY <1>0, <1>4, ApartKeeps DEF RequestShutdown, Shapes
<1>5. ASSUME TrySendShutdown PROVE commands' \in Seq(Command)
  BY <1>0, <1>5, SendDoes DEF TrySendShutdown, CommandKinds, Shapes
<1>6. CASE SendShutdown
  BY <1>0, <1>5, <1>6, ApartKeeps DEF SendShutdown, Shapes
<1>7. CASE BeginTeardown
  BY <1>0, <1>5, <1>7, ApartKeeps DEF BeginTeardown, Shapes
<1>8. CASE TeardownPolls
  BY <1>0, <1>8, ApartKeeps DEF TeardownPolls, vars, Shapes
<1> QED
  BY <1>1, <1>2, <1>3, <1>4, <1>6, <1>7, <1>8 DEF DaemonStep

\* Every step of the daemon keeps the types, the engine or its outage, and the
\* last word on it.
LEMMA OutlineKept == ASSUME IInv, Next PROVE Outline'
<1>1. CASE CaptureStep \/ RetryComesDue
  BY <1>1, QuietSteps, OutageSteps, CommandSteps, FailingSteps, DoneSteps DEF CaptureStep
<1>2. CASE SelectionStep \/ OverlayStep
  BY <1>2, SelectionSteps
<1>3. CASE \/ RecordingStep \/ \E a \in Attempt : Press(a)
           \/ RequestShutdown \/ DaemonStep \/ TeardownPolls
  BY <1>3, OtherSteps
<1> QED
  BY <1>1, <1>2, <1>3 DEF Next

-----------------------------------------------------------------------------
(* Where the attempts are.                                                 *)

\* The capture thread's hand is not disturbed by a move of another attempt ...
LEMMA HandStays ==
    ASSUME Shapes, HandTells, CapturingIsInHand, UNCHANGED <<capPc, hand, purpose>>,
           NEW a \in Attempt, place[a] \notin {"capturing", "confirming"},
           NEW to \in Places, to # "capturing", place' = [place EXCEPT ![a] = to]
    PROVE  HandTells' /\ CapturingIsInHand'
<1>1. place' [a] = to /\ \A b \in Attempt : b # a => place'[b] = place[b]
  BY DEF Shapes
<1> QED
  BY <1>1 DEF HandTells, CapturingIsInHand

\* ... and tells nothing once it is empty.
LEMMA HandLets ==
    ASSUME Shapes, CapturingIsInHand, capPc' \notin Calling,
           NEW a \in Attempt, capPc \notin Calling \/ a = hand,
           NEW to \in Places, to # "capturing", place' = [place EXCEPT ![a] = to]
    PROVE  HandTells' /\ CapturingIsInHand'
<1>1. place' [a] = to /\ \A b \in Attempt : b # a => place'[b] = place[b]
  BY DEF Shapes
<1> QED
  BY <1>1 DEF HandTells, CapturingIsInHand

\* The same for the selection worker.
LEMMA OverlayStays ==
    ASSUME Shapes, OverlayTells, UNCHANGED selVars,
           NEW a \in Attempt, place[a] \notin {"overlay", "closing"},
           NEW to \in Places, place' = [place EXCEPT ![a] = to]
    PROVE  OverlayTells'
<1>1. \A b \in Attempt : b # a => place'[b] = place[b]
  BY DEF Shapes
<1> QED
  BY <1>1 DEF OverlayTells, selVars

\* Steps that move no attempt.
Still == /\ UNCHANGED <<place, selQueue, hand>>
         /\ capPc \in Calling <=> capPc' \in Calling
         /\ capPc \in Calling =>
              purpose' = purpose \/ {purpose, purpose'} \subseteq {"validate", "capture"}
         /\ UNCHANGED selVars \/ selPc' \notin {"working", "closing"}

\* A step that moves no attempt leaves the tokens where they are.
LEMMA StillKeeps ==
    ASSUME Shapes, Tokens, Still, CommandsTell(commands', place)
    PROVE  Tokens'
BY DEF Still, Tokens, HandTells, OverlayTells, CapturingIsInHand, selVars

\* The steps of every thread that move no attempt and touch no command.
LEMMA StillSteps ==
    ASSUME IInv,
           \/ LeaveOnStop
           \/ LeaveAtLimit
           \/ LeaveFatally
           \/ NothingDue
           \/ SourceNotReady
           \/ EngineReturns
           \/ RetryComesDue
           \/ ReceiveTimeout
           \/ EngineLost
           \/ BackoffElapsed
           \/ Rebuilt
           \/ DisplaysCurrent
           \/ SelectionCheckStop
           \/ SelectionPollTimeout
           \/ FrameTimeout
           \/ EndRecording
           \/ ShowNotice
           \/ RequestShutdown
           \/ TeardownPolls
           \/ \E waiting \in BOOLEAN : EngineStaysAway(waiting)
    PROVE  Tokens'
<1>0. Shapes /\ Tokens /\ CommandsTell(commands, place) /\ HandTells
  BY DEF IInv, Tokens
<1> USE DEF captureVars, jobVars, selVars, Still, Calling
<1>1. CASE LeaveOnStop
  BY <1>0, <1>1, StillKeeps DEF LeaveOnStop, LeaveLoop
<1>2. CASE LeaveAtLimit
  BY <1>0, <1>2, StillKeeps DEF LeaveAtLimit, LeaveLoop
<1>3. CASE LeaveFatally
  BY <1>0, <1>3, StillKeeps DEF LeaveFatally, LeaveLoop
<1>4. CASE NothingDue
  BY <1>0, <1>4, StillKeeps DEF NothingDue, GoOn
<1>5. CASE SourceNotReady
  BY <1>0, <1>5, StillKeeps DEF SourceNotReady, GoOn
<1>6. CASE EngineReturns
  BY <1>0, <1>6, StillKeeps DEF EngineReturns, GoOn
<1>7. CASE RetryComesDue
  BY <1>0, <1>7, StillKeeps DEF RetryComesDue
<1>8. CASE ReceiveTimeout
  BY <1>0, <1>8, StillKeeps DEF ReceiveTimeout
<1>9. CASE EngineLost
  BY <1>0, <1>9, StillKeeps DEF EngineLost
<1>10. CASE BackoffElapsed
  BY <1>0, <1>10, StillKeeps DEF BackoffElapsed
<1>11. CASE Rebuilt
  BY <1>0, <1>11, StillKeeps DEF Rebuilt
<1>12. CASE DisplaysCurrent
  BY <1>0, <1>12, StillKeeps DEF DisplaysCurrent
<1>13. CASE SelectionCheckStop
  BY <1>0, <1>13, StillKeeps DEF SelectionCheckStop, unseenBySelection
<1>14. CASE SelectionPollTimeout
  BY <1>0, <1>14, StillKeeps DEF SelectionPollTimeout, unseenBySelection
<1>15. CASE FrameTimeout
  BY <1>0, <1>15, StillKeeps DEF FrameTimeout, unseenByRecording
<1>16. CASE EndRecording
  BY <1>0, <1>16, StillKeeps DEF EndRecording, unseenByRecording
<1>17. CASE ShowNotice
  BY <1>0, <1>17, StillKeeps DEF ShowNotice, unseenByDaemon
<1>18. CASE RequestShutdown
  BY <1>0, <1>18, StillKeeps DEF RequestShutdown, unseenByDaemon
<1>19. CASE TeardownPolls
  BY <1>0, <1>19, StillKeeps DEF TeardownPolls, vars
<1>20. ASSUME NEW waiting \in BOOLEAN, EngineStaysAway(waiting) PROVE Tokens'
  BY <1>0, <1>20, StillKeeps DEF EngineStaysAway, GoOn
<1> QED
  BY <1>1, <1>2, <1>3, <1>4, <1>5, <1>6, <1>7, <1>8, <1>9, <1>10, <1>11, <1>12, <1>13, <1>14, <1>15, <1>16, <1>17, <1>18, <1>19, <1>20

\* Commands without an attempt.
LEMMA PlainSteps ==
    ASSUME IInv,
           \/ AskFrame \/ SendShutdown \/ BeginTeardown \/ TakeShutdown
           \/ \E lost \in BOOLEAN : TakeFrame(lost)
    PROVE  Tokens'
<1>0. Shapes /\ Tokens /\ CommandsTell(commands, place) /\ commands \in Seq(Command)
  BY DEF IInv, Tokens, Shapes
<1>1. Still
  BY DEF AskFrame, SendShutdown, BeginTeardown, TakeShutdown, TakeFrame, Take, LeaveLoop,
     unseenByRecording, unseenByDaemon, captureVars, jobVars, selVars, Still, Calling
<1>2. CommandsTell(commands', place)
  <2>1. CASE commands' = commands
    BY <1>0, <2>1
  <2>2. ASSUME NEW k \in {"frame", "shutdown"}, commands' = Append(commands, Cmd(k, None))
        PROVE  CommandsTell(commands', place)
    BY <1>0, <2>2, PlainSent
  <2>3. CASE commands # <<>> /\ commands' = Tail(commands)
    BY <1>0, <2>3, PlainTaken
  <2> QED
    BY <2>1, <2>2, <2>3 DEF AskFrame, SendShutdown, BeginTeardown, TrySendShutdown,
       TakeShutdown, TakeFrame, Take
<1> QED
  BY <1>0, <1>1, <1>2, StillKeeps

\* A command is taken, and its attempt is seen to at once.
LEMMA TakingSteps ==
    ASSUME IInv, NEW kind \in Carrying, Take(kind), NEW to \in Places,
           place' = [place EXCEPT ![Taken] = to], UNCHANGED selVars,
           \/ to \notin {"capturing", "queued"} /\ selQueue' = selQueue /\ capPc' \notin Calling
           \/ /\ to = "queued" /\ selQueue' = Append(selQueue, Taken) /\ capPc' \notin Calling
           \/ /\ selQueue' = selQueue /\ capPc' = "calling" /\ hand' = Taken
              /\ \/ to = "capturing" /\ purpose' \in {"validate", "capture"}
                 \/ to = "confirming" /\ purpose' = "confirm"
    PROVE  Tokens'
<1>0. /\ Shapes /\ Tokens /\ CommandsTell(commands, place) /\ QueueTells(selQueue, place)
      /\ OverlayTells /\ CapturingIsInHand
      /\ commands \in Seq(Command) /\ selQueue \in Seq(Attempt)
      /\ place \in [Attempt -> Places]
  BY DEF IInv, Tokens, Shapes
<1>1. /\ capPc \notin Calling /\ commands # <<>> /\ commands' = Tail(commands)
      /\ Head(commands).kind = kind /\ Taken = Head(commands).of
      /\ Taken \in Attempt /\ place[Taken] \in {"pressed", "confirmed", "reported"}
  BY <1>0, TakeDoes DEF Calling, Carrying, PlaceOf, Taken
<1>2. \A b \in Attempt : b # Taken => place'[b] = place[b]
  BY <1>0
<1>3. place'[Taken] = to
  BY <1>0, <1>1
<1>4. CommandsTell(commands', place')
  BY <1>0, <1>1, <1>2, CommandTaken
<1>5. OverlayTells'
  BY <1>0, <1>1, OverlayStays
<1>6. QueueTells(selQueue', place')
  <2>0. place[Taken] # "queued"
    BY <1>1
  <2>1. CASE selQueue' = selQueue
    BY <1>0, <1>1, <2>0, <2>1, QueueKeeps
  <2>2. CASE to = "queued" /\ selQueue' = Append(selQueue, Taken)
    BY <1>0, <1>1, <2>0, <2>2, QueueSent
  <2> QED
    BY <2>1, <2>2
<1>7. HandTells' /\ CapturingIsInHand'
  <2>1. CASE capPc' \notin Calling /\ to # "capturing"
    BY <1>0, <1>1, <2>1, HandLets
  <2>2. CASE /\ capPc' = "calling" /\ hand' = Taken
             /\ \/ to = "capturing" /\ purpose' \in {"validate", "capture"}
                \/ to = "confirming" /\ purpose' = "confirm"
    BY <1>0, <1>1, <1>2, <1>3, <2>2 DEF HandTells, CapturingIsInHand, Calling
  <2> QED
    BY <2>1, <2>2
<1> QED
  BY <1>4, <1>5, <1>6, <1>7 DEF Tokens

\* The commands of that kind.
LEMMA TriggersKeepTokens ==
    ASSUME IInv,
           \/ RefuseTrigger \/ IgnoreTrigger \/ SpendTrigger \/ BeginTrigger
           \/ TakeLiveWithoutEngine \/ TakeLive \/ TakeFinished
    PROVE  Tokens'
<1>0. Shapes /\ CommandsTell(commands, place)
  BY DEF IInv, Tokens
<1> USE DEF Carrying, Places, Calling, Move
<1>1. CASE RefuseTrigger
  <2>1. /\ Take("trigger") /\ UNCHANGED <<selQueue, selVars>>
        /\ place' = [place EXCEPT ![Taken] = "refused"]
    BY <1>1 DEF RefuseTrigger
  <2> QED
    BY <1>1, <2>1, TakingSteps DEF RefuseTrigger, CallEngine
<1>2. CASE IgnoreTrigger
  <2>1. /\ Take("trigger") /\ UNCHANGED <<selQueue, selVars>>
        /\ place' = [place EXCEPT ![Taken] = "refused"]
    BY <1>2 DEF IgnoreTrigger
  <2> QED
    BY <1>2, <2>1, TakingSteps DEF IgnoreTrigger, CallEngine
<1>3. CASE SpendTrigger
  <2>1. /\ Take("trigger") /\ UNCHANGED <<selQueue, selVars>>
        /\ place' = [place EXCEPT ![Taken] = "ended"]
    BY <1>3 DEF SpendTrigger
  <2> QED
    BY <1>3, <2>1, TakingSteps DEF SpendTrigger, CallEngine
<1>4. CASE BeginTrigger
  <2>1. /\ Take("trigger") /\ UNCHANGED <<selQueue, selVars>>
        /\ place' = [place EXCEPT ![Taken] = "capturing"]
    BY <1>4 DEF BeginTrigger
  <2> QED
    BY <1>4, <2>1, TakingSteps DEF BeginTrigger, CallEngine
<1>5. CASE TakeLive
  <2>1. /\ Take("live") /\ UNCHANGED <<selQueue, selVars>>
        /\ place' = [place EXCEPT ![Taken] = "confirming"]
    BY <1>5 DEF TakeLive
  <2> QED
    BY <1>5, <2>1, TakingSteps DEF TakeLive, CallEngine
<1>6. CASE TakeFinished
  <2>1. /\ Take("finished") /\ UNCHANGED <<selQueue, selVars>>
        /\ place' = [place EXCEPT ![Taken] = "ended"]
    BY <1>6 DEF TakeFinished
  <2> QED
    BY <1>6, <2>1, TakingSteps DEF TakeFinished, CallEngine
<1>7. CASE TakeLiveWithoutEngine
  <2>1. Take("live") /\ capPc' = "top" /\ UNCHANGED selVars
    BY <1>7 DEF TakeLiveWithoutEngine
  <2>2. GivenBack(Taken)
    BY <1>0, <1>7, <2>1, TakeDoes, GiveBackDoes DEF TakeLiveWithoutEngine, JobStates
  <2> QED
    BY <2>1, <2>2, TakingSteps DEF GivenBack
<1> QED
  BY <1>1, <1>2, <1>3, <1>4, <1>5, <1>6, <1>7

\* The capture thread lets go of the attempt in its hand.
LEMMA LettingGo ==
    ASSUME IInv, capPc \in Calling, capPc' \notin Calling, UNCHANGED <<commands, selVars>>,
           \/ selQueue' = selQueue /\ place' = [place EXCEPT ![hand] = "ended"]
           \/ selQueue' = Append(selQueue, hand) /\ place' = [place EXCEPT ![hand] = "queued"]
    PROVE  Tokens'
<1>0. /\ Shapes /\ CommandsTell(commands, place) /\ QueueTells(selQueue, place)
      /\ OverlayTells /\ CapturingIsInHand /\ hand \in Attempt
      /\ place[hand] \in {"capturing", "confirming"}
      /\ commands \in Seq(Command) /\ selQueue \in Seq(Attempt)
      /\ place \in [Attempt -> Places] /\ {"ended", "queued"} \subseteq Places
  BY DEF IInv, Tokens, Shapes, HandTells, Places
<1>1. ASSUME NEW to \in {"ended", "queued"}, place' = [place EXCEPT ![hand] = to]
      PROVE  /\ CommandsTell(commands', place') /\ OverlayTells'
             /\ HandTells' /\ CapturingIsInHand'
  <2>1. CommandsTell(commands', place')
    BY <1>0, <1>1, CommandsKeep
  <2>2. OverlayTells'
    BY <1>0, <1>1, OverlayStays
  <2>3. HandTells' /\ CapturingIsInHand'
    BY <1>0, <1>1, HandLets
  <2> QED
    BY <2>1, <2>2, <2>3
<1>2. QueueTells(selQueue', place')
  <2>0. place[hand] # "queued"
    BY <1>0
  <2>1. CASE selQueue' = selQueue /\ place' = [place EXCEPT ![hand] = "ended"]
    BY <1>0, <2>0, <2>1, QueueKeeps
  <2>2. CASE selQueue' = Append(selQueue, hand) /\ place' = [place EXCEPT ![hand] = "queued"]
    BY <1>0, <2>0, <2>2, QueueSent
  <2> QED
    BY <2>1, <2>2
<1> QED
  BY <1>1, <1>2 DEF Tokens

\* Engine calls that end, well or badly.
LEMMA CallsKeepTokens ==
    ASSUME IInv,
           \/ EngineLostForGood \/ EngineRefuses \/ BackoffStopped
           \/ \E waiting \in BOOLEAN : NotRebuilt(waiting)
           \/ CapturedForDestinations \/ CapturedForOverlay \/ DispatchFails
           \/ \E matches \in BOOLEAN : Confirmed(matches)
    PROVE  Tokens'
<1>1. CASE \/ EngineLostForGood \/ EngineRefuses \/ BackoffStopped
           \/ \E waiting \in BOOLEAN : NotRebuilt(waiting)
  <2>1. Failed
    BY <1>1, FailingSteps
  <2>2. capPc' \notin Calling /\ capPc \in Calling /\ UNCHANGED <<commands, selVars>>
    BY <2>1 DEF Failed, Calling
  <2> QED
    BY <2>1, <2>2, LettingGo DEF Failed, GivenBack
<1>2. CASE CapturedForDestinations \/ CapturedForOverlay \/ DispatchFails
  <2>1. capPc' \notin Calling /\ capPc \in Calling /\ UNCHANGED <<commands, selVars>>
    BY <1>2 DEF CapturedForDestinations, CapturedForOverlay, DispatchFails, CallDone, Calling
  <2> QED
    BY <1>2, <2>1, LettingGo
    DEF CapturedForDestinations, CapturedForOverlay, DispatchFails, Move
<1>3. ASSUME NEW matches \in BOOLEAN, Confirmed(matches) PROVE Tokens'
  <2>1. /\ capPc' \notin Calling /\ capPc \in Calling /\ UNCHANGED <<commands, selVars>>
        /\ Shapes /\ hand \in Attempt
    BY <1>3 DEF Confirmed, CallDone, Calling, IInv, Tokens, HandTells
  <2>2. \E state \in JobStates, also \in {<<>>, <<"other">>} : GiveBack(hand, state, also)
    BY <1>3 DEF Confirmed, JobStates
  <2>3. GivenBack(hand)
    BY <2>1, <2>2, GiveBackDoes
  <2> QED
    BY <2>1, <2>3, LettingGo DEF GivenBack
<1> QED
  BY <1>1, <1>2, <1>3

\* The selection worker, its overlay, and a press.
LEMMA WorkerKeepsTokens ==
    ASSUME IInv,
           \/ SelectionTake \/ FinishReturned \/ DropCompletion \/ OverlayStep
           \/ \E a \in Attempt : Press(a)
    PROVE  Tokens'
<1>0. /\ Shapes /\ CommandsTell(commands, place) /\ QueueTells(selQueue, place)
      /\ HandTells /\ OverlayTells /\ CapturingIsInHand
      /\ commands \in Seq(Command) /\ selQueue \in Seq(Attempt)
      /\ place \in [Attempt -> Places]
      /\ {"overlay", "closing", "confirmed", "reported", "unreported", "pressed", "dropped"}
           \subseteq Places
      /\ {"trigger", "live", "finished"} \subseteq Carrying
      /\ PlaceOf("trigger") = "pressed" /\ PlaceOf("live") = "confirmed"
      /\ PlaceOf("finished") = "reported"
  BY DEF IInv, Tokens, Shapes, Places, Carrying, PlaceOf
<1> USE DEF Move
<1>1. CASE SelectionTake
  <2>1. /\ selQueue # <<>> /\ selQueue' = Tail(selQueue) /\ Head(selQueue) \in Attempt
        /\ place[Head(selQueue)] = "queued"
        /\ place' = [place EXCEPT ![Head(selQueue)] = "overlay"]
        /\ selPc' = "working" /\ selHand' = Head(selQueue)
        /\ UNCHANGED <<commands, capPc, hand, purpose>>
    BY <1>0, <1>1, TailLeaves
    DEF SelectionTake, QueueTells, unseenBySelection, captureVars
  <2>2. CommandsTell(commands', place')
    BY <1>0, <2>1, CommandsKeep
  <2>3. QueueTells(selQueue', place')
    BY <1>0, <2>1, QueueTaken
  <2>4. HandTells' /\ CapturingIsInHand'
    BY <1>0, <2>1, HandStays
  <2>5. OverlayTells'
    BY <1>0, <2>1 DEF OverlayTells
  <2> QED
    BY <2>2, <2>3, <2>4, <2>5 DEF Tokens
<1>2. ASSUME NEW state, EndSelection(state) PROVE Tokens'
  <2>1. /\ selHand \in Attempt /\ place[selHand] = "overlay"
        /\ place' = [place EXCEPT ![selHand] = "closing"]
        /\ selPc' = "closing" /\ selHand' = selHand
        /\ UNCHANGED <<commands, selQueue, capPc, hand, purpose>>
    BY <1>0, <1>2 DEF EndSelection, OverlayTells, unseenBySelection, captureVars
  <2>2. CommandsTell(commands', place') /\ QueueTells(selQueue', place')
    BY <1>0, <2>1, CommandsKeep, QueueKeeps
  <2>3. HandTells' /\ CapturingIsInHand'
    BY <1>0, <2>1, HandStays
  <2>4. OverlayTells'
    BY <1>0, <2>1 DEF OverlayTells
  <2> QED
    BY <2>2, <2>3, <2>4 DEF Tokens
<1>3. CASE ConfirmLive
  <2>1. /\ selHand \in Attempt /\ place[selHand] = "overlay"
        /\ UNCHANGED <<selQueue, capPc, hand, purpose>>
    BY <1>0, <1>3 DEF ConfirmLive, OverlayTells, unseenBySelection, captureVars
  <2>2. CASE CommandRoom
    <3>1. /\ commands' = Append(commands, Cmd("live", selHand)) /\ selPc' = "top"
          /\ place' = [place EXCEPT ![selHand] = "confirmed"]
      BY <1>3, <2>2 DEF ConfirmLive
    <3>2. CommandsTell(commands', place') /\ QueueTells(selQueue', place')
      BY <1>0, <2>1, <3>1, CommandSent, QueueKeeps
    <3>3. HandTells' /\ CapturingIsInHand'
      BY <1>0, <2>1, <3>1, HandStays
    <3>4. OverlayTells'
      BY <3>1 DEF OverlayTells
    <3> QED
      BY <3>2, <3>3, <3>4 DEF Tokens
  <2>3. CASE ~CommandRoom
    <3>1. /\ commands' = commands /\ selPc' = "closing" /\ selHand' = selHand
          /\ place' = [place EXCEPT ![selHand] = "closing"]
      BY <1>3, <2>3 DEF ConfirmLive
    <3>2. CommandsTell(commands', place') /\ QueueTells(selQueue', place')
      BY <1>0, <2>1, <3>1, CommandsKeep, QueueKeeps
    <3>3. HandTells' /\ CapturingIsInHand'
      BY <1>0, <2>1, <3>1, HandStays
    <3>4. OverlayTells'
      BY <1>0, <2>1, <3>1 DEF OverlayTells
    <3> QED
      BY <3>2, <3>3, <3>4 DEF Tokens
  <2> QED
    BY <2>2, <2>3
<1>4. CASE DropCompletion
  <2>1. /\ selHand \in Attempt /\ place[selHand] = "closing" /\ selPc' = "top"
        /\ UNCHANGED <<selQueue, capPc, hand, purpose>>
    BY <1>0, <1>4 DEF DropCompletion, OverlayTells, unseenBySelection, captureVars
  <2>2. PICK to \in {"reported", "unreported"} : place' = [place EXCEPT ![selHand] = to]
    BY <1>4 DEF DropCompletion
  <2>3. CommandsTell(commands', place')
    <3>1. CASE CommandRoom
      <4>1. /\ commands' = Append(commands, Cmd("finished", selHand))
            /\ place' = [place EXCEPT ![selHand] = "reported"]
        BY <1>4, <3>1 DEF DropCompletion
      <4> QED
        BY <1>0, <2>1, <4>1, CommandSent
    <3>2. CASE ~CommandRoom
      <4>1. commands' = commands
        BY <1>4, <3>2 DEF DropCompletion
      <4> QED
        BY <1>0, <2>1, <2>2, <4>1, CommandsKeep
    <3> QED
      BY <3>1, <3>2
  <2>4. QueueTells(selQueue', place')
    BY <1>0, <2>1, <2>2, QueueKeeps
  <2>5. HandTells' /\ CapturingIsInHand'
    BY <1>0, <2>1, <2>2, HandStays
  <2>6. OverlayTells'
    BY <2>1 DEF OverlayTells
  <2> QED
    BY <2>3, <2>4, <2>5, <2>6 DEF Tokens
<1>5. ASSUME NEW a \in Attempt, Press(a) PROVE Tokens'
  <2>1. /\ place[a] = "idle" /\ UNCHANGED <<selQueue, selVars, capPc, hand, purpose>>
    BY <1>5 DEF Press, unseenByDaemon, captureVars
  <2>2. PICK to \in {"pressed", "dropped"} : place' = [place EXCEPT ![a] = to]
    BY <1>5 DEF Press
  <2>3. CommandsTell(commands', place')
    <3>1. CASE CommandRoom
      <4>1. /\ commands' = Append(commands, Cmd("trigger", a))
            /\ place' = [place EXCEPT ![a] = "pressed"]
        BY <1>5, <3>1 DEF Press
      <4> QED
        BY <1>0, <2>1, <4>1, CommandSent
    <3>2. CASE ~CommandRoom
      <4>1. commands' = commands
        BY <1>5, <3>2 DEF Press
      <4> QED
        BY <1>0, <2>1, <2>2, <4>1, CommandsKeep
    <3> QED
      BY <3>1, <3>2
  <2>4. QueueTells(selQueue', place')
    BY <1>0, <2>1, <2>2, QueueKeeps
  <2>5. HandTells' /\ CapturingIsInHand'
    BY <1>0, <2>1, <2>2, HandStays
  <2>6. OverlayTells'
    BY <1>0, <2>1, <2>2, OverlayStays
  <2> QED
    BY <2>3, <2>4, <2>5, <2>6 DEF Tokens
<1> QED
  BY <1>1, <1>2, <1>3, <1>4, <1>5
  DEF OverlayStep, FinishReturned, CloseOverlay, StartRecording

\* Every step of the daemon keeps each attempt where its token says it is.
LEMMA TokensKept == ASSUME IInv, Next PROVE Tokens'
BY StillSteps, PlainSteps, TriggersKeepTokens, CallsKeepTokens, WorkerKeepsTokens
DEF Next, CaptureStep, SelectionStep, RecordingStep, DaemonStep

-----------------------------------------------------------------------------
(* Counting.                                                               *)

OwedPlaces == {"queued", "overlay", "confirmed", "confirming", "closing", "reported",
               "unreported"}

\* One attempt goes one step of its way, and is counted as it goes.
Goes(a, to) ==
    /\ place' = [place EXCEPT ![a] = to]
    /\ exitBy' = exitBy
    /\ \/ /\ place[a] \in {"idle", "pressed"} /\ to \in {"pressed", "dropped", "refused"}
          /\ UNCHANGED <<attempts, inFlight>>
       \/ /\ place[a] = "pressed" /\ to \in {"capturing", "ended"}
          /\ exitBy = "none" /\ ~BudgetExhausted
          /\ attempts' = attempts + 1 /\ inFlight' = inFlight
       \/ /\ place[a] = "capturing" /\ to = "ended"
          /\ UNCHANGED <<attempts, inFlight>>
       \/ /\ place[a] = "capturing" /\ to = "queued"
          /\ attempts' = attempts /\ inFlight' = inFlight + 1
       \/ /\ place[a] \in {"confirmed", "confirming", "reported"} /\ to = "ended"
          /\ attempts' = attempts /\ inFlight' = OneFewer
       \/ /\ place[a] \in OwedPlaces /\ to \in OwedPlaces
          /\ place[a] \in EndedPlaces => to \in EndedPlaces
          /\ UNCHANGED <<attempts, inFlight>>

\* No attempt goes anywhere; the capture thread may leave.
Stays ==
    /\ UNCHANGED <<place, attempts, inFlight>>
    /\ \/ exitBy' = exitBy
       \/ exitBy = "none" /\ exitBy' \in {"stop", "shutdown", "fatal"}
       \/ exitBy = "none" /\ exitBy' = "limit" /\ capPc = "top" /\ LimitReached

Counted == Stays \/ \E a \in Attempt, to \in Places : Goes(a, to)

\* The steps of the capture thread that touch no attempt, and those of the others.
LEMMA StayingSteps ==
    ASSUME IInv,
           \/ LeaveOnStop \/ LeaveAtLimit \/ LeaveFatally \/ TakeShutdown
           \/ NothingDue \/ SourceNotReady \/ EngineReturns \/ RetryComesDue
           \/ \E waiting \in BOOLEAN : EngineStaysAway(waiting)
           \/ ReceiveTimeout \/ EngineLost \/ BackoffElapsed \/ Rebuilt \/ DisplaysCurrent
           \/ \E lost \in BOOLEAN : TakeFrame(lost)
           \/ SelectionCheckStop \/ SelectionPollTimeout
           \/ RecordingStep \/ RequestShutdown \/ DaemonStep \/ TeardownPolls
    PROVE  Stays
<1>0. ExitTold
  BY DEF IInv
<1> USE DEF Stays, captureVars, jobVars
<1>1. CASE LeaveOnStop \/ LeaveFatally \/ TakeShutdown
  BY <1>0, <1>1 DEF LeaveOnStop, LeaveFatally, TakeShutdown, Take, LeaveLoop, ExitTold
<1>2. CASE LeaveAtLimit
  BY <1>0, <1>2 DEF LeaveAtLimit, LeaveLoop, ExitTold
<1>3. CASE \/ NothingDue \/ SourceNotReady \/ EngineReturns \/ RetryComesDue
           \/ \E waiting \in BOOLEAN : EngineStaysAway(waiting)
  BY <1>3 DEF NothingDue, SourceNotReady, EngineReturns, RetryComesDue, EngineStaysAway, GoOn
<1>4. CASE \/ ReceiveTimeout \/ EngineLost \/ BackoffElapsed \/ Rebuilt \/ DisplaysCurrent
           \/ \E lost \in BOOLEAN : TakeFrame(lost)
  BY <1>4 DEF ReceiveTimeout, EngineLost, BackoffElapsed, Rebuilt, DisplaysCurrent, TakeFrame
<1>5. CASE SelectionCheckStop \/ SelectionPollTimeout
  BY <1>5 DEF SelectionCheckStop, SelectionPollTimeout, unseenBySelection
<1>6. CASE RecordingStep
  BY <1>6 DEF RecordingStep, AskFrame, FrameTimeout, EndRecording, unseenByRecording
<1>7. CASE RequestShutdown \/ DaemonStep
  BY <1>7 DEF RequestShutdown, DaemonStep, ShowNotice, SendShutdown, BeginTeardown,
     unseenByDaemon
<1>8. CASE TeardownPolls
  BY <1>8 DEF TeardownPolls, vars
<1> QED
  BY <1>1, <1>2, <1>3, <1>4, <1>5, <1>6, <1>7, <1>8

\* Every step of the daemon that begins, moves or ends an attempt counts it.
LEMMA GoingSteps ==
    ASSUME IInv,
           \/ RefuseTrigger \/ IgnoreTrigger \/ SpendTrigger \/ BeginTrigger
           \/ TakeLiveWithoutEngine \/ TakeLive \/ TakeFinished
           \/ EngineLostForGood \/ EngineRefuses \/ BackoffStopped
           \/ \E waiting \in BOOLEAN : NotRebuilt(waiting)
           \/ CapturedForDestinations \/ CapturedForOverlay \/ DispatchFails
           \/ \E matches \in BOOLEAN : Confirmed(matches)
           \/ SelectionTake \/ FinishReturned \/ DropCompletion \/ OverlayStep
           \/ \E a \in Attempt : Press(a)
    PROVE  \E a \in Attempt, to \in Places : Goes(a, to)
<1>0. /\ Shapes /\ ExitTold /\ CommandsTell(commands, place) /\ QueueTells(selQueue, place)
      /\ HandTells /\ OverlayTells /\ selQueue \in Seq(Attempt)
  BY DEF IInv, Tokens, Shapes
<1> USE DEF Move, Places, OwedPlaces, EndedPlaces
<1>1. ASSUME NEW kind \in Carrying, Take(kind)
      PROVE  Taken \in Attempt /\ place[Taken] = PlaceOf(kind) /\ exitBy = "none"
  BY <1>0, <1>1, TakeDoes DEF ExitTold
<1>2. PlaceOf("trigger") = "pressed" /\ PlaceOf("live") = "confirmed"
      /\ PlaceOf("finished") = "reported"
  BY DEF PlaceOf
<1>3. ASSUME NEW a \in Attempt, place[a] \in {"confirmed", "confirming"}, GivenBack(a),
             UNCHANGED <<attempts, exitBy>>
      PROVE  Goes(a, "queued") \/ Goes(a, "ended")
  BY <1>3 DEF GivenBack, Goes
<1>4. CASE RefuseTrigger \/ IgnoreTrigger
  <2>1. Taken \in Attempt /\ place[Taken] = "pressed"
    BY <1>1, <1>2, <1>4 DEF RefuseTrigger, IgnoreTrigger, Carrying
  <2>2. Goes(Taken, "refused")
    BY <1>4, <2>1 DEF RefuseTrigger, IgnoreTrigger, Goes
  <2> QED
    BY <2>1, <2>2
<1>5. CASE SpendTrigger
  <2>1. Taken \in Attempt /\ place[Taken] = "pressed" /\ exitBy = "none"
    BY <1>1, <1>2, <1>5 DEF SpendTrigger, Carrying
  <2>2. Goes(Taken, "ended")
    BY <1>5, <2>1 DEF SpendTrigger, Goes
  <2> QED
    BY <2>1, <2>2
<1>6. CASE BeginTrigger
  <2>1. Taken \in Attempt /\ place[Taken] = "pressed" /\ exitBy = "none"
    BY <1>1, <1>2, <1>6 DEF BeginTrigger, Carrying
  <2>2. Goes(Taken, "capturing")
    BY <1>6, <2>1 DEF BeginTrigger, Goes
  <2> QED
    BY <2>1, <2>2
<1>7. CASE TakeLiveWithoutEngine
  <2>1. Taken \in Attempt /\ place[Taken] = "confirmed"
    BY <1>1, <1>2, <1>7 DEF TakeLiveWithoutEngine, Carrying
  <2>2. GivenBack(Taken) /\ UNCHANGED <<attempts, exitBy>>
    BY <1>0, <1>7, <2>1, GiveBackDoes DEF TakeLiveWithoutEngine, JobStates
  <2> QED
    BY <1>3, <2>1, <2>2
<1>8. CASE TakeLive
  <2>1. Taken \in Attempt /\ place[Taken] = "confirmed"
    BY <1>1, <1>2, <1>8 DEF TakeLive, Carrying
  <2>2. Goes(Taken, "confirming")
    BY <1>8, <2>1 DEF TakeLive, Goes
  <2> QED
    BY <2>1, <2>2
<1>9. CASE TakeFinished
  <2>1. Taken \in Attempt /\ place[Taken] = "reported"
    BY <1>1, <1>2, <1>9 DEF TakeFinished, Carrying
  <2>2. Goes(Taken, "ended")
    BY <1>9, <2>1 DEF TakeFinished, Goes
  <2> QED
    BY <2>1, <2>2
<1>10. CASE \/ EngineLostForGood \/ EngineRefuses \/ BackoffStopped
            \/ \E waiting \in BOOLEAN : NotRebuilt(waiting)
  <2>1. Failed
    BY <1>10, FailingSteps
  <2>2. hand \in Attempt
    BY <1>0, <2>1 DEF HandTells, Failed
  <2>3. CASE purpose = "confirm"
    <3>1. place[hand] = "confirming"
      BY <1>0, <2>1, <2>3 DEF HandTells, Failed
    <3> QED
      BY <1>3, <2>1, <2>2, <2>3, <3>1 DEF Failed
  <2>4. CASE purpose # "confirm"
    <3>1. place[hand] = "capturing"
      BY <1>0, <2>1, <2>4 DEF HandTells, Failed
    <3>2. Goes(hand, "ended")
      BY <2>1, <2>4, <3>1 DEF Failed, Goes
    <3> QED
      BY <2>2, <3>2
  <2> QED
    BY <2>3, <2>4
<1>11. CASE CapturedForDestinations \/ CapturedForOverlay \/ DispatchFails
  <2>1. /\ hand \in Attempt /\ place[hand] = "capturing" /\ UNCHANGED <<attempts, exitBy>>
    BY <1>0, <1>11 DEF CapturedForDestinations, CapturedForOverlay, DispatchFails, CallDone,
       HandTells, Calling
  <2>2. Goes(hand, "ended") \/ Goes(hand, "queued")
    BY <1>11, <2>1 DEF CapturedForDestinations, CapturedForOverlay, DispatchFails, Goes
  <2> QED
    BY <2>1, <2>2
<1>12. ASSUME NEW matches \in BOOLEAN, Confirmed(matches)
       PROVE  \E a \in Attempt, to \in Places : Goes(a, to)
  <2>1. hand \in Attempt /\ place[hand] = "confirming" /\ UNCHANGED <<attempts, exitBy>>
    BY <1>0, <1>12 DEF Confirmed, CallDone, HandTells, Calling
  <2>2. \E state \in JobStates, also \in {<<>>, <<"other">>} : GiveBack(hand, state, also)
    BY <1>12 DEF Confirmed, JobStates
  <2>3. GivenBack(hand)
    BY <1>0, <2>1, <2>2, GiveBackDoes
  <2> QED
    BY <1>3, <2>1, <2>3
<1>13. CASE SelectionTake
  <2>1. Head(selQueue) \in Attempt /\ place[Head(selQueue)] = "queued"
    BY <1>0, <1>13, TailLeaves DEF SelectionTake, QueueTells
  <2>2. Goes(Head(selQueue), "overlay")
    BY <1>13, <2>1 DEF SelectionTake, Goes, unseenBySelection, captureVars
  <2> QED
    BY <2>1, <2>2
<1>14. ASSUME NEW state, EndSelection(state)
       PROVE  \E a \in Attempt, to \in Places : Goes(a, to)
  <2>1. selHand \in Attempt /\ place[selHand] = "overlay"
    BY <1>0, <1>14 DEF EndSelection, OverlayTells
  <2>2. Goes(selHand, "closing")
    BY <1>14, <2>1 DEF EndSelection, Goes, unseenBySelection, captureVars
  <2> QED
    BY <2>1, <2>2
<1>15. CASE ConfirmLive
  <2>1. selHand \in Attempt /\ place[selHand] = "overlay"
    BY <1>0, <1>15 DEF ConfirmLive, OverlayTells
  <2>2. Goes(selHand, "confirmed") \/ Goes(selHand, "closing")
    BY <1>15, <2>1 DEF ConfirmLive, Goes, unseenBySelection, captureVars
  <2> QED
    BY <2>1, <2>2
<1>16. CASE DropCompletion
  <2>1. selHand \in Attempt /\ place[selHand] = "closing"
    BY <1>0, <1>16 DEF DropCompletion, OverlayTells
  <2>2. Goes(selHand, "reported") \/ Goes(selHand, "unreported")
    BY <1>16, <2>1 DEF DropCompletion, Goes, unseenBySelection, captureVars
  <2> QED
    BY <2>1, <2>2
<1>17. ASSUME NEW a \in Attempt, Press(a)
       PROVE  \E b \in Attempt, to \in Places : Goes(b, to)
  <2>1. Goes(a, "pressed") \/ Goes(a, "dropped")
    BY <1>17 DEF Press, Goes, unseenByDaemon, captureVars
  <2> QED
    BY <2>1
<1> QED
  BY <1>4, <1>5, <1>6, <1>7, <1>8, <1>9, <1>10, <1>11, <1>12, <1>13, <1>14, <1>15, <1>16, <1>17
  DEF OverlayStep, FinishReturned, CloseOverlay, StartRecording

\* What any step of the daemon does to the attempts and the counters.
LEMMA EveryStepCounts == ASSUME IInv, Next PROVE Counted
BY StayingSteps, GoingSteps
DEF Next, CaptureStep, SelectionStep, RecordingStep, Counted

\* One element more, or one fewer, in a part of a finite set.
LEMMA Cardinalities ==
    ASSUME NEW S, NEW T, NEW a, IsFiniteSet(S)
    PROVE  /\ Cardinality(S) \in Nat
           /\ a \notin S /\ T = S \cup {a} => Cardinality(T) = Cardinality(S) + 1
           /\ a \in S /\ T = S \ {a} =>
                Cardinality(T) = Cardinality(S) - 1 /\ Cardinality(S) # 0
<1>1. Cardinality(S) \in Nat
  BY FS_CardinalityType
<1>2. a \in S => Cardinality(S) # 0
  BY FS_EmptySet
<1>3. a \notin S /\ T = S \cup {a} => Cardinality(T) = Cardinality(S) + 1
  BY FS_AddElement
<1>4. a \in S /\ T = S \ {a} => Cardinality(T) = Cardinality(S) - 1
  BY FS_RemoveElement
<1> QED
  BY <1>1, <1>2, <1>3, <1>4

\* There are finitely many presses.
LEMMA AttemptsAreFinite == \A S \in SUBSET Attempt : IsFiniteSet(S)
<1>1. IsFiniteSet(Attempt)
  BY AttemptAssumption, FS_Union DEF Attempt
<1> QED
  BY <1>1, FS_Subset

OwedSet == {a \in Attempt : place[a] \in OwedPlaces}

\* The selection worker's attempts and the attempts begun are counted exactly.
LEMMA CountsKept ==
    ASSUME IInv, Counted
    PROVE  InFlightIsExact' /\ AttemptsCounted'
<1>0. /\ place \in [Attempt -> Places] /\ inFlight = Cardinality(OwedSet)
      /\ attempts = Cardinality(Begun)
      /\ IsFiniteSet(OwedSet) /\ IsFiniteSet(Begun)
  BY AttemptsAreFinite
  DEF IInv, Shapes, InFlightIsExact, AttemptsCounted, Owed, OwedSet, OwedPlaces, Begun
<1>1. SUFFICES inFlight' = Cardinality(OwedSet') /\ attempts' = Cardinality(Begun')
  BY DEF InFlightIsExact, AttemptsCounted, Owed, OwedSet, OwedPlaces
<1>2. CASE Stays
  BY <1>0, <1>2 DEF Stays, OwedSet, Begun
<1>3. ASSUME NEW a \in Attempt, NEW to \in Places, Goes(a, to)
      PROVE  inFlight' = Cardinality(OwedSet') /\ attempts' = Cardinality(Begun')
  <2>1. place' = [place EXCEPT ![a] = to]
    BY <1>3 DEF Goes
  <2>2. /\ \A b \in Attempt : b # a => place'[b] = place[b]
        /\ place'[a] = to
    BY <1>0, <2>1
  <2>3. /\ place[a] \notin OwedPlaces /\ to \in OwedPlaces =>
             a \notin OwedSet /\ OwedSet' = OwedSet \cup {a}
        /\ place[a] \in OwedPlaces /\ to \notin OwedPlaces =>
             a \in OwedSet /\ OwedSet' = OwedSet \ {a}
        /\ (place[a] \in OwedPlaces <=> to \in OwedPlaces) => OwedSet' = OwedSet
    BY <2>2 DEF OwedSet
  <2>4. /\ place[a] \notin OpenPlaces \cup EndedPlaces /\ to \in OpenPlaces \cup EndedPlaces =>
             a \notin Begun /\ Begun' = Begun \cup {a}
        /\ (place[a] \in OpenPlaces \cup EndedPlaces <=> to \in OpenPlaces \cup EndedPlaces)
             => Begun' = Begun
    BY <2>2 DEF Begun
  <2> USE DEF OwedPlaces, OpenPlaces, EndedPlaces
  <2>5. CASE /\ place[a] \in {"idle", "pressed"} /\ to \in {"pressed", "dropped", "refused"}
             /\ UNCHANGED <<attempts, inFlight>>
    BY <1>0, <2>3, <2>4, <2>5
  <2>6. CASE /\ place[a] = "pressed" /\ to \in {"capturing", "ended"}
             /\ attempts' = attempts + 1 /\ inFlight' = inFlight
    <3>1. OwedSet' = OwedSet /\ a \notin Begun /\ Begun' = Begun \cup {a}
      BY <2>3, <2>4, <2>6
    <3>2. Cardinality(Begun') = Cardinality(Begun) + 1
      BY <1>0, <3>1, Cardinalities
    <3> QED
      BY <1>0, <2>6, <3>1, <3>2
  <2>7. CASE /\ place[a] = "capturing" /\ to = "ended" /\ UNCHANGED <<attempts, inFlight>>
    BY <1>0, <2>3, <2>4, <2>7
  <2>8. CASE /\ place[a] = "capturing" /\ to = "queued"
             /\ attempts' = attempts /\ inFlight' = inFlight + 1
    <3>1. Begun' = Begun /\ a \notin OwedSet /\ OwedSet' = OwedSet \cup {a}
      BY <2>3, <2>4, <2>8
    <3>2. Cardinality(OwedSet') = Cardinality(OwedSet) + 1
      BY <1>0, <3>1, Cardinalities
    <3> QED
      BY <1>0, <2>8, <3>1, <3>2
  <2>9. CASE /\ place[a] \in {"confirmed", "confirming", "reported"} /\ to = "ended"
             /\ attempts' = attempts /\ inFlight' = OneFewer
    <3>1. Begun' = Begun /\ a \in OwedSet /\ OwedSet' = OwedSet \ {a}
      BY <2>3, <2>4, <2>9
    <3>2. Cardinality(OwedSet') = Cardinality(OwedSet) - 1 /\ Cardinality(OwedSet) # 0
      BY <1>0, <3>1, Cardinalities
    <3> QED
      BY <1>0, <2>9, <3>1, <3>2 DEF OneFewer
  <2>10. CASE /\ place[a] \in OwedPlaces /\ to \in OwedPlaces
              /\ UNCHANGED <<attempts, inFlight>>
    BY <1>0, <2>3, <2>4, <2>10
  <2> QED
    BY <1>3, <2>5, <2>6, <2>7, <2>8, <2>9, <2>10 DEF Goes
<1> QED
  BY <1>2, <1>3 DEF Counted

-----------------------------------------------------------------------------
(* The invariant.                                                          *)

\* The daemon starts with an engine or an outage, and nothing under way.
LEMMA Initial == ASSUME Init PROVE IInv
<1>0. /\ engine \in BOOLEAN /\ (engine <=> recovery = None)
      /\ recovery \in [failures : 0..NoticeAfter, waiting : BOOLEAN] \cup {None}
  <2>1. /\ Outage(0, TRUE) \in [failures : 0..NoticeAfter, waiting : BOOLEAN]
        /\ Outage(0, TRUE) # None
    <3>1. Outage(0, TRUE) \in [failures : 0..NoticeAfter, waiting : BOOLEAN]
      BY RetryAssumption DEF Outage
    <3> QED
      BY <3>1, AttemptAssumption
  <2>2. CASE engine = TRUE /\ recovery = None
    BY <2>2
  <2>3. CASE engine = FALSE /\ recovery = Outage(0, TRUE)
    BY <2>1, <2>3
  <2> QED
    BY <2>2, <2>3 DEF Init
<1>1. Shapes
  <2>2. place \in [Attempt -> Places] /\ job \in [Attempt -> JobStates]
    BY DEF Init, Places, JobStates
  <2>3. notices \in Seq(NoticeKinds) /\ Len(notices) <= NoticeCapacity
    BY CapacityAssumption DEF Init
  <2>4. commands \in Seq(Command) /\ selQueue \in Seq(Attempt)
    BY DEF Init
  <2> QED
    BY <1>0, <2>2, <2>3, <2>4 DEF Init, Shapes, CaptureStates, Exits, Purposes
<1>2. EngineOrOutage
  BY <1>0 DEF Init, EngineOrOutage
<1>3. Tokens
  BY DEF Init, Tokens, CommandsTell, QueueTells, HandTells, OverlayTells, CapturingIsInHand,
     Calling
<1>4. {a \in Attempt : Owed(a)} = {} /\ Begun = {}
  BY DEF Init, Owed, Begun, OpenPlaces, EndedPlaces
<1>5. InFlightIsExact /\ AttemptsCounted
  BY <1>4, FS_EmptySet DEF Init, InFlightIsExact, AttemptsCounted
<1>6. ExitTold /\ LastWord
  BY DEF Init, ExitTold, LastWord
<1> QED
  BY <1>1, <1>2, <1>3, <1>5, <1>6 DEF IInv

\* In every state of the capture engine the types hold, there is an engine or an
\* outage, every attempt is where its token says, every counter is exact, and
\* the last word on the engine is shown or on its way.
THEOREM EngineInvariant == Spec => []IInv
<1>1. Init => IInv
  BY Initial
<1>2. IInv /\ [Next]_vars => IInv'
  <2>1. ASSUME IInv, Next PROVE IInv'
    BY <2>1, OutlineKept, TokensKept, EveryStepCounts, CountsKept DEF IInv, Outline
  <2>2. ASSUME IInv, UNCHANGED vars PROVE IInv'
    <3>1. Shapes' /\ ExitTold' /\ EngineOrOutage'
      BY <2>2 DEF IInv, vars, engineVars, captureVars, jobVars, selVars, noticeVars, Shapes,
         ExitTold, EngineOrOutage
    <3>2. Tokens'
      BY <2>2 DEF IInv, vars, captureVars, jobVars, selVars, Tokens, HandTells, OverlayTells,
         CapturingIsInHand
    <3>3. InFlightIsExact' /\ AttemptsCounted' /\ LastWord'
      BY <2>2 DEF IInv, vars, captureVars, jobVars, engineVars, noticeVars, InFlightIsExact,
         Owed, AttemptsCounted, Begun, LastWord
    <3> QED
      BY <3>1, <3>2, <3>3 DEF IInv
  <2> QED
    BY <2>1, <2>2
<1> QED
  BY <1>1, <1>2, PTL DEF Spec

\* The capture thread has an engine exactly when it recovers from no outage, and
\* an engine call always finds it: neither `.expect` can panic.
THEOREM EngineOrOutageAlways == Spec => []EngineOrOutage
<1>1. IInv => EngineOrOutage
  BY DEF IInv
<1> QED
  BY <1>1, EngineInvariant, PTL

\* selections_in_flight is the number of attempts the selection worker holds or
\* has yet to report, so its saturating decrement never meets zero.
THEOREM InFlightIsAlwaysExact == Spec => []InFlightIsExact
<1>1. IInv => InFlightIsExact
  BY DEF IInv
<1> QED
  BY <1>1, EngineInvariant, PTL

\* Once the notices are shown, the notification area says what the capture thread
\* believes it has said of the engine.
THEOREM UserAlwaysKnowsOfOutage == Spec => []UserKnowsOfOutage
<1>1. IInv => UserKnowsOfOutage
  BY DEF IInv, LastWord, UserKnowsOfOutage
<1> QED
  BY <1>1, EngineInvariant, PTL

-----------------------------------------------------------------------------
(* The limit.                                                              *)

Open == {a \in Attempt : place[a] \in OpenPlaces}
Closed == {a \in Attempt : place[a] \in EndedPlaces}
Verdict == IF exitBy = "none" THEN "running" ELSE IF exitBy = "limit" THEN "limit" ELSE "stopped"

\* The capture thread's counter is what AttemptBudget counts.
LEMMA SpentIsExhausted == ASSUME IInv PROVE Budget!Spent <=> BudgetExhausted
<1>1. Open \cup Closed = Begun
  BY DEF Open, Closed, Begun
<1>2. attempts = Cardinality(Open \cup Closed)
  BY <1>1 DEF IInv, AttemptsCounted
<1>3. \A S : Budget!Cardinality(S) = Cardinality(S)
  BY DEF Budget!Cardinality, Cardinality
<1>4. Budget!Spent <=> Cardinality(Open \cup Closed) >= MaxCaptures
  BY <1>3 DEF Budget!Spent, Open, Closed
<1> QED
  BY <1>2, <1>4 DEF BudgetExhausted

\* At the limit, with nothing in flight, no attempt is open: the capture thread is
\* not capturing, and the selection worker holds none.
LEMMA NothingIsOpen == ASSUME IInv, capPc = "top", inFlight = 0 PROVE Open = {}
<1>1. OwedSet = {}
  <2>1. Cardinality(OwedSet) = 0 /\ IsFiniteSet(OwedSet)
    BY AttemptsAreFinite DEF IInv, InFlightIsExact, Owed, OwedSet, OwedPlaces
  <2> QED
    BY <2>1, FS_EmptySet
<1>2. \A a \in Attempt : place[a] # "capturing"
  BY DEF IInv, Tokens, CapturingIsInHand, Calling
<1> QED
  BY <1>1, <1>2 DEF Open, OpenPlaces, OwedSet, OwedPlaces

\* A step of an attempt begins it, ends it, begins and ends it at once, or is
\* none of AttemptBudget's business.
LEMMA GoingIsBudgeted ==
    ASSUME IInv, NEW a \in Attempt, NEW to \in Places, Goes(a, to)
    PROVE  Budget!Next \/ UNCHANGED <<Open, Closed, Verdict>>
<1>0. /\ place \in [Attempt -> Places] /\ place' = [place EXCEPT ![a] = to]
      /\ Verdict' = Verdict
  BY DEF IInv, Shapes, Goes, Verdict
<1>1. /\ \A b \in Attempt : b # a => place'[b] = place[b]
      /\ place'[a] = to
  BY <1>0
<1>2. /\ to \in OpenPlaces => Open' = Open \cup {a}
      /\ to \notin OpenPlaces => Open' = Open \ {a}
      /\ to \in EndedPlaces => Closed' = Closed \cup {a}
      /\ to \notin EndedPlaces => Closed' = Closed \ {a}
      /\ a \in Open <=> place[a] \in OpenPlaces
      /\ a \in Closed <=> place[a] \in EndedPlaces
  BY <1>1 DEF Open, Closed
<1>3. CASE place[a] = "pressed" /\ to \in {"capturing", "ended"}
  <2>1. exitBy = "none" /\ ~Budget!Spent /\ Verdict = "running"
    BY <1>3, SpentIsExhausted DEF Goes, OwedPlaces, Verdict
  <2>2. a \notin Open \cup Closed
    BY <1>2, <1>3 DEF OpenPlaces, EndedPlaces
  <2>3. CASE to = "capturing"
    <3>1. Open' = Open \cup {a} /\ Closed' = Closed
      BY <1>2, <2>2, <2>3 DEF OpenPlaces, EndedPlaces
    <3>2. Budget!Begin(a)
      BY <1>0, <2>1, <2>2, <3>1 DEF Budget!Begin, Open, Closed, Verdict
    <3> QED
      BY <3>2 DEF Budget!Next
  <2>4. CASE to = "ended"
    <3>1. Closed' = Closed \cup {a} /\ Open' = Open
      BY <1>2, <2>2, <2>4 DEF OpenPlaces, EndedPlaces
    <3>2. Budget!BeginAndEnd(a)
      BY <1>0, <2>1, <2>2, <3>1 DEF Budget!BeginAndEnd, Open, Closed, Verdict
    <3> QED
      BY <3>2 DEF Budget!Next
  <2> QED
    BY <1>3, <2>3, <2>4
<1>4. CASE place[a] \in OpenPlaces /\ to \in EndedPlaces
  <2>1. a \in Open /\ Open' = Open \ {a} /\ Closed' = Closed \cup {a}
    BY <1>2, <1>4 DEF OpenPlaces, EndedPlaces
  <2>2. Budget!End(a)
    BY <1>0, <2>1 DEF Budget!End, Open, Closed, Verdict
  <2> QED
    BY <2>2 DEF Budget!Next
<1>5. CASE \/ place[a] \in OpenPlaces /\ to \in OpenPlaces
           \/ place[a] \in EndedPlaces /\ to \in EndedPlaces
           \/ {place[a], to} \cap (OpenPlaces \cup EndedPlaces) = {}
  <2>1. Open' = Open /\ Closed' = Closed
    BY <1>2, <1>5 DEF OpenPlaces, EndedPlaces
  <2> QED
    BY <1>0, <2>1
<1> QED
  BY <1>3, <1>4, <1>5 DEF Goes, OwedPlaces, OpenPlaces, EndedPlaces

\* --max-captures keeps its promise: the capture engine, its queues and its threads
\* implement AttemptBudget.
THEOREM EngineKeepsTheBudget == Spec => KeepsTheBudget
<1>1. Init => Budget!Init
  BY DEF Init, Budget!Init, OpenPlaces, EndedPlaces
<1>2. IInv /\ [Next]_vars => [Budget!Next]_(Budget!vars)
  <2>1. ASSUME IInv, Counted PROVE Budget!Next \/ UNCHANGED <<Open, Closed, Verdict>>
    <3>1. CASE Stays
      <4>1. Open' = Open /\ Closed' = Closed
        BY <3>1 DEF Stays, Open, Closed
      <4>2. CASE exitBy' = exitBy
        BY <4>1, <4>2 DEF Verdict
      <4>3. CASE exitBy = "none" /\ exitBy' \in {"stop", "shutdown", "fatal"}
        <5>1. Budget!Stop
          BY <4>1, <4>3 DEF Budget!Stop, Open, Closed
        <5> QED
          BY <5>1 DEF Budget!Next
      <4>4. CASE exitBy = "none" /\ exitBy' = "limit" /\ capPc = "top" /\ LimitReached
        <5>1. Open = {} /\ Budget!Spent
          BY <2>1, <4>4, NothingIsOpen, SpentIsExhausted DEF LimitReached
        <5>2. Budget!ReachLimit
          BY <4>1, <4>4, <5>1 DEF Budget!ReachLimit, Open, Closed
        <5> QED
          BY <5>2 DEF Budget!Next
      <4> QED
        BY <3>1, <4>2, <4>3, <4>4 DEF Stays
    <3> QED
      BY <2>1, <3>1, GoingIsBudgeted DEF Counted
  <2>2. ASSUME UNCHANGED vars PROVE UNCHANGED <<Open, Closed, Verdict>>
    BY <2>2 DEF vars, captureVars, jobVars, Open, Closed, Verdict
  <2>3. ASSUME UNCHANGED <<Open, Closed, Verdict>> PROVE UNCHANGED Budget!vars
    BY <2>3 DEF Budget!vars, Open, Closed, Verdict
  <2> QED
    BY <2>1, <2>2, <2>3, EveryStepCounts
<1> QED
  BY <1>1, <1>2, EngineInvariant, PTL DEF Spec, KeepsTheBudget, Budget!Spec

-----------------------------------------------------------------------------
(* Bounds.                                                                 *)

\* What Shapes leaves out of TypeOK, but for selections_in_flight.
Ranges ==
    /\ due \in BOOLEAN /\ stopping \in BOOLEAN /\ shutdownSent \in BOOLEAN
    /\ {hand, selHand} \subseteq Attempt \cup {None}
    /\ selPc \in SelectionStates /\ recPc \in {"off", "running", "awaiting"}
    /\ daemonPc \in {"loop", "teardown"}
Bounds ==
    /\ attempts <= MaxCaptures /\ tries <= Retries
    /\ Len(commands) <= CommandCapacity /\ Len(selQueue) <= SelectionCapacity

\* The capture thread stays in its ranges: what it works on comes from a command.
LEMMA CaptureKeepsRanges == ASSUME IInv, Ranges, CaptureStep \/ RetryComesDue PROVE Ranges'
<1>0. Shapes /\ CommandsTell(commands, place)
  BY DEF IInv, Tokens
<1> USE DEF Ranges, engineVars, captureVars, jobVars, selVars, daemonVars
<1>1. CASE \/ LeaveOnStop \/ LeaveAtLimit \/ LeaveFatally \/ TakeShutdown
           \/ NothingDue \/ SourceNotReady \/ EngineReturns \/ RetryComesDue
           \/ \E waiting \in BOOLEAN : EngineStaysAway(waiting)
  BY <1>1 DEF LeaveOnStop, LeaveAtLimit, LeaveFatally, TakeShutdown, LeaveLoop, NothingDue,
     SourceNotReady, EngineReturns, RetryComesDue, EngineStaysAway, GoOn
<1>2. CASE ReceiveTimeout \/ EngineLost \/ BackoffElapsed \/ Rebuilt \/ DisplaysCurrent
  BY <1>2 DEF ReceiveTimeout, EngineLost, BackoffElapsed, Rebuilt, DisplaysCurrent
<1>3. CASE \/ RefuseTrigger \/ IgnoreTrigger \/ SpendTrigger \/ TakeLiveWithoutEngine
           \/ TakeFinished
  BY <1>3 DEF RefuseTrigger, IgnoreTrigger, SpendTrigger, TakeLiveWithoutEngine, TakeFinished
<1>4. CASE BeginTrigger \/ TakeLive
  <2>1. Taken \in Attempt
    BY <1>0, <1>4, TakeDoes DEF BeginTrigger, TakeLive, Carrying
  <2> QED
    BY <1>4, <2>1 DEF BeginTrigger, TakeLive, CallEngine
<1>5. ASSUME NEW lost \in BOOLEAN, TakeFrame(lost) PROVE Ranges'
  BY <1>5 DEF TakeFrame, OutageBegins
<1>6. CASE \/ EngineLostForGood \/ EngineRefuses \/ BackoffStopped
           \/ \E waiting \in BOOLEAN : NotRebuilt(waiting)
  <2>1. \E n \in FailureNotices : CallFails(n)
    BY <1>6 DEF EngineLostForGood, EngineRefuses, BackoffStopped, NotRebuilt
  <2>2. due' \in BOOLEAN
    BY <1>6 DEF EngineLostForGood, EngineRefuses, BackoffStopped, NotRebuilt, OutageBegins
  <2> QED
    BY <2>1, <2>2 DEF CallFails
<1>7. CASE \/ CapturedForDestinations \/ CapturedForOverlay \/ DispatchFails
           \/ \E matches \in BOOLEAN : Confirmed(matches)
  BY <1>7 DEF CapturedForDestinations, CapturedForOverlay, DispatchFails, Confirmed, CallDone
<1> QED
  BY <1>1, <1>2, <1>3, <1>4, <1>5, <1>6, <1>7 DEF CaptureStep

\* So do the other threads.
LEMMA OthersKeepRanges ==
    ASSUME IInv, Ranges,
           \/ SelectionStep \/ OverlayStep \/ RecordingStep \/ \E a \in Attempt : Press(a)
           \/ RequestShutdown \/ DaemonStep \/ TeardownPolls
    PROVE  Ranges'
<1> USE DEF Ranges, engineVars, captureVars, jobVars, selVars, daemonVars, SelectionStates,
            unseenBySelection, unseenByRecording, unseenByDaemon
<1>1. CASE SelectionTake
  <2>1. Head(selQueue) \in Attempt
    BY <1>1, TailLeaves DEF SelectionTake, IInv, Shapes
  <2> QED
    BY <1>1, <2>1 DEF SelectionTake
<1>2. CASE SelectionCheckStop \/ SelectionPollTimeout \/ DropCompletion
  BY <1>2 DEF SelectionCheckStop, SelectionPollTimeout, DropCompletion
<1>3. CASE FinishReturned \/ OverlayStep
  BY <1>3 DEF FinishReturned, OverlayStep, CloseOverlay, StartRecording, ConfirmLive,
     EndSelection
<1>4. CASE RecordingStep
  BY <1>4 DEF RecordingStep, AskFrame, FrameTimeout, EndRecording
<1>5. CASE (\E a \in Attempt : Press(a)) \/ RequestShutdown \/ ShowNotice \/ BeginTeardown
  BY <1>5 DEF Press, RequestShutdown, ShowNotice, BeginTeardown
<1>6. CASE SendShutdown
  BY <1>6 DEF SendShutdown
<1>7. CASE TeardownPolls
  BY <1>7 DEF TeardownPolls, vars
<1> QED
  BY <1>1, <1>2, <1>3, <1>4, <1>5, <1>6, <1>7 DEF SelectionStep, DaemonStep

\* The queues grow only where there is room (try_send), and by one.
LEMMA QueuesStayBounded ==
    ASSUME IInv, Bounds, Next
    PROVE  Len(commands') <= CommandCapacity /\ Len(selQueue') <= SelectionCapacity
<1>0. /\ commands \in Seq(Command) /\ selQueue \in Seq(Attempt)
      /\ Len(commands) <= CommandCapacity /\ Len(selQueue) <= SelectionCapacity
      /\ CommandCapacity \in Nat /\ SelectionCapacity \in Nat
  BY CapacityAssumption DEF IInv, Shapes, Bounds
<1>1. \/ commands' = commands
      \/ commands # <<>> /\ commands' = Tail(commands)
      \/ CommandRoom /\ \E c : commands' = Append(commands, c)
  <2>1. CASE CaptureStep \/ RetryComesDue
    BY <2>1 DEF CaptureStep, LeaveOnStop, LeaveAtLimit, NothingDue, SourceNotReady,
       EngineStaysAway, NotRebuilt, EngineReturns, GoOn, ReceiveTimeout, RefuseTrigger,
       IgnoreTrigger, SpendTrigger, BeginTrigger, TakeFrame, TakeLiveWithoutEngine, TakeLive,
       TakeFinished, TakeShutdown, Take, EngineLost, EngineLostForGood, EngineRefuses,
       BackoffStopped, CallFails, BackoffElapsed, Rebuilt, DisplaysCurrent,
       CapturedForDestinations, CapturedForOverlay, DispatchFails, Confirmed, CallDone,
       LeaveFatally, RetryComesDue
  <2>2. CASE SelectionStep \/ OverlayStep
    BY <2>2 DEF SelectionStep, OverlayStep, SelectionCheckStop, SelectionTake,
       SelectionPollTimeout, FinishReturned, DropCompletion, CloseOverlay, StartRecording,
       EndSelection, ConfirmLive
  <2>3. CASE RecordingStep \/ \E a \in Attempt : Press(a)
    BY <2>3 DEF RecordingStep, AskFrame, FrameTimeout, EndRecording, Press
  <2>4. CASE RequestShutdown \/ DaemonStep \/ TeardownPolls
    BY <2>4 DEF RequestShutdown, DaemonStep, ShowNotice, SendShutdown, BeginTeardown,
       TrySendShutdown, TeardownPolls, vars
  <2> QED
    BY <2>1, <2>2, <2>3, <2>4 DEF Next
<1>2. Len(commands') <= CommandCapacity
  <2>1. CASE commands' = commands
    BY <1>0, <2>1
  <2>2. CASE commands # <<>> /\ commands' = Tail(commands)
    <3>1. Len(Tail(commands)) = Len(commands) - 1
      BY <1>0, <2>2, TailLeaves
    <3> QED
      BY <1>0, <2>2, <3>1
  <2>3. ASSUME CommandRoom, NEW c, commands' = Append(commands, c)
        PROVE  Len(commands') <= CommandCapacity
    BY <1>0, <2>3 DEF CommandRoom
  <2> QED
    BY <1>1, <2>1, <2>2, <2>3
<1>3. \/ selQueue' = selQueue
      \/ selQueue # <<>> /\ selQueue' = Tail(selQueue)
      \/ SelectionRoom /\ \E a : selQueue' = Append(selQueue, a)
  <2>1. CASE CaptureStep \/ RetryComesDue
    <3>1. CASE \/ LeaveOnStop \/ LeaveAtLimit \/ LeaveFatally \/ TakeShutdown
               \/ NothingDue \/ SourceNotReady \/ EngineReturns \/ RetryComesDue
               \/ \E waiting \in BOOLEAN : EngineStaysAway(waiting)
               \/ ReceiveTimeout \/ EngineLost \/ BackoffElapsed \/ Rebuilt \/ DisplaysCurrent
               \/ RefuseTrigger \/ IgnoreTrigger \/ SpendTrigger \/ BeginTrigger
               \/ \E lost \in BOOLEAN : TakeFrame(lost)
               \/ TakeLive \/ TakeFinished
      BY <3>1 DEF LeaveOnStop, LeaveAtLimit, LeaveFatally, TakeShutdown, NothingDue,
         SourceNotReady, EngineReturns, RetryComesDue, EngineStaysAway, GoOn, ReceiveTimeout,
         EngineLost, BackoffElapsed, Rebuilt, DisplaysCurrent, RefuseTrigger, IgnoreTrigger,
         SpendTrigger, BeginTrigger, TakeFrame, TakeLive, TakeFinished
    <3>2. CASE TakeLiveWithoutEngine \/ \E matches \in BOOLEAN : Confirmed(matches)
      BY <3>2 DEF TakeLiveWithoutEngine, Confirmed, GiveBack
    <3>3. CASE \/ EngineLostForGood \/ EngineRefuses \/ BackoffStopped
               \/ \E waiting \in BOOLEAN : NotRebuilt(waiting)
      BY <3>3 DEF EngineLostForGood, EngineRefuses, BackoffStopped, NotRebuilt, CallFails,
         GiveBack
    <3>4. CASE CapturedForDestinations \/ CapturedForOverlay \/ DispatchFails
      BY <3>4 DEF CapturedForDestinations, CapturedForOverlay, DispatchFails
    <3> QED
      BY <2>1, <3>1, <3>2, <3>3, <3>4 DEF CaptureStep
  <2>2. CASE SelectionStep \/ OverlayStep
    BY <2>2 DEF SelectionStep, OverlayStep, SelectionCheckStop, SelectionTake,
       SelectionPollTimeout, FinishReturned, DropCompletion, CloseOverlay, StartRecording,
       EndSelection, ConfirmLive
  <2>3. CASE \/ RecordingStep \/ \E a \in Attempt : Press(a)
             \/ RequestShutdown \/ DaemonStep \/ TeardownPolls
    BY <2>3 DEF RecordingStep, AskFrame, FrameTimeout, EndRecording, Press, RequestShutdown,
       DaemonStep, ShowNotice, SendShutdown, BeginTeardown, TeardownPolls, vars,
       unseenByRecording, unseenByDaemon
  <2> QED
    BY <2>1, <2>2, <2>3 DEF Next
<1>4. Len(selQueue') <= SelectionCapacity
  <2>1. CASE selQueue' = selQueue
    BY <1>0, <2>1
  <2>2. CASE selQueue # <<>> /\ selQueue' = Tail(selQueue)
    <3>1. Len(Tail(selQueue)) = Len(selQueue) - 1
      BY <1>0, <2>2, TailLeaves
    <3> QED
      BY <1>0, <2>2, <3>1
  <2>3. ASSUME SelectionRoom, NEW a, selQueue' = Append(selQueue, a)
        PROVE  Len(selQueue') <= SelectionCapacity
    BY <1>0, <2>3 DEF SelectionRoom
  <2> QED
    BY <1>3, <2>1, <2>2, <2>3
<1> QED
  BY <1>2, <1>4

\* No attempt is begun beyond the limit, no rebuild tried beyond the last.
LEMMA CountersStayBounded ==
    ASSUME IInv, Bounds, Next
    PROVE  attempts' <= MaxCaptures /\ tries' <= Retries
<1>0. /\ attempts \in Nat /\ tries \in Nat /\ attempts <= MaxCaptures /\ tries <= Retries
      /\ MaxCaptures \in Nat /\ Retries \in Nat
  BY LimitAssumption, RetryAssumption DEF IInv, Shapes, Bounds
<1>1. attempts' = attempts \/ (~BudgetExhausted /\ attempts' = attempts + 1)
  <2>1. Counted
    BY EveryStepCounts
  <2>2. CASE Stays
    BY <2>2 DEF Stays
  <2>3. ASSUME NEW a \in Attempt, NEW to \in Places, Goes(a, to)
        PROVE  attempts' = attempts \/ (~BudgetExhausted /\ attempts' = attempts + 1)
    BY <2>3 DEF Goes
  <2> QED
    BY <2>1, <2>2, <2>3 DEF Counted
<1>2. \/ tries' = tries \/ tries' = 0
      \/ tries < Retries /\ tries' = tries + 1
  <2> USE DEF captureVars
  <2>1. CASE \/ LeaveOnStop \/ LeaveAtLimit \/ LeaveFatally \/ TakeShutdown
             \/ NothingDue \/ SourceNotReady \/ EngineReturns \/ RetryComesDue
             \/ \E waiting \in BOOLEAN : EngineStaysAway(waiting)
    BY <2>1 DEF LeaveOnStop, LeaveAtLimit, LeaveFatally, TakeShutdown, LeaveLoop, NothingDue,
       SourceNotReady, EngineReturns, RetryComesDue, EngineStaysAway, GoOn
  <2>2. CASE ReceiveTimeout \/ EngineLost \/ BackoffElapsed \/ Rebuilt \/ DisplaysCurrent
    BY <2>2 DEF ReceiveTimeout, EngineLost, BackoffElapsed, Rebuilt, DisplaysCurrent
  <2>3. CASE \/ RefuseTrigger \/ IgnoreTrigger \/ SpendTrigger \/ BeginTrigger
             \/ TakeLiveWithoutEngine \/ TakeLive \/ TakeFinished
             \/ \E lost \in BOOLEAN : TakeFrame(lost)
    BY <2>3 DEF RefuseTrigger, IgnoreTrigger, SpendTrigger, BeginTrigger, CallEngine,
       TakeLiveWithoutEngine, TakeLive, TakeFinished, TakeFrame
  <2>4. CASE \/ EngineLostForGood \/ EngineRefuses \/ BackoffStopped
             \/ \E waiting \in BOOLEAN : NotRebuilt(waiting)
    BY <2>4 DEF EngineLostForGood, EngineRefuses, BackoffStopped, NotRebuilt, CallFails
  <2>5. CASE \/ CapturedForDestinations \/ CapturedForOverlay \/ DispatchFails
             \/ \E matches \in BOOLEAN : Confirmed(matches)
    BY <2>5 DEF CapturedForDestinations, CapturedForOverlay, DispatchFails, Confirmed, CallDone
  <2>6. CASE SelectionStep \/ OverlayStep
    BY <2>6 DEF SelectionStep, OverlayStep, SelectionCheckStop, SelectionTake,
       SelectionPollTimeout, FinishReturned, DropCompletion, CloseOverlay, StartRecording,
       EndSelection, ConfirmLive, unseenBySelection
  <2>7. CASE RecordingStep \/ \E a \in Attempt : Press(a)
    BY <2>7 DEF RecordingStep, AskFrame, FrameTimeout, EndRecording, Press,
       unseenByRecording, unseenByDaemon
  <2>8. CASE RequestShutdown \/ DaemonStep \/ TeardownPolls
    BY <2>8 DEF RequestShutdown, DaemonStep, ShowNotice, SendShutdown, BeginTeardown,
       TeardownPolls, vars, unseenByDaemon
  <2> QED
    BY <2>1, <2>2, <2>3, <2>4, <2>5, <2>6, <2>7, <2>8 DEF Next, CaptureStep
<1> QED
  BY <1>0, <1>1, <1>2 DEF BudgetExhausted

\* Every variable stays in its range and every channel within its capacity; no
\* more attempts are in flight than were begun, nor more begun than permitted.
THEOREM TypeCorrect == Spec => []TypeOK
<1>1. Init => Ranges /\ Bounds
  <2> SUFFICES ASSUME Init PROVE Ranges /\ Bounds
    OBVIOUS
  <2>1. Len(commands) = 0 /\ Len(selQueue) = 0
    BY DEF Init
  <2>2. Bounds
    BY <2>1, CapacityAssumption, LimitAssumption, RetryAssumption DEF Init, Bounds
  <2>3. Ranges
    BY DEF Init, Ranges, SelectionStates
  <2> QED
    BY <2>2, <2>3
<1>2. IInv /\ Ranges /\ Bounds /\ [Next]_vars => (Ranges /\ Bounds)'
  <2>1. ASSUME IInv, Ranges, Bounds, Next PROVE Ranges' /\ Bounds'
    <3>1. Ranges'
      BY <2>1, CaptureKeepsRanges, OthersKeepRanges DEF Next
    <3> QED
      BY <2>1, <3>1, QueuesStayBounded, CountersStayBounded DEF Bounds
  <2>2. ASSUME Ranges, Bounds, UNCHANGED vars PROVE Ranges' /\ Bounds'
    BY <2>2 DEF Ranges, Bounds, vars, engineVars, captureVars, jobVars, selVars, daemonVars
  <2> QED
    BY <2>1, <2>2
<1>3. IInv /\ Ranges /\ Bounds => TypeOK
  <2> SUFFICES ASSUME IInv, Ranges, Bounds PROVE TypeOK
    OBVIOUS
  <2>1. inFlight \in 0..MaxCaptures /\ attempts \in 0..MaxCaptures /\ tries \in 0..Retries
    <3>1. OwedSet \subseteq Begun
      BY DEF OwedSet, OwedPlaces, Begun, OpenPlaces, EndedPlaces
    <3>2. IsFiniteSet(Begun) /\ inFlight = Cardinality(OwedSet) /\ attempts = Cardinality(Begun)
      BY AttemptsAreFinite
      DEF IInv, InFlightIsExact, AttemptsCounted, Owed, OwedSet, OwedPlaces, Begun
    <3>3. inFlight <= attempts
      BY <3>1, <3>2, FS_Subset
    <3> QED
      BY <3>3, LimitAssumption, RetryAssumption DEF IInv, Shapes, Bounds
  <2> QED
    BY <2>1 DEF IInv, Shapes, Command, Ranges, Bounds, TypeOK
<1> QED
  BY <1>1, <1>2, <1>3, EngineInvariant, PTL DEF Spec
=============================================================================
