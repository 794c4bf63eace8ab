---------------------- MODULE RecordingPipeline_proofs ----------------------
(***************************************************************************)
(* Proofs about RecordingPipeline for every queue capacity, time limit and *)
(* number of tolerated failures: a recording reported saved is complete    *)
(* and in order, and one that failed after its queue was closed leaves no  *)
(* file.                                                                   *)
(***************************************************************************)
EXTENDS RecordingPipeline, TLAPS

\* Both threads may still bring the recording to a good end.
Sound == encPc \notin {"failing", "broken"} /\ result # "error"

\* TypeOK without the bounds on counters, which nothing here rests on.
Shapes ==
    /\ kind \in Kind
    /\ recPc \in {"first", "pushFirst", "wait", "capture", "close", "closeFailed",
                  "join", "joinFailed", "remove", "done"}
    /\ captured \in Nat /\ dropped \in Nat /\ hand \in Nat
    /\ result \in {"none", "ok", "error"}
    /\ frames \in Seq(Nat) /\ written \in Seq(Nat)
    /\ closed \in BOOLEAN /\ failed \in BOOLEAN
    /\ encPc \in {"none", "open", "pop", "write", "finish", "finished", "failing", "broken"}
    /\ file \in {"absent", "reserved", "partial", "valid"}

\* How far the two threads are of each other.
Control ==
    /\ recPc = "first" <=> encPc = "none" /\ result = "none"
    /\ recPc \in {"first", "pushFirst"} => captured = 0
    /\ Sound /\ captured = 0 => recPc \in {"first", "pushFirst"}
    /\ captured = 0 /\ Sound => frames = <<>> /\ written = <<>> /\ encPc # "write"
    /\ result = "error" <=> recPc = "remove" \/ (recPc = "done" /\ result # "ok")
    /\ result = "ok" => recPc = "done" /\ encPc = "finished"
    /\ closed => recPc \in {"join", "joinFailed", "remove", "done"}
    /\ recPc \in {"join", "joinFailed"} => closed
    /\ closed /\ recPc \in {"remove", "done"} => encPc \in {"finished", "broken"}
    /\ failed => encPc = "broken"
    /\ encPc \in {"finish", "finished"} => frames = <<>> /\ closed

InHand == IF encPc = "write" THEN 1 ELSE 0

\* A captured frame is written, in the encoder's hand, waiting or dropped.
Accounted == Sound => captured = Len(written) + InHand + Len(frames) + dropped

Increasing(s) == \A i, j \in 1..Len(s) : i < j => s[i] < s[j]

\* What is written, in hand and waiting is one line in the order of capture...
InOrder ==
    Sound =>
        /\ Increasing(written) /\ Increasing(frames)
        /\ \A i \in 1..Len(written), j \in 1..Len(frames) : written[i] < frames[j]
        /\ encPc = "write" => /\ \A i \in 1..Len(written) : written[i] < hand
                              /\ \A j \in 1..Len(frames) : hand < frames[j]

\* ... which ends with the last capture.
LastIsLast ==
    Sound /\ captured > 0 =>
        IF frames # <<>> THEN frames[Len(frames)] = captured
        ELSE IF encPc = "write" THEN hand = captured
        ELSE written # <<>> /\ written[Len(written)] = captured

\* A file is finished when its encoder is, and there is none in memory.
FileIsTold ==
    /\ kind.to = "memory" => file = "absent"
    /\ kind.to = "file" /\ encPc = "finished" /\ result # "error" => file = "valid"

IInv == /\ Shapes /\ Control /\ Accounted /\ InOrder /\ LastIsLast /\ FileIsTold
        /\ FailedIsRemoved

-----------------------------------------------------------------------------
(* Sequences of frames.                                                    *)

\* What FrameQueue::push and the encoder add comes last.
LEMMA AppendLeaves ==
    ASSUME NEW s \in Seq(Nat), NEW n \in Nat
    PROVE  /\ Append(s, n) \in Seq(Nat) /\ Append(s, n) # <<>>
           /\ Len(Append(s, n)) = Len(s) + 1
           /\ Append(s, n)[Len(s) + 1] = n
           /\ \A i \in 1..Len(s) : Append(s, n)[i] = s[i] /\ s[i] \in Nat
<1>1. /\ Append(s, n) \in Seq(Nat) /\ Len(Append(s, n)) = Len(s) + 1
      /\ Append(s, n)[Len(s) + 1] = n
  OBVIOUS
<1>2. \A i \in 1..Len(s) : Append(s, n)[i] = s[i] /\ s[i] \in Nat
  OBVIOUS
<1>3. Append(s, n) # <<>>
  BY <1>1
<1> QED
  BY <1>1, <1>2, <1>3

\* A later number keeps the order.
LEMMA AppendIncreases ==
    ASSUME NEW s \in Seq(Nat), NEW n \in Nat, Increasing(s),
           \A i \in 1..Len(s) : s[i] < n
    PROVE  Increasing(Append(s, n))
<1> DEFINE t == Append(s, n)
<1>1. /\ Len(t) = Len(s) + 1 /\ t[Len(s) + 1] = n
      /\ \A i \in 1..Len(s) : t[i] = s[i] /\ s[i] \in Nat
  BY AppendLeaves
<1> HIDE DEF t
<1>2. Len(s) \in Nat
  OBVIOUS
<1> SUFFICES ASSUME NEW i \in 1..Len(t), NEW j \in 1..Len(t), i < j PROVE t[i] < t[j]
  BY DEF Increasing, t
<1>3. CASE j = Len(s) + 1
  <2>1. i \in 1..Len(s)
    BY <1>1, <1>2, <1>3
  <2> QED
    BY <1>1, <1>3, <2>1
<1>4. CASE j # Len(s) + 1
  <2>1. i \in 1..Len(s) /\ j \in 1..Len(s)
    BY <1>1, <1>2, <1>4
  <2> QED
    BY <1>1, <2>1 DEF Increasing
<1> QED
  BY <1>3, <1>4

\* What FrameQueue::pop and a full queue take away came first.
LEMMA TailLeaves ==
    ASSUME NEW s \in Seq(Nat), s # <<>>
    PROVE  /\ Tail(s) \in Seq(Nat) /\ Len(Tail(s)) = Len(s) - 1 /\ Len(s) >= 1
           /\ Head(s) = s[1] /\ s[1] \in Nat
           /\ \A i \in 1..Len(Tail(s)) : Tail(s)[i] = s[i + 1] /\ i + 1 \in 1..Len(s)
OBVIOUS

\* What is left is in order, and after what was taken.
LEMMA TailIncreases ==
    ASSUME NEW s \in Seq(Nat), s # <<>>, Increasing(s)
    PROVE  Increasing(Tail(s)) /\ \A i \in 1..Len(Tail(s)) : s[1] < Tail(s)[i]
<1> DEFINE t == Tail(s)
<1>1. /\ Len(t) = Len(s) - 1 /\ Len(s) >= 1 /\ Len(s) \in Nat
      /\ \A i \in 1..Len(t) : t[i] = s[i + 1] /\ i + 1 \in 1..Len(s)
  BY TailLeaves
<1> HIDE DEF t
<1>2. ASSUME NEW i \in 1..Len(t) PROVE s[1] < t[i]
  <2>1. t[i] = s[i + 1] /\ i + 1 \in 1..Len(s) /\ 1 \in 1..Len(s) /\ 1 < i + 1
    BY <1>1
  <2> QED
    BY <2>1 DEF Increasing
<1>3. ASSUME NEW i \in 1..Len(t), NEW j \in 1..Len(t), i < j PROVE t[i] < t[j]
  <2>1. /\ t[i] = s[i + 1] /\ i + 1 \in 1..Len(s) /\ t[j] = s[j + 1] /\ j + 1 \in 1..Len(s)
        /\ i + 1 < j + 1
    BY <1>1, <1>3
  <2> QED
    BY <2>1 DEF Increasing
<1> QED
  BY <1>2, <1>3 DEF Increasing, t

-----------------------------------------------------------------------------
\* A recording starts with nothing captured and at most a file reserved.
LEMMA Initial == Init => IInv
<1> SUFFICES ASSUME Init PROVE IInv
  OBVIOUS
<1>1. Shapes
  <2>1. kind \in Kind /\ file \in {"absent", "reserved"}
    BY DEF Init
  <2>2. <<>> \in Seq(Nat) /\ 0 \in Nat
    OBVIOUS
  <2> QED
    BY <2>1, <2>2 DEF Init, Shapes
<1>2. Control
  BY DEF Init, Control, Sound
<1>3. Len(frames) = 0 /\ Len(written) = 0 /\ InHand = 0 /\ captured = 0 /\ dropped = 0
      /\ encPc # "write"
  BY DEF Init, InHand
<1>4. Accounted /\ LastIsLast
  BY <1>3 DEF Accounted, LastIsLast
<1>5. InOrder
  BY <1>3 DEF InOrder, Increasing
<1>6. FileIsTold /\ FailedIsRemoved
  BY DEF Init, Kind, FileIsTold, FailedIsRemoved
<1> QED
  BY <1>1, <1>2, <1>4, <1>5, <1>6 DEF IInv

\* FrameQueue::push with room, or with the oldest frame out of the way.
LEMMA PushKeepsLine ==
    ASSUME Shapes, Control, Accounted, InOrder, LastIsLast, Sound, ~failed,
           Push(captured + 1), captured' = captured + 1,
           UNCHANGED <<written, hand, encPc, result>>
    PROVE  /\ frames' \in Seq(Nat) /\ dropped' \in Nat /\ frames' # <<>>
           /\ Accounted' /\ InOrder' /\ LastIsLast'
<1> DEFINE n == captured + 1
<1>0. Capacity \in Nat /\ Capacity >= 2
  BY CapacityAssumption
<1>1. /\ captured \in Nat /\ frames \in Seq(Nat) /\ written \in Seq(Nat) /\ hand \in Nat
      /\ dropped \in Nat /\ Sound'
  BY DEF Shapes, Sound
<1>2. /\ \A i \in 1..Len(frames) : frames[i] <= captured
      /\ \A i \in 1..Len(written) : written[i] <= captured
      /\ encPc = "write" => hand <= captured
  <2>1. CASE captured = 0
    BY <1>1, <2>1 DEF Control
  <2>2. CASE captured > 0 /\ frames # <<>>
    <3>1. Len(frames) \in 1..Len(frames) /\ frames[Len(frames)] = captured
      BY <1>1, <2>2 DEF LastIsLast
    <3>2. \A i \in 1..Len(frames) : frames[i] \in Nat
      BY <1>1
    <3>3. \A i \in 1..Len(written) : written[i] \in Nat
      BY <1>1
    <3> QED
      BY SMTT(30), <1>1, <2>2, <3>1, <3>2, <3>3 DEF InOrder, Increasing
  <2>3. CASE captured > 0 /\ frames = <<>>
    <3>1. \A i \in 1..Len(written) : written[i] \in Nat
      BY <1>1
    <3>2. CASE encPc = "write"
      BY <1>1, <2>3, <3>1, <3>2 DEF InOrder, LastIsLast
    <3>3. CASE encPc # "write"
      <4>1. Len(written) \in 1..Len(written) /\ written[Len(written)] = captured
        BY <1>1, <2>3, <3>3 DEF LastIsLast
      <4> QED
        BY <1>1, <2>3, <3>1, <3>3, <4>1 DEF InOrder, Increasing
    <3> QED
      BY <3>2, <3>3
  <2> QED
    BY <1>1, <2>1, <2>2, <2>3
<1>3. PICK rest \in Seq(Nat) :
        /\ frames' = Append(rest, n)
        /\ \/ rest = frames /\ dropped' = dropped
           \/ /\ frames # <<>> /\ rest = Tail(frames) /\ dropped' = dropped + 1
  <2>1. CASE Len(frames) >= Capacity
    <3>1. frames # <<>> /\ Tail(frames) \in Seq(Nat)
      BY <1>0, <1>1, <2>1
    <3> QED
      BY <2>1, <3>1 DEF Push
  <2>2. CASE ~(Len(frames) >= Capacity)
    BY <1>1, <2>2 DEF Push
  <2> QED
    BY <2>1, <2>2
<1>4. /\ Len(rest) + dropped' = Len(frames) + dropped /\ dropped' \in Nat
      /\ \A i \in 1..Len(rest) : rest[i] <= captured
      /\ Increasing(rest)
      /\ \A i \in 1..Len(written), j \in 1..Len(rest) : written[i] < rest[j]
      /\ encPc = "write" => \A j \in 1..Len(rest) : hand < rest[j]
  <2>1. CASE rest = frames /\ dropped' = dropped
    BY <1>1, <1>2, <2>1 DEF InOrder
  <2>2. CASE frames # <<>> /\ rest = Tail(frames) /\ dropped' = dropped + 1
    <3>1. /\ Len(rest) = Len(frames) - 1 /\ Increasing(rest)
          /\ \A i \in 1..Len(rest) : rest[i] = frames[i + 1] /\ i + 1 \in 1..Len(frames)
      BY <1>1, <2>2, TailLeaves, TailIncreases DEF InOrder
    <3>2. Len(rest) + dropped' = Len(frames) + dropped /\ dropped' \in Nat
      BY <1>1, <2>2, <3>1
    <3>3. \A i \in 1..Len(rest) : rest[i] <= captured
      BY <1>2, <3>1
    <3>4. \A i \in 1..Len(written), j \in 1..Len(rest) : written[i] < rest[j]
      BY <1>1, <3>1 DEF InOrder
    <3>5. encPc = "write" => \A j \in 1..Len(rest) : hand < rest[j]
      BY <1>1, <3>1 DEF InOrder
    <3> QED
      BY <3>1, <3>2, <3>3, <3>4, <3>5
  <2> QED
    BY <1>3, <2>1, <2>2
<1>5. /\ frames' \in Seq(Nat) /\ Len(frames') = Len(rest) + 1 /\ frames' # <<>>
      /\ frames'[Len(rest) + 1] = n
      /\ \A i \in 1..Len(rest) : frames'[i] = rest[i] /\ rest[i] \in Nat
  BY <1>1, <1>3, AppendLeaves
<1>6. \A i \in 1..Len(written) : written[i] \in Nat
  BY <1>1
<1>7. Len(rest) \in Nat /\ Len(frames) \in Nat /\ Len(written) \in Nat
  BY <1>1, <1>3
<1>8. Accounted'
  <2>1. captured = Len(written) + InHand + Len(frames) + dropped /\ InHand \in Nat
    BY DEF Accounted, InHand
  <2>2. InHand' = InHand
    BY DEF InHand
  <2>3. /\ Len(frames') = Len(rest) + 1 /\ Len(rest) + dropped' = Len(frames) + dropped
        /\ dropped \in Nat /\ dropped' \in Nat /\ captured' = captured + 1
    BY <1>1, <1>4, <1>5
  <2>4. captured' = Len(written) + InHand + Len(frames') + dropped'
    BY SMTT(30), <1>7, <2>1, <2>3
  <2> QED
    BY <2>2, <2>4 DEF Accounted
<1>9. LastIsLast'
  BY <1>1, <1>5 DEF LastIsLast
<1>10. InOrder'
  <2>1. Increasing(frames')
    <3>1. \A i \in 1..Len(rest) : rest[i] < n
      BY SMTT(30), <1>1, <1>4, <1>5
    <3> QED
      BY SMTT(30), <1>1, <1>3, <1>4, <3>1, AppendIncreases
  <2>2. ASSUME NEW j \in 1..Len(frames')
        PROVE  /\ \A i \in 1..Len(written) : written[i] < frames'[j]
               /\ encPc = "write" => hand < frames'[j]
    <3>1. CASE j = Len(rest) + 1
      BY <1>1, <1>2, <1>5, <1>6, <3>1
    <3>2. CASE j # Len(rest) + 1
      <4>1. j \in 1..Len(rest) /\ frames'[j] = rest[j]
        BY <1>5, <1>7, <3>2
      <4> QED
        BY <1>4, <4>1
    <3> QED
      BY <3>1, <3>2
  <2> QED
    BY <2>1, <2>2 DEF InOrder
<1> QED
  BY <1>4, <1>5, <1>8, <1>9, <1>10

\* A step that leaves the line of frames alone.
LineStays ==
    /\ UNCHANGED <<captured, dropped, frames, hand, written>>
    /\ encPc' = encPc \/ (encPc # "write" /\ encPc' # "write") \/ encPc' = "failing"
    /\ Sound' => Sound

\* Its order and its numbers are the same then.
LEMMA StayingKeepsLine ==
    ASSUME Accounted, InOrder, LastIsLast, LineStays
    PROVE  Accounted' /\ InOrder' /\ LastIsLast'
<1>1. CASE ~Sound'
  BY <1>1 DEF Accounted, InOrder, LastIsLast
<1>2. CASE Sound'
  <2>1. Sound /\ (encPc = "write" <=> encPc' = "write") /\ InHand' = InHand
    BY <1>2 DEF LineStays, Sound, InHand
  <2>2. captured' = captured /\ dropped' = dropped /\ frames' = frames /\ hand' = hand
        /\ written' = written
    BY DEF LineStays
  <2>3. Accounted'
    BY <2>1, <2>2 DEF Accounted
  <2>4. InOrder'
    BY <2>1, <2>2 DEF InOrder
  <2>5. LastIsLast'
    BY <2>1, <2>2 DEF LastIsLast
  <2> QED
    BY <2>3, <2>4, <2>5
<1> QED
  BY <1>1, <1>2

-----------------------------------------------------------------------------
(* The steps that touch the line of frames.                                *)

\* The first frame and every later one.
LEMMA PushesKeep == ASSUME IInv, PushFirst \/ CaptureFrame PROVE IInv'
<1>1. /\ captured' = captured + 1 /\ Push(captured + 1) /\ recPc' = "wait"
      /\ UNCHANGED <<kind, result, encPc, hand, written, file, closed, failed>>
      /\ recPc \in {"pushFirst", "capture"}
  BY DEF IInv, Control, Shapes, PushFirst, CaptureFrame, Push, encoderVars, queueVars, sourceVars
<1>2. result = "none" /\ ~closed
  BY <1>1 DEF IInv, Control, Shapes
<1>3. CASE Sound
  <2>1. ~failed
    BY <1>3 DEF IInv, Control, Sound
  <2>2. /\ frames' \in Seq(Nat) /\ dropped' \in Nat /\ frames' # <<>>
        /\ Accounted' /\ InOrder' /\ LastIsLast'
    BY <1>1, <1>3, <2>1, PushKeepsLine DEF IInv
  <2>3. Shapes'
    BY <1>1, <2>2 DEF IInv, Shapes
  <2>4. Control'
    BY <1>1, <1>2, <2>3 DEF IInv, Control, Sound, Shapes
  <2> QED
    BY <1>1, <1>2, <2>2, <2>3, <2>4 DEF IInv, FileIsTold, FailedIsRemoved
<1>4. CASE ~Sound
  <2>1. encPc \in {"failing", "broken"} /\ ~Sound'
    BY <1>1, <1>2, <1>4 DEF Sound
  <2>2. frames' \in Seq(Nat) /\ dropped' \in Nat
    <3>1. frames \in Seq(Nat) /\ captured + 1 \in Nat /\ dropped \in Nat
      BY CapacityAssumption DEF IInv, Shapes
    <3>2. Len(frames) >= Capacity => Tail(frames) \in Seq(Nat)
      BY <3>1, CapacityAssumption
    <3>3. CASE failed
      BY <1>1, <3>1, <3>3 DEF Push, queueVars
    <3>4. CASE ~failed
      <4>1. PICK rest \in Seq(Nat) : frames' = Append(rest, captured + 1)
        BY <1>1, <3>1, <3>2, <3>4 DEF Push
      <4>2. frames' \in Seq(Nat)
        BY <3>1, <4>1, AppendLeaves
      <4>3. dropped' \in Nat
        BY <1>1, <3>1, <3>4 DEF Push
      <4> QED
        BY <4>2, <4>3
    <3> QED
      BY <3>3, <3>4
  <2>3. Shapes'
    BY <1>1, <2>2 DEF IInv, Shapes
  <2>4. Control'
    BY <1>1, <1>2, <2>1, <2>3 DEF IInv, Control, Sound, Shapes
  <2> QED
    BY <1>1, <1>2, <2>1, <2>3, <2>4 DEF IInv, FileIsTold, FailedIsRemoved, Accounted,
       InOrder, LastIsLast
<1> QED
  BY <1>3, <1>4

\* FrameQueue::pop: the first that waits comes into the encoder's hand.
LEMMA PopKeeps == ASSUME IInv, PopFrame PROVE IInv'
<1>1. /\ encPc = "pop" /\ encPc' = "write" /\ frames # <<>> /\ frames \in Seq(Nat)
      /\ hand' = Head(frames) /\ frames' = Tail(frames) /\ captured \in Nat
      /\ dropped \in Nat /\ written \in Seq(Nat)
      /\ UNCHANGED <<kind, recPc, captured, result, closed, dropped, failed, written, file>>
  BY DEF IInv, Shapes, PopFrame, recorderVars, sourceVars
<1>2. /\ frames' \in Seq(Nat) /\ Len(frames') = Len(frames) - 1
      /\ hand' = frames[1] /\ hand' \in Nat /\ Len(frames) >= 1
      /\ \A i \in 1..Len(frames') : frames'[i] = frames[i + 1] /\ i + 1 \in 1..Len(frames)
  BY <1>1, TailLeaves
<1>3. Shapes'
  BY <1>1, <1>2 DEF IInv, Shapes
<1>4. Sound' <=> Sound
  BY <1>1 DEF Sound
<1>5. Control'
  BY <1>1, <1>2, <1>4 DEF IInv, Control, Sound
<1>6. Accounted'
  BY <1>1, <1>2, <1>4 DEF IInv, Accounted, InHand
<1>7. InOrder'
  <2> SUFFICES ASSUME Sound PROVE InOrder'
    BY <1>4 DEF InOrder
  <2>1. /\ Increasing(frames) /\ Increasing(written)
        /\ \A i \in 1..Len(written), j \in 1..Len(frames) : written[i] < frames[j]
    BY DEF IInv, InOrder
  <2>2. Increasing(frames') /\ \A j \in 1..Len(frames') : hand' < frames'[j]
    BY <1>1, <1>2, <2>1, TailIncreases
  <2>3. \A i \in 1..Len(written) : written[i] < hand'
    BY <1>2, <2>1
  <2>4. \A i \in 1..Len(written), j \in 1..Len(frames') : written[i] < frames'[j]
    BY <1>2, <2>1
  <2> QED
    BY <1>1, <2>1, <2>2, <2>3, <2>4 DEF InOrder
<1>8. LastIsLast'
  <2>1. CASE Len(frames) = 1
    <3>1. frames' = <<>>
      BY <1>2, <2>1
    <3>2. hand' = frames[Len(frames)]
      BY <1>2, <2>1
    <3> QED
      BY <1>1, <1>4, <3>1, <3>2 DEF IInv, LastIsLast
  <2>2. CASE Len(frames) > 1
    <3>1. Len(frames') \in 1..Len(frames') /\ Len(frames') + 1 = Len(frames)
      BY <1>1, <1>2, <2>2
    <3>2. frames' # <<>> /\ frames'[Len(frames')] = frames[Len(frames)]
      BY <1>2, <3>1
    <3> QED
      BY <1>1, <1>4, <3>2 DEF IInv, LastIsLast
  <2> QED
    BY <1>2, <2>1, <2>2
<1> QED
  BY <1>1, <1>3, <1>5, <1>6, <1>7, <1>8 DEF IInv, FileIsTold, FailedIsRemoved

\* The encoder adds the frame in its hand to the recording.
LEMMA WriteKeeps == ASSUME IInv, WriteFrame PROVE IInv'
<1>1. /\ encPc = "write" /\ encPc' = "pop" /\ frames \in Seq(Nat) /\ hand \in Nat
      /\ hand' = 0 /\ written' = Append(written, hand) /\ captured \in Nat
      /\ dropped \in Nat /\ written \in Seq(Nat)
      /\ UNCHANGED <<kind, recPc, captured, result, frames, closed, dropped, failed, file>>
  BY DEF IInv, Shapes, WriteFrame, recorderVars, sourceVars, queueVars
<1>2. /\ written' \in Seq(Nat) /\ Len(written') = Len(written) + 1
      /\ written'[Len(written) + 1] = hand /\ written' # <<>>
      /\ \A i \in 1..Len(written) : written'[i] = written[i]
  BY <1>1, AppendLeaves
<1>3. Shapes'
  BY <1>1, <1>2 DEF IInv, Shapes
<1>4. Sound' <=> Sound
  BY <1>1 DEF Sound
<1>5. Control'
  BY <1>1, <1>4 DEF IInv, Control, Sound
<1>6. Accounted'
  BY <1>1, <1>2, <1>4 DEF IInv, Accounted, InHand
<1>7. InOrder'
  <2> SUFFICES ASSUME Sound PROVE InOrder'
    BY <1>4 DEF InOrder
  <2>1. /\ \A i \in 1..Len(written) : written[i] < hand
        /\ \A j \in 1..Len(frames) : hand < frames[j]
        /\ \A i \in 1..Len(written), j \in 1..Len(frames) : written[i] < frames[j]
        /\ Increasing(written) /\ Increasing(frames)
    BY <1>1 DEF IInv, InOrder
  <2>2. Increasing(written')
    BY <1>1, <2>1, AppendIncreases
  <2>3. ASSUME NEW i \in 1..Len(written'), NEW j \in 1..Len(frames)
        PROVE  written'[i] < frames[j]
    <3>1. CASE i = Len(written) + 1
      BY <1>2, <2>1, <3>1
    <3>2. CASE i # Len(written) + 1
      <4>1. i \in 1..Len(written) /\ written'[i] = written[i]
        BY <1>1, <1>2, <3>2
      <4> QED
        BY <2>1, <4>1
    <3> QED
      BY <3>1, <3>2
  <2> QED
    BY <1>1, <2>1, <2>2, <2>3 DEF InOrder
<1>8. LastIsLast'
  BY <1>1, <1>2, <1>4 DEF IInv, LastIsLast
<1> QED
  BY <1>1, <1>3, <1>5, <1>6, <1>7, <1>8 DEF IInv, FileIsTold, FailedIsRemoved

-----------------------------------------------------------------------------
(* The steps that leave it alone.                                          *)

\* Starting, waiting, ending, joining, removing; opening and finishing the file.
LEMMA OthersKeep ==
    ASSUME IInv,
           \/ FirstFrameFails \/ SpawnEncoder \/ FirstPixelsFail \/ WaitNotices \/ Tick
           \/ CaptureFails \/ CloseQueue \/ JoinEncoder \/ JoinAfterFailures \/ Remove
           \/ OpenOutput \/ EncodingFails \/ PopClosed \/ FinishFile \/ PressStop
           \/ WindowCloses
    PROVE  IInv'
<1> USE DEF sourceVars, recorderVars, queueVars, encoderVars, BailOut, LeaveLoop, Close,
            IInv, Shapes, Control, Sound, LineStays, FileIsTold, FailedIsRemoved
<1>1. CASE FirstFrameFails
  BY <1>1, StayingKeepsLine DEF FirstFrameFails
<1>2. CASE SpawnEncoder
  BY <1>2, StayingKeepsLine DEF SpawnEncoder
<1>3. CASE FirstPixelsFail
  BY <1>3, StayingKeepsLine DEF FirstPixelsFail
<1>4. CASE WaitNotices
  BY <1>4, StayingKeepsLine DEF WaitNotices
<1>5. CASE Tick
  BY <1>5, StayingKeepsLine DEF Tick
<1>6. CASE CaptureFails
  BY <1>6, StayingKeepsLine DEF CaptureFails
<1>7. CASE CloseQueue
  BY <1>7, StayingKeepsLine DEF CloseQueue
<1>8. CASE JoinEncoder
  BY <1>8, StayingKeepsLine DEF JoinEncoder
<1>9. CASE JoinAfterFailures
  BY <1>9, StayingKeepsLine DEF JoinAfterFailures
<1>10. CASE Remove
  BY <1>10, StayingKeepsLine DEF Remove
<1>11. CASE OpenOutput
  BY <1>11, StayingKeepsLine DEF OpenOutput
<1>12. CASE EncodingFails
  BY <1>12, StayingKeepsLine DEF EncodingFails
<1>13. CASE PopClosed
  BY <1>13, StayingKeepsLine DEF PopClosed
<1>14. CASE FinishFile
  BY <1>14, StayingKeepsLine DEF FinishFile
<1>15. CASE PressStop \/ WindowCloses
  BY <1>15, StayingKeepsLine DEF PressStop, WindowCloses
<1> QED
  BY <1>1, <1>2, <1>3, <1>4, <1>5, <1>6, <1>7, <1>8, <1>9, <1>10, <1>11, <1>12, <1>13,
     <1>14, <1>15

\* A frame without pixels, and an encoder that gave up: nothing is saved any more.
LEMMA SpoiledKeeps == ASSUME IInv, PixelsFail \/ FailQueue PROVE IInv'
<1> USE DEF sourceVars, recorderVars, queueVars, encoderVars, BailOut, Fail
<1>1. ~Sound'
  BY DEF PixelsFail, FailQueue, Sound
<1>2. Shapes'
  <2>1. <<>> \in Seq(Nat)
    OBVIOUS
  <2>2. CASE PixelsFail
    BY <2>2 DEF IInv, Shapes, PixelsFail
  <2>3. CASE FailQueue
    BY <2>1, <2>3 DEF IInv, Shapes, FailQueue
  <2> QED
    BY <2>2, <2>3
<1>3. Control'
  BY <1>1, <1>2 DEF IInv, Shapes, Control, Sound, PixelsFail, FailQueue
<1>4. Accounted' /\ InOrder' /\ LastIsLast'
  BY <1>1 DEF Accounted, InOrder, LastIsLast
<1>5. FileIsTold' /\ FailedIsRemoved'
  BY DEF IInv, Control, FileIsTold, FailedIsRemoved, PixelsFail, FailQueue
<1> QED
  BY <1>2, <1>3, <1>4, <1>5 DEF IInv

-----------------------------------------------------------------------------
\* In every state of record_into and its encoder each captured frame is written,
\* in hand, waiting or dropped, in the order of capture, until one of the two
\* threads fails.
THEOREM PipelineInvariant == Spec => []IInv
<1>1. IInv /\ [Next]_vars => IInv'
  <2> SUFFICES ASSUME IInv, [Next]_vars PROVE IInv'
    OBVIOUS
  <2>1. CASE UNCHANGED vars
    <3>1. LineStays
      BY <2>1 DEF LineStays, Sound, vars, recorderVars, queueVars, encoderVars
    <3>2. Accounted' /\ InOrder' /\ LastIsLast'
      BY <3>1, StayingKeepsLine DEF IInv
    <3> QED
      BY <2>1, <3>2 DEF IInv, Shapes, Control, Sound, FileIsTold, FailedIsRemoved, vars,
         sourceVars, recorderVars, queueVars, encoderVars
  <2> QED
    BY <2>1, PushesKeep, PopKeeps, WriteKeeps, OthersKeep, SpoiledKeeps
    DEF Next, RecorderStep, EncoderStep
<1> QED
  BY <1>1, Initial, PTL DEF Spec

\* A recording that record() reports saved has its frames in order, its last one
\* included, for every queue, limit and tolerance.
THEOREM SavedIsAlwaysComplete == Spec => []SavedIsComplete
<1>1. IInv => SavedIsComplete
  <2> SUFFICES ASSUME IInv, result = "ok" PROVE SavedIsComplete
    BY DEF SavedIsComplete
  <2>1. Sound /\ frames = <<>> /\ encPc = "finished" /\ recPc = "done"
    BY DEF IInv, Control, Sound
  <2>2. captured # 0 /\ captured \in Nat /\ written \in Seq(Nat) /\ kind \in Kind
    BY <2>1 DEF IInv, Control, Shapes
  <2>3. captured = Len(written) + dropped
    BY <2>1, <2>2 DEF IInv, Accounted, InHand, Shapes
  <2>4. written # <<>> /\ written[Len(written)] = captured
    BY <2>1, <2>2 DEF IInv, LastIsLast
  <2>5. \A i \in 1..(Len(written) - 1) : written[i] < written[i + 1]
    BY <2>1, <2>2 DEF IInv, InOrder, Increasing
  <2>6. file = IF kind.to = "file" THEN "valid" ELSE "absent"
    BY <2>1, <2>2 DEF IInv, FileIsTold, Kind
  <2> QED
    BY <2>3, <2>4, <2>5, <2>6 DEF SavedIsComplete
<1> QED
  BY <1>1, PipelineInvariant, PTL

\* A recording that failed after its queue was closed leaves no file behind
\* (record() removes it when the encoder has let go of it).
THEOREM FailedIsAlwaysRemoved == Spec => []FailedIsRemoved
<1>1. IInv => FailedIsRemoved
  BY DEF IInv
<1> QED
  BY <1>1, PipelineInvariant, PTL
=============================================================================
