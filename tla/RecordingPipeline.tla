-------------------------- MODULE RecordingPipeline --------------------------
(***************************************************************************)
(* One recording being made: the recording thread takes frames from its    *)
(* source at the format's rate and pushes them into a FrameQueue; the      *)
(* encoder thread pops them and writes the GIF or MP4, into a file or into *)
(* memory.                                                                 *)
(*                                                                         *)
(* A frame is the number of the capture it came from.  Time is counted in  *)
(* frame intervals: `elapsed` grows by one with every interval the         *)
(* recording thread waits out, and the time limit is Limit of them.        *)
(* Pixels, sizes and the pacing within an interval are left out; so is the *)
(* channel the daemon's frames arrive through (CaptureEngine).             *)
(***************************************************************************)
EXTENDS Integers, Sequences

CONSTANTS
    Capacity,    \* FrameQueue::capacity
    Limit,       \* settings.max_duration, in frame intervals
    Tolerated    \* SOURCE_FAILURES_TOLERATED

ASSUME CapacityAssumption  == Capacity \in Nat /\ Capacity >= 2
ASSUME LimitAssumption     == Limit \in Nat
ASSUME ToleratedAssumption == Tolerated \in Nat

VARIABLES
    kind,       \* what is being made: format, destination and source
    stop,       \* the stop flag shared with the indicator and with exit
    gone,       \* the recorded window has closed
    recPc,      \* where the recording thread is
    elapsed,    \* frame intervals since it started
    captured,   \* frames taken from the source
    failures,   \* failed captures in a row
    ended,      \* RecordingEnd, "none" until the loop is left
    result,     \* what record() returns
    frames,     \* QueueState::frames
    closed,     \* QueueState::closed_at is Some
    dropped,    \* QueueState::dropped
    failed,     \* QueueState::failed
    encPc,      \* where the encoder thread is
    hand,       \* the frame the encoder has popped and not yet written
    written,    \* the frames the recording holds, in order
    file        \* the recording's file

sourceVars   == <<kind, stop, gone>>
recorderVars == <<recPc, elapsed, captured, failures, ended, result>>
queueVars    == <<frames, closed, dropped, failed>>
encoderVars  == <<encPc, hand, written>>
vars == <<sourceVars, recorderVars, queueVars, encoderVars, file>>

Kind == [format : {"gif", "mp4"}, to : {"file", "memory"}, window : BOOLEAN]

Init ==
    /\ kind \in Kind
    /\ stop \in BOOLEAN        \* an indicator that cannot be shown stops it at once
    /\ gone = FALSE
    /\ recPc = "first"
    /\ elapsed = 0
    /\ captured = 0
    /\ failures = 0
    /\ ended = "none"
    /\ result = "none"
    /\ frames = <<>>
    /\ closed = FALSE
    /\ dropped = 0
    /\ failed = FALSE
    /\ encPc = "none"
    /\ hand = 0
    /\ written = <<>>
    /\ file = IF kind.to = "file" THEN "reserved" ELSE "absent"

-----------------------------------------------------------------------------
(* The queue.                                                              *)

\* Variation: a full queue refuses the new frame instead of the oldest one.
PushDroppingNewest(n) ==
    IF failed THEN UNCHANGED queueVars
    ELSE LET full == Len(frames) >= Capacity
         IN  /\ frames' = IF full THEN frames ELSE Append(frames, n)
             /\ dropped' = IF full THEN dropped + 1 ELSE dropped
             /\ UNCHANGED <<closed, failed>>

\* FrameQueue::push: the oldest waiting frame makes way for the new one.
Push(n) ==
    IF failed THEN UNCHANGED queueVars
    ELSE LET full == Len(frames) >= Capacity
         IN  /\ frames' = Append(IF full THEN Tail(frames) ELSE frames, n)
             /\ dropped' = IF full THEN dropped + 1 ELSE dropped
             /\ UNCHANGED <<closed, failed>>

\* Variation: the queue is never closed before the join.
CloseForgotten == UNCHANGED queueVars

Close == closed' = TRUE /\ UNCHANGED <<frames, dropped, failed>>

Fail == failed' = TRUE /\ frames' = <<>> /\ UNCHANGED <<closed, dropped>>

-----------------------------------------------------------------------------
(* The world: the user, exit, and the window being recorded.               *)

PressStop ==
    /\ ~stop
    /\ stop' = TRUE
    /\ UNCHANGED <<kind, gone, recorderVars, queueVars, encoderVars, file>>

WindowCloses ==
    /\ kind.window /\ ~gone
    /\ gone' = TRUE
    /\ UNCHANGED <<kind, stop, recorderVars, queueVars, encoderVars, file>>

-----------------------------------------------------------------------------
(* The recording thread.                                                   *)

\* record_into gives up with `?`: nothing it has started is wound down.
BailOut == recPc' = "remove" /\ result' = "error"

\* The first frame decides the size; without it, outside the display, or with
\* no encoder thread, there is nothing to wind down.
FirstFrameFails ==
    /\ recPc = "first"
    /\ BailOut
    /\ UNCHANGED <<sourceVars, elapsed, captured, failures, ended,
                   queueVars, encoderVars, file>>

SpawnEncoder ==
    /\ recPc = "first"
    /\ recPc' = "pushFirst"
    /\ encPc' = "open"
    /\ UNCHANGED <<sourceVars, elapsed, captured, failures, ended, result,
                   queueVars, hand, written, file>>

PushFirst ==
    /\ recPc = "pushFirst"
    /\ captured' = 1
    /\ Push(1)
    /\ recPc' = "wait"
    /\ UNCHANGED <<sourceVars, elapsed, failures, ended, result, encoderVars, file>>

\* pixels_for refuses the first frame: an HDR display, for one.
FirstPixelsFail ==
    /\ recPc = "pushFirst"
    /\ BailOut
    /\ UNCHANGED <<sourceVars, elapsed, captured, failures, ended,
                   queueVars, encoderVars, file>>

\* What the wait for the next frame's time notices, in the order it looks.
Ending ==
    IF stop THEN "stopped"
    ELSE IF elapsed >= Limit THEN "time_limit"
    ELSE IF kind.window /\ gone THEN "window_closed"
    ELSE "none"

LeaveLoop(why) == recPc' = "close" /\ ended' = why

WaitNotices ==
    /\ recPc = "wait"
    /\ Ending # "none"
    /\ LeaveLoop(Ending)
    /\ UNCHANGED <<sourceVars, elapsed, captured, failures, result,
                   queueVars, encoderVars, file>>

\* The interval is over; a dead encoder is noticed before the capture.
Tick ==
    /\ recPc = "wait"
    /\ Ending = "none"
    /\ elapsed' = elapsed + 1
    /\ IF failed THEN LeaveLoop("stopped") ELSE recPc' = "capture" /\ UNCHANGED ended
    /\ UNCHANGED <<sourceVars, captured, failures, result,
                   queueVars, encoderVars, file>>

CaptureFrame ==
    /\ recPc = "capture"
    /\ failures' = 0
    /\ captured' = captured + 1
    /\ Push(captured + 1)
    /\ recPc' = "wait"
    /\ UNCHANGED <<sourceVars, elapsed, ended, result, encoderVars, file>>

\* The frame was captured but has no pixels to give: the display changed.
PixelsFail ==
    /\ recPc = "capture"
    /\ failures' = 0
    /\ captured' = captured + 1
    /\ BailOut
    /\ UNCHANGED <<sourceVars, elapsed, ended, queueVars, encoderVars, file>>

CaptureFails ==
    /\ recPc = "capture"
    /\ \/ kind.window /\ gone /\ LeaveLoop("window_closed") /\ UNCHANGED failures
       \/ /\ ~(kind.window /\ gone)
          /\ failures' = failures + 1
          /\ recPc' = IF failures' > Tolerated THEN "closeFailed" ELSE "wait"
          /\ UNCHANGED ended
    /\ UNCHANGED <<sourceVars, elapsed, captured, result, queueVars, encoderVars, file>>

CloseQueue ==
    /\ recPc \in {"close", "closeFailed"}
    /\ Close
    /\ recPc' = IF recPc = "close" THEN "join" ELSE "joinFailed"
    /\ UNCHANGED <<sourceVars, elapsed, captured, failures, ended, result,
                   encoderVars, file>>

\* encoder.join(): what the encoder returned is what record_into returns,
\* unless the size of the finished file cannot be read.
JoinEncoder ==
    /\ recPc = "join"
    /\ \/ encPc = "finished" /\ recPc' = "done" /\ result' = "ok"
       \/ encPc = "finished" /\ kind.to = "file" /\ BailOut
       \/ encPc = "broken" /\ BailOut
    /\ UNCHANGED <<sourceVars, elapsed, captured, failures, ended,
                   queueVars, encoderVars, file>>

\* Variation: the encoder is not waited for when the source has failed too often.
JoinAfterFailuresAtOnce ==
    /\ recPc = "joinFailed"
    /\ BailOut
    /\ UNCHANGED <<sourceVars, elapsed, captured, failures, ended,
                   queueVars, encoderVars, file>>

\* Too many failed captures: the encoder is waited for and the error kept.
JoinAfterFailures ==
    /\ recPc = "joinFailed"
    /\ encPc \in {"finished", "broken"}
    /\ BailOut
    /\ UNCHANGED <<sourceVars, elapsed, captured, failures, ended,
                   queueVars, encoderVars, file>>

\* record() removes the file of a recording that failed.  The sink writer's
\* handle may keep the file from being removed, and the error is ignored.
Remove ==
    /\ recPc = "remove"
    /\ recPc' = "done"
    /\ \/ file' = "absent"
       \/ /\ kind.format = "mp4"
          /\ file = "partial"
          /\ encPc \notin {"finished", "broken"}
          /\ UNCHANGED file
    /\ UNCHANGED <<sourceVars, elapsed, captured, failures, ended, result,
                   queueVars, encoderVars>>

-----------------------------------------------------------------------------
(* The encoder thread.                                                     *)

\* A GIF's file is opened where it was reserved; an MP4's is created.
OpenOutput ==
    /\ encPc = "open"
    /\ kind.format = "gif" /\ kind.to = "file" => file # "absent"
    /\ encPc' = "pop"
    /\ file' = IF kind.to = "file" THEN "partial" ELSE file
    /\ UNCHANGED <<sourceVars, recorderVars, queueVars, hand, written>>

\* Opening, writing a frame or finishing the file fails.
EncodingFails ==
    /\ encPc \in {"open", "write", "finish"}
    /\ encPc' = "failing"
    /\ UNCHANGED <<sourceVars, recorderVars, queueVars, hand, written, file>>

\* FrameQueue::pop waits while the queue is empty and open; a queue that has
\* been closed is emptied first.
PopFrame ==
    /\ encPc = "pop"
    /\ frames # <<>>
    /\ hand' = Head(frames)
    /\ frames' = Tail(frames)
    /\ encPc' = "write"
    /\ UNCHANGED <<sourceVars, recorderVars, closed, dropped, failed, written, file>>

PopClosed ==
    /\ encPc = "pop"
    /\ frames = <<>> /\ closed
    /\ encPc' = "finish"
    /\ UNCHANGED <<sourceVars, recorderVars, queueVars, hand, written, file>>

WriteFrame ==
    /\ encPc = "write"
    /\ written' = Append(written, hand)
    /\ hand' = 0
    /\ encPc' = "pop"
    /\ UNCHANGED <<sourceVars, recorderVars, queueVars, file>>

FinishFile ==
    /\ encPc = "finish"
    /\ encPc' = "finished"
    /\ file' = IF kind.to = "file" THEN "valid" ELSE file
    /\ UNCHANGED <<sourceVars, recorderVars, queueVars, hand, written>>

FailQueue ==
    /\ encPc = "failing"
    /\ Fail
    /\ encPc' = "broken"
    /\ UNCHANGED <<sourceVars, recorderVars, hand, written, file>>

-----------------------------------------------------------------------------
RecorderStep ==
    \/ FirstFrameFails \/ SpawnEncoder \/ PushFirst \/ FirstPixelsFail
    \/ WaitNotices \/ Tick \/ CaptureFrame \/ PixelsFail \/ CaptureFails
    \/ CloseQueue \/ JoinEncoder \/ JoinAfterFailures \/ Remove

EncoderStep ==
    \/ OpenOutput \/ EncodingFails \/ PopFrame \/ PopClosed
    \/ WriteFrame \/ FinishFile \/ FailQueue

Next == RecorderStep \/ EncoderStep \/ PressStop \/ WindowCloses

Spec == Init /\ [][Next]_vars

\* Both threads are scheduled, the source answers each request and the
\* encoder each frame, well or badly.
FairSpec == Spec /\ WF_vars(RecorderStep) /\ WF_vars(EncoderStep)

-----------------------------------------------------------------------------
(* Properties.                                                             *)

\* Counters and the queue stay in the ranges the limits of a recording give
\* them, and a frame in the queue is one that was captured.
TypeOK ==
    /\ kind \in Kind
    /\ stop \in BOOLEAN /\ gone \in BOOLEAN
    /\ recPc \in {"first", "pushFirst", "wait", "capture", "close", "closeFailed",
                  "join", "joinFailed", "remove", "done"}
    /\ elapsed \in 0..Limit
    /\ captured \in 0..(Limit + 1)
    /\ failures \in 0..(Tolerated + 1)
    /\ ended \in {"none", "stopped", "time_limit", "window_closed"}
    /\ result \in {"none", "ok", "error"}
    /\ frames \in Seq(1..captured) /\ Len(frames) <= Capacity
    /\ closed \in BOOLEAN /\ failed \in BOOLEAN
    /\ dropped \in 0..captured
    /\ encPc \in {"none", "open", "pop", "write", "finish", "finished", "failing", "broken"}
    /\ hand \in 0..captured
    /\ written \in Seq(1..captured)
    /\ file \in {"absent", "reserved", "partial", "valid"}

\* A recording that is reported saved holds its last frame, has its frames
\* in the order they were captured, and is a finished file: whoever pressed
\* Stop to keep what was on the screen has it.
SavedIsComplete ==
    result = "ok" =>
        /\ captured = Len(written) + dropped
        /\ written # <<>> /\ written[Len(written)] = captured
        /\ \A i \in 1..(Len(written) - 1) : written[i] < written[i + 1]
        /\ file = IF kind.to = "file" THEN "valid" ELSE "absent"

\* A recording that failed once its queue was closed has waited for its
\* encoder, and leaves no file behind whichever of the two failed.
FailedIsRemoved ==
    recPc = "done" /\ result = "error" /\ closed => file = "absent"

\* A recording ends: the encoder never keeps the recording thread waiting
\* for good, and a recording nobody stops ends at its time limit.
RecordingEnds == <>(recPc = "done")

===============================================================================
