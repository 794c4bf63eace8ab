---------------------------- MODULE MCCaptureEngine ----------------------------
(* CaptureEngine on small sets, for TLC. *)
EXTENDS CaptureEngine
CONSTANT extra

\* The last press is the one that comes when the limit is spent and an overlay
\* is still open: it is ignored.  What presses do otherwise, the others show.
ExtraIsLate ==
    place[extra] # place'[extra] /\ place[extra] = "idle" =>
        /\ capPc = "receiving" /\ commands = <<>>
        /\ attempts >= MaxCaptures
        /\ selPc = "working" /\ selHand # None /\ place[selHand] = "overlay"
        /\ ~Recording /\ ~stopping /\ recovery = None
===============================================================================
