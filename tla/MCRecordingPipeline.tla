------------------------- MODULE MCRecordingPipeline -------------------------
(* RecordingPipeline with a small queue and a short time limit, for TLC.   *)
EXTENDS RecordingPipeline
===============================================================================
