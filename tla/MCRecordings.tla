---------------------------- MODULE MCRecordings ----------------------------
(* Recordings on small sets, for TLC.                                      *)
EXTENDS Recordings, TLC

CONSTANTS r1, r2

Symmetry == Permutations(Recording) \cup Permutations(Ui)

\* Recordings are alike, so r1 may be taken to be the first.
InOrder == starting' = r2 => starting = r2 \/ recPc[r1] # "none"

MCExitSpec == Init /\ [][Next /\ InOrder]_vars /\ Threads
=============================================================================
