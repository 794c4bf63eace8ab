----------------------------- MODULE MCFileOutput -----------------------------
(* FileOutput on small sets, for TLC. *)
EXTENDS FileOutput, TLC

CONSTANTS j1, j2, w1, w2

Symmetry == Permutations(Worker) \cup Permutations(Job) \cup Permutations(Producer)

\* Captures are alike, and so are workers: the first of each is taken first.
InOrder ==
    /\ j2 \in Job /\ fate'[j2] # "none" => fate'[j1] # "none"
    /\ workerPc'[w2] # "unborn" => workerPc'[w1] # "unborn"

MCInit == Init /\ workerPc[w2] = "unborn"
MCSpec == MCInit /\ [][Next /\ InOrder]_vars /\ Scheduled
===============================================================================
