---------------------------- MODULE AttemptBudget ----------------------------
(***************************************************************************)
(* What `--max-captures` promises, with the threads, queues and engine     *)
(* that keep the promise left out: an attempt is begun at most once and    *)
(* ended at most once, no more than the permitted number are ever begun,   *)
(* and the daemon leaves because the limit is reached only when every      *)
(* attempt it began has ended.                                             *)
(***************************************************************************)
EXTENDS Naturals, FiniteSets

CONSTANTS
    Attempt,      \* the triggers that may become capture attempts
    MaxCaptures   \* --max-captures

VARIABLES
    open,         \* attempts begun and not ended
    closed,       \* attempts that have ended
    verdict       \* why the capture thread left, "running" while it has not

vars == <<open, closed, verdict>>

Init ==
    /\ open = {}
    /\ closed = {}
    /\ verdict = "running"

Spent == Cardinality(open \cup closed) >= MaxCaptures

Begin(a) ==
    /\ verdict = "running"
    /\ ~Spent
    /\ a \notin open \cup closed
    /\ open' = open \cup {a}
    /\ UNCHANGED <<closed, verdict>>

\* The attempt is over as soon as it is counted: there is no engine to serve it.
BeginAndEnd(a) ==
    /\ verdict = "running"
    /\ ~Spent
    /\ a \notin open \cup closed
    /\ closed' = closed \cup {a}
    /\ UNCHANGED <<open, verdict>>

\* The selection worker may end an attempt after the capture thread has left.
End(a) ==
    /\ a \in open
    /\ open' = open \ {a}
    /\ closed' = closed \cup {a}
    /\ UNCHANGED verdict

ReachLimit ==
    /\ verdict = "running"
    /\ open = {}
    /\ Spent
    /\ verdict' = "limit"
    /\ UNCHANGED <<open, closed>>

Stop ==
    /\ verdict = "running"
    /\ verdict' = "stopped"
    /\ UNCHANGED <<open, closed>>

Next ==
    \/ \E a \in Attempt : Begin(a) \/ BeginAndEnd(a) \/ End(a)
    \/ ReachLimit
    \/ Stop

Spec == Init /\ [][Next]_vars
===============================================================================
