-------------------------------- MODULE Lease --------------------------------
(* A bounded pool of leases: no more than Limit are out at once, and they  *)
(* are taken and given back one at a time, by those who hold them.         *)
EXTENDS Integers, FiniteSets

CONSTANTS Holder, Limit

VARIABLE held

Init == held = {}

Take(h) ==
    /\ h \notin held
    /\ Cardinality(held) < Limit
    /\ held' = held \cup {h}

GiveBack(h) ==
    /\ h \in held
    /\ held' = held \ {h}

Next == \E h \in Holder : Take(h) \/ GiveBack(h)

Spec == Init /\ [][Next]_held

===============================================================================
