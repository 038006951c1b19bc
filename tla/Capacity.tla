------------------------------ MODULE Capacity ------------------------------
(***************************************************************************)
(* What the relay promises of a bounded resource, whoever implements it:   *)
(* at most Limit users hold it, at most Waiters wait for it, a user that   *)
(* finds it free enters at once and one that finds the waiting room full   *)
(* is turned away (a stuttering step here).  The relay has two:            *)
(* WebSocketBudget.reserve and HTTPRelayPool.lease; RelayAdmission         *)
(* implements this specification with each of them.                        *)
(***************************************************************************)
EXTENDS Integers, FiniteSets

CONSTANTS Users, Limit, Waiters

VARIABLES waiting, holding

vars == <<waiting, holding>>

Init == waiting = {} /\ holding = {}

Enter(u) ==
    /\ u \notin waiting \cup holding
    /\ Cardinality(waiting) < Waiters /\ Cardinality(holding) < Limit
    /\ holding' = holding \cup {u}
    /\ UNCHANGED waiting

Wait(u) ==
    /\ u \notin waiting \cup holding
    /\ Cardinality(waiting) < Waiters
    /\ waiting' = waiting \cup {u}
    /\ UNCHANGED holding

Grant(u) ==
    /\ u \in waiting
    /\ Cardinality(holding) < Limit
    /\ waiting' = waiting \ {u}
    /\ holding' = holding \cup {u}

GiveUp(u) ==
    /\ u \in waiting
    /\ waiting' = waiting \ {u}
    /\ UNCHANGED holding

Leave(u) ==
    /\ u \in holding
    /\ holding' = holding \ {u}
    /\ UNCHANGED waiting

Next == \E u \in Users : Enter(u) \/ Wait(u) \/ Grant(u) \/ GiveUp(u) \/ Leave(u)

Spec == Init /\ [][Next]_vars
=============================================================================
