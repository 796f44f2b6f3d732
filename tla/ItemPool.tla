------------------------------ MODULE ItemPool ------------------------------
(***************************************************************************)
(* What the bounded pool promises, without counters, reservations and      *)
(* channels: at most Limit items exist, an item is idle or in the hands of *)
(* one user, and an item leaves the pool for one of two reasons only, that *)
(* it is broken or that the client has disconnected.                       *)
(***************************************************************************)
EXTENDS Integers, FiniteSets

CONSTANTS Users, Things, Limit, None

VARIABLES
    idle,      \* items nobody uses
    holding,   \* the item each user has in its hands, or None
    broken,    \* items that do not work
    closed     \* the client has disconnected

Held == {holding[u] : u \in Users} \ {None}

Existing == idle \cup Held

Init ==
    /\ idle = {}
    /\ holding = [u \in Users |-> None]
    /\ broken = {}
    /\ closed = FALSE

\* A new item, in working order.
Make(u) ==
    /\ holding[u] = None
    /\ Cardinality(Existing) < Limit
    /\ \E i \in Things \ Existing :
          /\ holding' = [holding EXCEPT ![u] = i]
          /\ broken' = broken \ {i}
    /\ UNCHANGED <<idle, closed>>

Take(u) ==
    /\ holding[u] = None
    /\ \E i \in idle :
          /\ idle' = idle \ {i}
          /\ holding' = [holding EXCEPT ![u] = i]
    /\ UNCHANGED <<broken, closed>>

GiveBack(u) ==
    /\ holding[u] # None
    /\ idle' = idle \cup {holding[u]}
    /\ holding' = [holding EXCEPT ![u] = None]
    /\ UNCHANGED <<broken, closed>>

\* A working item of a connected client is never thrown away.
Discard(u) ==
    /\ holding[u] # None
    /\ holding[u] \in broken \/ closed
    /\ holding' = [holding EXCEPT ![u] = None]
    /\ UNCHANGED <<idle, broken, closed>>

Break ==
    /\ \E i \in Existing \ broken : broken' = broken \cup {i}
    /\ UNCHANGED <<idle, holding, closed>>

\* Its user repairs an item.
Mend(u) ==
    /\ holding[u] \in broken
    /\ broken' = broken \ {holding[u]}
    /\ UNCHANGED <<idle, holding, closed>>

Close == ~closed /\ closed' = TRUE /\ UNCHANGED <<idle, holding, broken>>

Next ==
    \/ \E u \in Users : Make(u) \/ Take(u) \/ GiveBack(u) \/ Discard(u) \/ Mend(u)
    \/ Break \/ Close

Spec == Init /\ [][Next]_<<idle, holding, broken, closed>>
=============================================================================
