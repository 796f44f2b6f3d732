--------------------------- MODULE DeliveryWindow ---------------------------
(***************************************************************************)
(* What the prefetch count of a stream source promises: deliveries are     *)
(* handed out in the order of their numbers, at most Size of them are      *)
(* handed out and not settled, and a delivery is settled once.  A new      *)
(* subscription starts with an empty window.                               *)
(***************************************************************************)
EXTENDS Integers, FiniteSets

CONSTANT Size

VARIABLES
    taken,        \* number of the last delivery that entered the window
    outstanding   \* deliveries handed out and not settled

Init == taken = 0 /\ outstanding = {}

\* A later delivery enters; those in between were given up with a subscription.
Take ==
    /\ Cardinality(outstanding) < Size
    /\ taken' > taken
    /\ outstanding' = outstanding \cup {taken'}

Settle ==
    /\ \E d \in outstanding : outstanding' = outstanding \ {d}
    /\ UNCHANGED taken

Renew == outstanding' = {} /\ UNCHANGED taken

Next == Take \/ Settle \/ Renew

Spec == Init /\ [][Next]_<<taken, outstanding>>
=============================================================================
