--------------------------- MODULE MCQueueDelivery ---------------------------
(* Instances of QueueDelivery for TLC.                                     *)
EXTENDS QueueDelivery, TLC

\* Messages, copies and the requests of one delivery are interchangeable.
Symmetric ==
    Permutations(Messages) \cup Permutations(Copies) \cup Permutations(Requests)
=============================================================================
