--------------------------- MODULE MCBlockingPool ---------------------------
(* Instances of BlockingPool for TLC.                                      *)
EXTENDS BlockingPool, TLC

\* Goroutines and items are interchangeable.
Symmetric == Permutations(Threads) \cup Permutations(Items)
=============================================================================
