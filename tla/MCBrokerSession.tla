--------------------------- MODULE MCBrokerSession ---------------------------
(* Instances of BrokerSession for TLC.                                     *)
EXTENDS BrokerSession, TLC

\* RPC goroutines, streams and sessions are interchangeable.
Symmetric ==
    Permutations(Callers) \cup Permutations(Streams) \cup Permutations(Sessions)
=============================================================================
