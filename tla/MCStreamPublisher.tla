-------------------------- MODULE MCStreamPublisher --------------------------
(***************************************************************************)
(* Instance of StreamPublisher for TLC: two callers of the key of messages *)
(* to be confirmed of one publisher name, whose pool has room for one      *)
(* publisher.                                                              *)
(***************************************************************************)
EXTENDS StreamPublisher
=============================================================================
