--------------------------- MODULE MCStreamConsumer ---------------------------
(***************************************************************************)
(* Instance of StreamConsumer for TLC: a window of two messages, and a     *)
(* second subscription beside what is left of the first.                   *)
(***************************************************************************)
EXTENDS StreamConsumer
=============================================================================
