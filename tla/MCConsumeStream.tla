--------------------------- MODULE MCConsumeStream ---------------------------
(***************************************************************************)
(* Instance of ConsumeStream for TLC: one stream, with a messageChannel    *)
(* that two deliveries can fill.                                           *)
(***************************************************************************)
EXTENDS ConsumeStream
=============================================================================
