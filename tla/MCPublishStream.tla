--------------------------- MODULE MCPublishStream ---------------------------
(* Instances of PublishStream for TLC.                                     *)
EXTENDS PublishStream, TLC

\* The first message asks for a confirmation, the last has no subject.
FirstConfirms == {1}
LastIsBad == {MaxMessages}
=============================================================================
