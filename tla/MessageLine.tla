---------------------------- MODULE MessageLine -----------------------------
(***************************************************************************)
(* What the Consume RPC promises of the messages of a subscription: they   *)
(* stand in one line, numbered as the provider delivers them, and the      *)
(* client is given them from its front.  At most Size of them wait, nobody *)
(* leaves the line in between, and only when it is cut are those at its    *)
(* end given up; then no message enters any more.                          *)
(***************************************************************************)
EXTENDS Integers, Sequences

CONSTANT Size

VARIABLES
    waiting,   \* how many messages stand in the line
    given,     \* numbers of the messages given to the client
    cut        \* the line has been cut

Init == waiting = 0 /\ given = << >> /\ cut = FALSE

Enter ==
    /\ ~cut
    /\ waiting < Size
    /\ waiting' = waiting + 1
    /\ UNCHANGED <<given, cut>>

\* The message after the last one given is at the front.
Leave ==
    /\ waiting > 0
    /\ waiting' = waiting - 1
    /\ given' = Append(given, Len(given) + 1)
    /\ UNCHANGED cut

Cut ==
    /\ waiting' \in 0..waiting
    /\ cut' = TRUE
    /\ UNCHANGED given

Next == Enter \/ Leave \/ Cut

Spec == Init /\ [][Next]_<<waiting, given, cut>>
=============================================================================
