----------------------------- MODULE PublishLog -----------------------------
(***************************************************************************)
(* What the Publish RPC promises of the messages of one stream, numbered   *)
(* as the client sends them: they go to the broker in this order and at    *)
(* most once, each of them is answered at most once, and success is the    *)
(* answer to published messages only.  The last is not promised once two   *)
(* goroutines receive from the stream at the same time.                    *)
(***************************************************************************)
EXTENDS Integers, Sequences

VARIABLES
    received,    \* messages received from the client
    published,   \* numbers of the messages given to the broker
    responses,   \* the answers: message and success
    mixed        \* two goroutines have received at the same time

Init ==
    /\ received = 0
    /\ published = << >>
    /\ responses = << >>
    /\ mixed = FALSE

Published(m) == \E k \in 1..Len(published) : published[k] = m
Answered(m) == \E k \in 1..Len(responses) : responses[k].msg = m

Receive ==
    /\ received' = received + 1
    /\ UNCHANGED <<published, responses, mixed>>

\* A message may be left out, but none is given to the broker after a later one.
Publish ==
    /\ \E m \in 1..received :
          /\ \A k \in 1..Len(published) : published[k] < m
          /\ published' = Append(published, m)
    /\ UNCHANGED <<received, responses, mixed>>

Respond ==
    /\ \E m \in 1..received, ok \in BOOLEAN :
          /\ ~Answered(m)
          /\ ok => Published(m) \/ mixed
          /\ responses' = Append(responses, [msg |-> m, ok |-> ok])
    /\ UNCHANGED <<received, published, mixed>>

Mix == mixed' = TRUE /\ UNCHANGED <<received, published, responses>>

Next == Receive \/ Publish \/ Respond \/ Mix

Spec == Init /\ [][Next]_<<received, published, responses, mixed>>
=============================================================================
