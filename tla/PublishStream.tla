---------------------------- MODULE PublishStream ----------------------------
(***************************************************************************)
(* The Publish RPC: ProducerServer.Publish (internal/server/server.go) and *)
(* the provider's Publish that it calls (amqp091.go).                      *)
(*                                                                         *)
(* The handler works in rounds.  A round makes two unbuffered channels,    *)
(* starts a goroutine that receives from the client (a reader) and calls   *)
(* prov.Publish; when that returns, the next round begins although the     *)
(* reader of the last one may still be there.  A send on an unbuffered     *)
(* channel is one step of both sides.  The readers share the variable msg  *)
(* of the handler: a reader that has received evaluates it later.          *)
(*                                                                         *)
(* Messages are numbered in the order in which the client sends them.  The *)
(* server cannot tell when they were sent, so the client sends a message   *)
(* when a reader receives it.                                              *)
(***************************************************************************)
EXTENDS Integers, Sequences

CONSTANTS
    MaxMessages,   \* bound on the messages of the stream
    MaxRounds,     \* bound on the rounds
    Confirms,      \* messages with Confirm set, which Publish refuses
    BadAddress,    \* messages without exactly one subject
    MayBreak,      \* whether the broker connection may be lost
    MayClose       \* whether Arke may close the connection (a Disconnect RPC)

Messages == 1..MaxMessages
Rounds == 1..MaxRounds

ASSUME PublishAssumption ==
    /\ MaxMessages \in Nat /\ MaxRounds \in Nat
    /\ Confirms \subseteq Messages /\ BadAddress \subseteq Messages
    /\ MayBreak \in BOOLEAN /\ MayClose \in BOOLEAN

VARIABLES
    main,         \* program point of the handler, prov.Publish included
    round,        \* number of the current round
    stopPublish,  \* stopPublish
    taken,        \* the message prov.Publish has received
    result,       \* what prepareAndSend returned for it: TRUE for nil
    reader,       \* the reader of each round: point, message received, value
                  \* of msg in the select, Success of resp, stopPubFunc
    msg,          \* the variable msg of the handler
    received,     \* messages received from the client
    ended,        \* how the client has ended the stream
    known,        \* the client is in connectionMap and prov.connections
    up,           \* bd.Connection is open
    open,         \* so is the connection on which prov.Publish has its channel
    notice,       \* what connErrChan or cancelChan holds for prov.Publish
    published,    \* history: messages given to the broker
    responses,    \* history: responses sent to the client, for messages of it
    shared        \* history: a round began while an earlier reader could receive

streamVars == <<msg, received, ended>>
brokerVars == <<known, up, open, notice>>
vars == <<main, round, stopPublish, taken, result, reader, msg, received, ended,
          known, up, open, notice, published, responses, shared>>

\* Points of the handler inside prov.Publish.
InPublish == {"select", "refuse", "work", "result"}

\* A reader has returned: after its last response, or at the end of the stream.
Gone == {"done", "over"}

NoReader == [pc |-> "none", mine |-> 0, value |-> 0, ok |-> FALSE, stop |-> FALSE]

TypeOK ==
    /\ main \in InPublish \cup
         {"top", "enter", "notify", "report", "check", "wait", "after", "finish", "returned"}
    /\ round \in 0..MaxRounds
    /\ stopPublish \in BOOLEAN /\ result \in BOOLEAN /\ shared \in BOOLEAN
    /\ known \in BOOLEAN /\ up \in BOOLEAN /\ open \in BOOLEAN
    /\ taken \in 0..MaxMessages /\ msg \in 0..MaxMessages
    /\ received \in 0..MaxMessages
    /\ reader \in
         [Rounds -> [pc : Gone \cup {"none", "recv", "prepare", "offer", "await", "send"},
                     mine : 0..MaxMessages, value : 0..MaxMessages,
                     ok : BOOLEAN, stop : BOOLEAN]]
    /\ ended \in {"no", "eof", "cancel"}
    /\ notice \in {"none", "error", "clean"}
    /\ published \in Seq(Messages)
    /\ responses \in Seq([msg : Messages, ok : BOOLEAN])
    /\ main \in {"refuse", "work", "result"} => taken # 0

Init ==
    /\ main = "top" /\ round = 0 /\ stopPublish = FALSE
    /\ taken = 0 /\ result = FALSE
    /\ reader = [r \in Rounds |-> NoReader]
    /\ msg = 0 /\ received = 0 /\ ended = "no"
    /\ known = TRUE /\ up = TRUE /\ open = FALSE /\ notice = "none"
    /\ published = <<>> /\ responses = <<>> /\ shared = FALSE

\* The reader of the current round.
Current == reader[round]

\* The stream to the client is gone: Recv and Send fail.
Dead == ended = "cancel" \/ main = "returned"

\* A reader that has not returned and will not return after its next response.
Receives(r) == reader[r].pc \notin Gone \cup {"none"} /\ ~reader[r].stop

\* A reader has its response and is about to send it.
Answer(r, success, halt) ==
    reader' = [reader EXCEPT ![r].pc = "send", ![r].ok = success, ![r].stop = halt]
-----------------------------------------------------------------------------
(* The handler, outside prov.Publish.                                      *)

\* The head of the loop: the client must exist; new channels, a new reader.
RoundBegin ==
    /\ main = "top"
    /\ IF known
       THEN /\ round < MaxRounds
            /\ round' = round + 1
            /\ reader' = [reader EXCEPT ![round + 1] = [NoReader EXCEPT !.pc = "recv"]]
            /\ shared' = (shared \/ \E r \in Rounds : Receives(r))
            /\ main' = "enter"
       ELSE main' = "finish" /\ UNCHANGED <<round, reader, shared>>
    /\ UNCHANGED <<stopPublish, taken, result, streamVars, brokerVars, published,
                   responses>>

\* errChan <- err, once the reader is in its select
Report ==
    /\ main = "report"
    /\ Current.pc = "offer"
    /\ Answer(round, FALSE, TRUE)
    /\ main' = "check"
    /\ UNCHANGED <<round, stopPublish, taken, result, streamVars, brokerVars,
                   published, responses, shared>>

\* clientExists after an error
CheckClient ==
    /\ main = "check"
    /\ main' = IF known THEN "wait" ELSE "after"
    /\ stopPublish' = (stopPublish \/ ~known)
    /\ UNCHANGED <<round, taken, result, reader, streamVars, brokerVars, published,
                   responses, shared>>

\* WaitForConnect.  The state word it polls may be out of date, so both answers
\* are possible; continue skips the test of stopPublish.
WaitForConnect ==
    /\ main = "wait"
    /\ main' \in {"top", "after"}
    /\ UNCHANGED <<round, stopPublish, taken, result, reader, streamVars,
                   brokerVars, published, responses, shared>>

RoundEnd ==
    /\ main = "after"
    /\ main' = IF stopPublish THEN "finish" ELSE "top"
    /\ UNCHANGED <<round, stopPublish, taken, result, reader, streamVars,
                   brokerVars, published, responses, shared>>

\* The last response, which belongs to no message, and the return.
Finish ==
    /\ main = "finish"
    /\ main' = "returned"
    /\ UNCHANGED <<round, stopPublish, taken, result, reader, streamVars,
                   brokerVars, published, responses, shared>>
-----------------------------------------------------------------------------
(* prov.Publish.                                                           *)

\* getBrokerDetails, IsClosed and NewChannel
PublishEnter ==
    /\ main = "enter"
    /\ main' = IF known /\ up THEN "notify" ELSE "report"
    /\ open' = (known /\ up)
    /\ UNCHANGED <<round, stopPublish, taken, result, reader, streamVars, known, up,
                   notice, published, responses, shared>>

\* The two NotifyClose.  On a connection that is closed by now the library
\* closes the channel it is given, which is passed on as no error.
PublishNotify ==
    /\ main = "notify"
    /\ main' = "select"
    /\ notice' = IF open THEN "none" ELSE "clean"
    /\ UNCHANGED <<round, stopPublish, taken, result, reader, streamVars, known,
                   up, open, published, responses, shared>>

\* Slip: only the context ends the loop, not a closed messageChannel.
StopsForContextOnly ==
    /\ main = "select"
    /\ ended = "cancel"
    /\ main' = "after"
    /\ UNCHANGED <<round, stopPublish, taken, result, reader, streamVars,
                   brokerVars, published, responses, shared>>

\* ctx.Done, or the reader has closed messageChannel: nil is returned.
PublishStops ==
    /\ main = "select"
    /\ ended = "cancel" \/ Current.pc \in Gone
    /\ main' = "after"
    /\ UNCHANGED <<round, stopPublish, taken, result, reader, streamVars,
                   brokerVars, published, responses, shared>>

\* A notification.  One without an error ends Publish with nil, unless the
\* state word still says CONNECTED.
PublishNotified ==
    /\ main = "select"
    /\ notice # "none"
    /\ main' \in IF notice = "error" THEN {"report"} ELSE {"after", "select"}
    /\ notice' = "none"
    /\ UNCHANGED <<round, stopPublish, taken, result, reader, streamVars, known, up,
                   open, published, responses, shared>>

\* Slip: one messageChannel for all rounds; a reader of an earlier round is told
\* that its message was taken.
TakeFromAnyRound ==
    /\ main = "select"
    /\ \E r \in Rounds :
          /\ reader[r].pc = "offer"
          /\ taken' = reader[r].value
          /\ IF r = round THEN reader' = [reader EXCEPT ![r].pc = "await"]
                          ELSE Answer(r, TRUE, TRUE)
    /\ main' = "work"
    /\ UNCHANGED <<round, stopPublish, result, streamVars, brokerVars, published,
                   responses, shared>>

\* message := <-messageChannel
PublishTake ==
    /\ main = "select"
    /\ Current.pc = "offer"
    /\ taken' = Current.value
    /\ reader' = [reader EXCEPT ![round].pc = "await"]
    /\ main' = IF Current.value \in Confirms THEN "refuse" ELSE "work"
    /\ UNCHANGED <<round, stopPublish, result, streamVars, brokerVars, published,
                   responses, shared>>

\* A message with Confirm set gets an error first, and is published all the same.
PublishRefuse ==
    /\ main = "refuse"
    /\ Current.pc = "await"
    /\ Answer(round, FALSE, FALSE)
    /\ main' = "work"
    /\ UNCHANGED <<round, stopPublish, taken, result, streamVars, brokerVars,
                   published, responses, shared>>

\* prepareAndSend.  A closed channel is opened again (ensureChannel), but only on
\* the connection it was made on.
PrepareAndSend ==
    /\ main = "work"
    /\ result' = open
    /\ published' = IF open THEN Append(published, taken) ELSE published
    /\ main' = "result"
    /\ UNCHANGED <<round, stopPublish, taken, reader, streamVars, brokerVars,
                   responses, shared>>

\* Slip: the reader's select takes a nil error for success.
ResultMistaken ==
    /\ main = "result"
    /\ Current.pc \in {"await", "offer"}
    /\ Answer(round, result, Current.pc = "offer")
    /\ main' = "select"
    /\ taken' = 0
    /\ UNCHANGED <<round, stopPublish, result, streamVars, brokerVars, published,
                   responses, shared>>

\* errChan <- the result.  The reader that waits for it takes it as the outcome
\* of its message; the one in its select, after Confirm, takes it as a failure.
PublishResult ==
    /\ main = "result"
    /\ \/ Current.pc = "await" /\ Answer(round, result, FALSE)
       \/ Current.pc = "offer" /\ Answer(round, FALSE, TRUE)
    /\ main' = "select"
    /\ taken' = 0
    /\ UNCHANGED <<round, stopPublish, result, streamVars, brokerVars, published,
                   responses, shared>>
-----------------------------------------------------------------------------
(* A reader.                                                               *)

\* msg, err = stream.Recv()
Recv(r) ==
    /\ reader[r].pc = "recv"
    /\ ended = "no" /\ ~Dead
    /\ received < MaxMessages
    /\ received' = received + 1
    /\ msg' = received + 1
    /\ reader' = [reader EXCEPT ![r].pc = "prepare", ![r].mine = received + 1]
    /\ UNCHANGED <<main, round, stopPublish, taken, result, ended, brokerVars,
                   published, responses, shared>>

\* The end of the stream, or an error of it.  When another reader stores nil in
\* the shared err in between, the end is taken for a message without an address.
RecvEnd(r) ==
    /\ reader[r].pc = "recv"
    /\ ended # "no" \/ Dead
    /\ msg' = 0
    /\ \/ /\ stopPublish' = TRUE
          /\ reader' = [reader EXCEPT ![r].pc = "over"]
       \/ /\ \E o \in Rounds \ {r} : reader[o].pc \in {"prepare", "send"}
          /\ reader' = [reader EXCEPT ![r] =
                            [NoReader EXCEPT !.pc = "send"]]
          /\ UNCHANGED stopPublish
    /\ UNCHANGED <<main, round, taken, result, received, ended, brokerVars,
                   published, responses, shared>>

\* The same race the other way round: another reader has stored the end of the
\* stream in err, and this one returns with a message that it received.
RecvMistaken(r) ==
    /\ reader[r].pc = "prepare"
    /\ \E o \in Rounds \ {r} : reader[o].pc = "over"
    /\ stopPublish' = TRUE
    /\ reader' = [reader EXCEPT ![r] = [NoReader EXCEPT !.pc = "done"]]
    /\ UNCHANGED <<main, round, taken, result, streamVars, brokerVars, published,
                   responses, shared>>

\* The test of the subjects and the operand of mc <- msg, both of msg as it is
\* now.
Prepare(r) ==
    /\ reader[r].pc = "prepare"
    /\ IF msg \in BadAddress \cup {0}
       THEN Answer(r, FALSE, FALSE)
       ELSE reader' = [reader EXCEPT ![r].pc = "offer", ![r].value = msg]
    /\ UNCHANGED <<main, round, stopPublish, taken, result, streamVars, brokerVars,
                   published, responses, shared>>

\* Slip: the select has no timer.
NoTimer(r) == FALSE /\ UNCHANGED vars

\* case <-timer.C
Timeout(r) ==
    /\ reader[r].pc = "offer"
    /\ Answer(r, FALSE, TRUE)
    /\ UNCHANGED <<main, round, stopPublish, taken, result, streamVars, brokerVars,
                   published, responses, shared>>

\* stream.Send(resp), and the return that closes messageChannel
Send(r) ==
    /\ reader[r].pc = "send"
    /\ IF Dead
       THEN /\ stopPublish' = TRUE
            /\ reader' = [reader EXCEPT ![r] = [NoReader EXCEPT !.pc = "done"]]
            /\ UNCHANGED responses
       ELSE /\ responses' = IF reader[r].mine = 0 THEN responses
                            ELSE Append(responses, [msg |-> reader[r].mine,
                                                    ok |-> reader[r].ok])
            /\ reader' = [reader EXCEPT ![r] =
                    [NoReader EXCEPT !.pc = IF reader[r].stop THEN "done" ELSE "recv"]]
            /\ UNCHANGED stopPublish
    /\ UNCHANGED <<main, round, taken, result, streamVars, brokerVars, published,
                   shared>>
-----------------------------------------------------------------------------
(* The client and the broker.                                              *)

\* The client half-closes the stream, or goes away.
ClientEnds ==
    /\ ended = "no" /\ main # "returned"
    /\ ended' \in {"eof", "cancel"}
    /\ UNCHANGED <<main, round, stopPublish, taken, result, reader, msg, received,
                   brokerVars, published, responses, shared>>

\* The connection is lost, or only the channel of this Publish is closed.
ConnectionLost ==
    /\ MayBreak
    /\ up
    /\ up' \in BOOLEAN
    /\ open' = (open /\ up')
    /\ notice' = IF main \in InPublish /\ open THEN "error" ELSE notice
    /\ UNCHANGED <<main, round, stopPublish, taken, result, reader, streamVars,
                   known, published, responses, shared>>

\* A Disconnect RPC of the client closes the connection ...
ConnectionClosed ==
    /\ MayClose
    /\ up
    /\ up' = FALSE /\ open' = FALSE
    /\ notice' = IF main \in InPublish /\ open THEN "clean" ELSE notice
    /\ UNCHANGED <<main, round, stopPublish, taken, result, reader, streamVars,
                   known, published, responses, shared>>

\* ... and forgets the client.
ClientForgotten ==
    /\ MayClose
    /\ known /\ ~up
    /\ known' = FALSE
    /\ UNCHANGED <<main, round, stopPublish, taken, result, reader, streamVars,
                   up, open, notice, published, responses, shared>>

\* The watcher, or a new Connect RPC, brings the connection back.
Reconnected ==
    /\ ~up
    /\ up' = TRUE /\ known' = TRUE
    /\ UNCHANGED <<main, round, stopPublish, taken, result, reader, streamVars,
                   open, notice, published, responses, shared>>
-----------------------------------------------------------------------------
MainStep ==
    \/ RoundBegin \/ Report \/ CheckClient \/ WaitForConnect \/ RoundEnd \/ Finish
    \/ PublishEnter \/ PublishNotify \/ PublishStops \/ PublishNotified \/ PublishTake
    \/ PublishRefuse \/ PrepareAndSend \/ PublishResult

ReaderStep(r) ==
    Prepare(r) \/ Timeout(r) \/ Send(r) \/ RecvEnd(r) \/ RecvMistaken(r)

Next ==
    \/ MainStep
    \/ \E r \in Rounds : Recv(r) \/ ReaderStep(r)
    \/ ClientEnds \/ ConnectionLost \/ ConnectionClosed \/ ClientForgotten
    \/ Reconnected

Spec == Init /\ [][Next]_vars

(***************************************************************************)
(* Goroutines that can run do run, timers expire, and Recv returns once    *)
(* the stream has ended.  The client need not send or end, and the broker  *)
(* need neither break nor come back.                                       *)
(***************************************************************************)
Fairness == WF_vars(MainStep) /\ \A r \in Rounds : WF_vars(ReaderStep(r))

FairSpec == Spec /\ Fairness
-----------------------------------------------------------------------------
\* "Indicates whether the message was published successfully" (arke.proto, the
\* field success): the client is told so only of a message that was given to the
\* broker, also when an answer that is due to one message is received while the
\* reader deals with the next.  It is claimed as long as the variable msg has one
\* reader.
SuccessMeansPublished ==
    ~shared =>
        \A i \in 1..Len(responses) : responses[i].ok =>
            \E k \in 1..Len(published) : published[k] = responses[i].msg

\* The messages of a stream reach the broker in the order the client sent them
\* and none of them twice, across lost connections and the rounds they cause,
\* while readers of earlier rounds still hold messages.
PublishedInOrder ==
    \A i, k \in 1..Len(published) : i < k => published[i] < published[k]

Log == INSTANCE PublishLog WITH mixed <- shared

\* The handler, its readers and prov.Publish implement a log of the stream: across
\* lost connections and the rounds they cause a message is published at most once
\* and after those before it, and at most one MessageResponse names it, whichever of
\* the timer, errChan and the test of the subjects decides it, and whichever reader
\* of whichever round sends it (server.go Publish, amqp091.go Publish).
ImplementsLog == Log!Spec

\* "Arke sends one MessageResponse per message" (client-publish-consume.md): a
\* message that was received is answered, or the stream is dead; no reader waits
\* for ever for a provider that has gone on to another round.  Once the client has
\* ended the stream it is claimed as long as the variable err has one reader.
EveryMessageAnswered ==
    \A m \in Messages :
        received = m ~> \/ \E i \in 1..Len(responses) : responses[i].msg = m
                        \/ Dead
                        \/ shared /\ ended # "no"

\* "loop until either the client no longer exists or the stream is dead"
\* (server.go): the handler returns after the client has ended the stream.  Two
\* sends on errChan can keep it, when the reader of the round has returned before:
\* the error of the provider, and the second result of a message with Confirm.  It is
\* claimed as long as the variable err has one reader; at the bound on the rounds
\* the handler stays at the head of its loop.
StreamEnds ==
    ended # "no" ~> \/ main \in {"returned", "top"}
                    \/ main \in {"report", "result"} /\ Current.pc \in Gone
                    \/ shared
=============================================================================
