---------------------------- MODULE ConsumeStream ----------------------------
(***************************************************************************)
(* The Consume RPC, ConsumerServer.Consume (internal/server/server.go):    *)
(* the loop of the handler and the goroutines it starts.  A receiver takes *)
(* one request from the client per turn of the loop; the first source      *)
(* starts a subscriber, which calls prov.Subscribe, and a sender, which    *)
(* passes the messages on.  The goroutine of an acknowledgement shares     *)
(* nothing with these but the stream; it is in QueueDelivery.              *)
(*                                                                         *)
(* A send on the unbuffered recvChan or stopForLoop is one step of both    *)
(* sides.  *stopFor <- true reads the variable stopForLoop twice, in the   *)
(* test for nil and as the operand of the send, while the handler's        *)
(* deferred function closes the channel and then stores nil: each of these *)
(* is a step.  The sender and the subscriber recover from the panic of a   *)
(* send on a closed channel.                                               *)
(***************************************************************************)
EXTENDS Integers, Sequences

CONSTANTS
    MaxRequests,   \* bound on the requests of the client
    MaxDeliveries, \* bound on the messages the broker delivers
    Buffer         \* capacity of messageChannel

ASSUME ConsumeAssumption ==
    /\ MaxRequests \in Nat /\ MaxDeliveries \in Nat
    /\ Buffer \in Nat \ {0}

VARIABLES
    main,           \* program point of the handler
    isSubscribing,  \* isSubscribing
    returnError,    \* returnError is not nil
    result,         \* what the handler returns: TRUE for an error
    loopCtx,        \* the handler has cancelled loopCtx
    stopForLoop,    \* the channel: "open", "closed"; the variable: "nil"
    messageChannel, \* buffer of messageChannel
    mcClosed,       \* messageChannel is closed
    receiver,       \* the receiving goroutine: its point and what it received
    sender,         \* the sending goroutine: its point and the message it holds
    subscriber,     \* the subscribing goroutine: its point, source.DeclareOnly, and
                    \* whether it connected and subscribed without an error
    requests,       \* requests received from the client
    ended,          \* how the client has ended the stream
    delivered,      \* messages prov.Subscribe has taken from the broker
    sent,           \* history: messages given to the client
    stopped         \* history: the loop was stopped by a goroutine that had failed

deferVars == <<loopCtx, stopForLoop, mcClosed>>
clientVars == <<requests, ended, sent>>
vars == <<main, isSubscribing, returnError, result, loopCtx, stopForLoop,
          messageChannel, mcClosed, receiver, sender, subscriber, requests, ended,
          delivered, sent, stopped>>

Sources == {"source", "declareOnly", "badOptions"}
Requests == Sources \cup {"other"}
Idle == [pc |-> "none", got |-> "none"]

\* The last statements of the sender and of the subscriber: the test of
\* *stopFor, its second evaluation, the send, and the send on a nil channel.
Stopping == {"test", "operand", "stop", "forever"}

TypeOK ==
    /\ main \in {"start", "top", "select", "return", "cancel", "closeMessages",
                 "closeStop", "forget", "returned"}
    /\ isSubscribing \in BOOLEAN /\ returnError \in BOOLEAN /\ result \in BOOLEAN
    /\ loopCtx \in BOOLEAN /\ mcClosed \in BOOLEAN /\ stopped \in BOOLEAN
    /\ stopForLoop \in {"open", "closed", "nil"}
    /\ messageChannel \in Seq(1..MaxDeliveries) /\ Len(messageChannel) <= Buffer
    /\ receiver \in [pc : {"none", "recv", "offer"},
                     got : Requests \cup {"error", "none"}]
    /\ sender \in [pc : Stopping \cup {"none", "select", "send", "done"},
                   msg : 0..MaxDeliveries]
    /\ subscriber \in [pc : Stopping \cup {"none", "wait", "consume", "push",
                                           "declared", "done"},
                       only : BOOLEAN, ok : BOOLEAN]
    /\ requests \in 0..MaxRequests
    /\ ended \in {"no", "eof", "cancel"}
    /\ delivered \in 0..MaxDeliveries
    /\ sent \in Seq(1..MaxDeliveries)

Init ==
    /\ main = "start"
    /\ isSubscribing = FALSE /\ returnError = FALSE /\ result = FALSE
    /\ loopCtx = FALSE /\ stopForLoop = "open"
    /\ messageChannel = <<>> /\ mcClosed = FALSE
    /\ receiver = Idle
    /\ sender = [pc |-> "none", msg |-> 0]
    /\ subscriber = [pc |-> "none", only |-> FALSE, ok |-> TRUE]
    /\ requests = 0 /\ ended = "no" /\ delivered = 0
    /\ sent = <<>> /\ stopped = FALSE

\* The context of the stream is done: the client is gone, or gRPC has ended the
\* stream because the handler returned.
Dead == ended = "cancel" \/ main = "returned"

\* loopCtx is derived from the context of the stream.
LoopDone == loopCtx \/ Dead
-----------------------------------------------------------------------------
(* The handler.                                                            *)

\* Without a client identifier or a provider the client gets an error and the
\* handler returns before it has made its channels.
Start ==
    /\ main = "start"
    /\ \/ main' = "top" /\ UNCHANGED result
       \/ main' = "returned" /\ result' = TRUE
    /\ UNCHANGED <<isSubscribing, returnError, deferVars, messageChannel, receiver,
                   sender, subscriber, clientVars, delivered, stopped>>

\* The head of the loop: a new recvChan and its receiver.
Loop ==
    /\ main = "top"
    /\ main' = "select"
    /\ receiver' = [Idle EXCEPT !.pc = "recv"]
    /\ UNCHANGED <<isSubscribing, returnError, result, deferVars, messageChannel,
                   sender, subscriber, clientVars, delivered, stopped>>

\* case <-ctx.Done(), and case <-stopForLoop with a goroutine at its send.
LoopEnds ==
    /\ main = "select"
    /\ \/ ended = "cancel" /\ UNCHANGED <<sender, subscriber, stopped>>
       \/ /\ sender.pc = "stop"
          /\ sender' = [sender EXCEPT !.pc = "done"]
          /\ stopped' = TRUE
          /\ UNCHANGED subscriber
       \/ /\ subscriber.pc = "stop"
          /\ subscriber' = [subscriber EXCEPT !.pc = "done"]
          /\ stopped' = ~subscriber.ok
          /\ UNCHANGED sender
    /\ main' = "return"
    /\ UNCHANGED <<isSubscribing, returnError, result, deferVars, messageChannel,
                   receiver, clientVars, delivered>>

\* The first source: SetSourceDefaults, the test of the options, and the start of
\* the sender and of the subscriber.  Unsupported options end the handler.
Subscribe ==
    /\ main = "select"
    /\ receiver.pc = "offer" /\ receiver.got \in Sources
    /\ ~isSubscribing
    /\ receiver' = Idle
    /\ IF receiver.got = "badOptions"
       THEN /\ main' = "cancel"
            /\ result' = TRUE
            /\ UNCHANGED <<isSubscribing, sender, subscriber>>
       ELSE /\ main' = "top"
            /\ isSubscribing' = TRUE
            /\ sender' = [sender EXCEPT !.pc = "select"]
            /\ subscriber' = [pc |-> "wait", only |-> receiver.got = "declareOnly",
                              ok |-> TRUE]
            /\ UNCHANGED result
    /\ UNCHANGED <<returnError, deferVars, messageChannel, clientVars, delivered,
                   stopped>>

\* The other cases of <-recvChan: the end of the stream; a second source, which is
\* answered with an error; an acknowledgement; an empty request.
Request ==
    /\ main = "select"
    /\ receiver.pc = "offer"
    /\ receiver' = Idle
    /\ \/ /\ receiver.got = "error"
          /\ main' = "return"
          /\ returnError' = TRUE
       \/ /\ receiver.got = "other" \/ (receiver.got \in Sources /\ isSubscribing)
          /\ main' = "top"
          /\ UNCHANGED returnError
    /\ UNCHANGED <<isSubscribing, result, deferVars, messageChannel, sender,
                   subscriber, clientVars, delivered, stopped>>

\* return returnError: the operand is evaluated before the deferred calls.
Return ==
    /\ main = "return"
    /\ main' = "cancel"
    /\ result' = returnError
    /\ UNCHANGED <<isSubscribing, returnError, deferVars, messageChannel, receiver,
                   sender, subscriber, clientVars, delivered, stopped>>

\* Slip: messageChannel is left to the garbage collector.
CloseStopOnly ==
    /\ main \in {"cancel", "closeStop", "forget"}
    /\ main' = CASE main = "cancel" -> "closeStop"
                 [] main = "closeStop" -> "forget"
                 [] main = "forget" -> "returned"
    /\ loopCtx' = TRUE
    /\ stopForLoop' = CASE main = "cancel" -> stopForLoop
                        [] main = "closeStop" -> "closed"
                        [] main = "forget" -> "nil"
    /\ UNCHANGED <<isSubscribing, returnError, result, mcClosed, messageChannel,
                   receiver, sender, subscriber, clientVars, delivered, stopped>>

\* The deferred calls, last one first: loopCancel, close(messageChannel),
\* close(stopForLoop), stopForLoop = nil.
Deferred ==
    /\ main \in {"cancel", "closeMessages", "closeStop", "forget"}
    /\ main' = CASE main = "cancel" -> "closeMessages"
                 [] main = "closeMessages" -> "closeStop"
                 [] main = "closeStop" -> "forget"
                 [] main = "forget" -> "returned"
    /\ loopCtx' = TRUE
    /\ mcClosed' = (main # "cancel")
    /\ stopForLoop' = CASE main = "closeStop" -> "closed"
                        [] main = "forget" -> "nil"
                        [] OTHER -> stopForLoop
    /\ UNCHANGED <<isSubscribing, returnError, result, messageChannel, receiver,
                   sender, subscriber, clientVars, delivered, stopped>>
-----------------------------------------------------------------------------
(* The receiver.                                                           *)

\* strm.Recv() returns a request of the client.
Recv ==
    /\ receiver.pc = "recv"
    /\ ended = "no" /\ ~Dead
    /\ requests < MaxRequests
    /\ requests' = requests + 1
    /\ \E request \in Requests : receiver' = [pc |-> "offer", got |-> request]
    /\ UNCHANGED <<main, isSubscribing, returnError, result, deferVars, messageChannel,
                   sender, subscriber, ended, delivered, sent, stopped>>

\* strm.Recv() returns io.EOF, or the error of a stream that is over.
RecvEnd ==
    /\ receiver.pc = "recv"
    /\ ended # "no" \/ Dead
    /\ receiver' = [pc |-> "offer", got |-> "error"]
    /\ UNCHANGED <<main, isSubscribing, returnError, result, deferVars, messageChannel,
                   sender, subscriber, clientVars, delivered, stopped>>

\* The other case of its select: <-lCtx.Done().
ReceiverStops ==
    /\ receiver.pc = "offer"
    /\ LoopDone
    /\ receiver' = Idle
    /\ UNCHANGED <<main, isSubscribing, returnError, result, deferVars, messageChannel,
                   sender, subscriber, clientVars, delivered, stopped>>
-----------------------------------------------------------------------------
(* The sender.                                                             *)

\* case message, ok := <-mc
SenderTake ==
    /\ sender.pc = "select"
    /\ messageChannel # <<>>
    /\ sender' = [pc |-> "send", msg |-> Head(messageChannel)]
    /\ messageChannel' = Tail(messageChannel)
    /\ UNCHANGED <<main, isSubscribing, returnError, result, deferVars, receiver,
                   subscriber, clientVars, delivered, stopped>>

\* It returns: the context is done, or messageChannel is closed and empty.
SenderReturns ==
    /\ sender.pc = "select"
    /\ LoopDone \/ (mcClosed /\ messageChannel = <<>>)
    /\ sender' = [sender EXCEPT !.pc = "done"]
    /\ UNCHANGED <<main, isSubscribing, returnError, result, deferVars, messageChannel,
                   receiver, subscriber, clientVars, delivered, stopped>>

\* sender.Send(resp).  It fails on a dead stream, or when gRPC refuses the message.
SenderSend ==
    /\ sender.pc = "send"
    /\ \/ /\ ~Dead
          /\ sent' = Append(sent, sender.msg)
          /\ sender' = [pc |-> "select", msg |-> 0]
          /\ UNCHANGED returnError
       \/ /\ sender' = [sender EXCEPT !.pc = "test"]
          /\ returnError' = TRUE
          /\ UNCHANGED sent
    /\ UNCHANGED <<main, isSubscribing, result, deferVars, messageChannel, receiver,
                   subscriber, requests, ended, delivered, stopped>>

\* if *stopFor != nil { *stopFor <- true }, as far as it needs no partner: the
\* test, the operand, and the panic of a send on a channel that is closed.  A send
\* on the nil channel never ends.
StopSteps(point) ==
    CASE point = "test" -> {IF stopForLoop = "nil" THEN "done" ELSE "operand"}
      [] point = "operand" -> {IF stopForLoop = "nil" THEN "forever" ELSE "stop"}
      [] point = "stop" -> IF stopForLoop = "open" THEN {} ELSE {"done"}
      [] OTHER -> {}

SenderStop ==
    /\ \E next \in StopSteps(sender.pc) : sender' = [sender EXCEPT !.pc = next]
    /\ UNCHANGED <<main, isSubscribing, returnError, result, deferVars, messageChannel,
                   receiver, subscriber, clientVars, delivered, stopped>>
-----------------------------------------------------------------------------
(* The subscriber, with prov.Subscribe of a queue.                         *)

\* prov.WaitForConnect(cont), both answers.
WaitForConnect ==
    /\ subscriber.pc = "wait"
    /\ \/ /\ subscriber' = [subscriber EXCEPT !.pc = "consume"]
          /\ UNCHANGED returnError
       \/ /\ subscriber' = [subscriber EXCEPT !.pc = "test", !.ok = FALSE]
          /\ returnError' = TRUE
    /\ UNCHANGED <<main, isSubscribing, result, deferVars, messageChannel, receiver,
                   sender, clientVars, delivered, stopped>>

\* A message comes from the broker ...
Deliver ==
    /\ subscriber.pc = "consume" /\ ~subscriber.only
    /\ delivered < MaxDeliveries
    /\ delivered' = delivered + 1
    /\ subscriber' = [subscriber EXCEPT !.pc = "push"]
    /\ UNCHANGED <<main, isSubscribing, returnError, result, deferVars, messageChannel,
                   receiver, sender, clientVars, stopped>>

\* Slip: a message that finds messageChannel full is dropped.
PushOrDrop ==
    /\ subscriber.pc = "push"
    /\ subscriber' = [subscriber EXCEPT !.pc = "consume"]
    /\ messageChannel' = IF Len(messageChannel) < Buffer
                         THEN Append(messageChannel, delivered) ELSE messageChannel
    /\ UNCHANGED <<main, isSubscribing, returnError, result, deferVars, receiver,
                   sender, clientVars, delivered, stopped>>

\* ... and goes to messageChannel.  On a closed channel the send panics, and the
\* deferred recover of queueSubscribe makes Subscribe return nil.
Push ==
    /\ subscriber.pc = "push"
    /\ \/ /\ ~mcClosed /\ Len(messageChannel) < Buffer
          /\ messageChannel' = Append(messageChannel, delivered)
          /\ subscriber' = [subscriber EXCEPT !.pc = "consume"]
       \/ /\ mcClosed
          /\ subscriber' = [subscriber EXCEPT !.pc = "declared"]
          /\ UNCHANGED messageChannel
    /\ UNCHANGED <<main, isSubscribing, returnError, result, deferVars, receiver,
                   sender, clientVars, delivered, stopped>>

\* Slip: the error of Subscribe is only logged.
UnsubscribeLogged ==
    /\ subscriber.pc = "consume"
    /\ \E ok \in BOOLEAN :
          subscriber' = [subscriber EXCEPT !.pc = "declared", !.ok = ok]
    /\ UNCHANGED <<main, isSubscribing, returnError, result, deferVars, messageChannel,
                   receiver, sender, clientVars, delivered, stopped>>

\* Subscribe returns: nil for a done context, an error or nil when the broker ends
\* the subscription or the set-up fails, either for a source that only declares.
Unsubscribe ==
    /\ subscriber.pc = "consume"
    /\ \E ok \in BOOLEAN :
          /\ subscriber' = [subscriber EXCEPT !.pc = "declared", !.ok = ok]
          /\ returnError' = (returnError \/ ~ok)
    /\ UNCHANGED <<main, isSubscribing, result, deferVars, messageChannel, receiver,
                   sender, clientVars, delivered, stopped>>

\* Slip: the loop is stopped for an error only.
StopOnErrorOnly ==
    /\ subscriber.pc = "declared"
    /\ subscriber' = [subscriber EXCEPT !.pc = IF subscriber.ok THEN "done" ELSE "test"]
    /\ UNCHANGED <<main, isSubscribing, returnError, result, deferVars, messageChannel,
                   receiver, sender, clientVars, delivered, stopped>>

\* The response to a source that only declares; the error of its Send is ignored.
Declared ==
    /\ subscriber.pc = "declared"
    /\ subscriber' = [subscriber EXCEPT !.pc = "test"]
    /\ UNCHANGED <<main, isSubscribing, returnError, result, deferVars, messageChannel,
                   receiver, sender, clientVars, delivered, stopped>>

SubscriberStop ==
    /\ \E next \in StopSteps(subscriber.pc) :
          subscriber' = [subscriber EXCEPT !.pc = next]
    /\ UNCHANGED <<main, isSubscribing, returnError, result, deferVars, messageChannel,
                   receiver, sender, clientVars, delivered, stopped>>
-----------------------------------------------------------------------------
\* The client half-closes the stream, or goes away.
ClientEnds ==
    /\ ended = "no" /\ main # "returned"
    /\ ended' \in {"eof", "cancel"}
    /\ UNCHANGED <<main, isSubscribing, returnError, result, deferVars, messageChannel,
                   receiver, sender, subscriber, requests, delivered, sent, stopped>>

MainStep == Start \/ Loop \/ LoopEnds \/ Subscribe \/ Request \/ Return \/ Deferred
ReceiverStep == RecvEnd \/ ReceiverStops
SenderStep == SenderTake \/ SenderReturns \/ SenderSend \/ SenderStop
SubscriberStep ==
    \/ WaitForConnect \/ Push \/ Declared \/ SubscriberStop
    \/ (LoopDone \/ subscriber.only) /\ Unsubscribe

Next ==
    \/ MainStep \/ Recv \/ ReceiverStep \/ SenderStep
    \/ WaitForConnect \/ Deliver \/ Push \/ Unsubscribe \/ Declared \/ SubscriberStop
    \/ ClientEnds

Spec == Init /\ [][Next]_vars

(***************************************************************************)
(* Goroutines that can run do run; Recv returns once the stream is over,   *)
(* and Subscribe once its context is done or it has declared.  The client  *)
(* need not send or end, and the broker need not deliver or break.         *)
(***************************************************************************)
Fairness ==
    /\ WF_vars(MainStep) /\ WF_vars(ReceiverStep)
    /\ WF_vars(SenderStep) /\ WF_vars(SubscriberStep)

FairSpec == Spec /\ Fairness
-----------------------------------------------------------------------------
InHand == IF sender.pc = "send" THEN 1 ELSE 0
Pushing == IF subscriber.pc = "push" THEN 1 ELSE 0

\* What the provider delivers reaches the client in order and without a gap: as
\* long as the stream works a message was sent, or is in the sender's hands, or in
\* messageChannel, or about to be put there.  A full channel delays the subscriber
\* and drops nothing (server.go Consume, amqp091.go queueSubscribe).
ForwardedInOrder ==
    /\ \A i \in 1..Len(sent) : sent[i] = i
    /\ sender.pc \in {"select", "send"} /\ main \in {"top", "select"} =>
          delivered = Len(sent) + Len(messageChannel) + InHand + Pushing

\* The sender has not failed or returned.
SenderWorks == sender.pc \in {"none", "select", "send"}

\* The messages that can still reach the client: once messageChannel is closed the
\* one the subscriber is about to push no more, without the sender none.
InTransit ==
    IF SenderWorks
    THEN InHand + Len(messageChannel) + (IF mcClosed THEN 0 ELSE Pushing)
    ELSE 0

Line == INSTANCE MessageLine WITH
    Size <- Buffer + 2, waiting <- InTransit, given <- sent,
    cut <- mcClosed \/ ~SenderWorks

\* The handler, its sender and the subscriber implement one line of messages: at
\* most what messageChannel holds and one in the hands of either goroutine is in
\* the server, each goes to the client in the order of the provider, and messages
\* are given up only at the end of the line, when the sender fails or returns or
\* the handler closes messageChannel (server.go Consume).
ImplementsLine == Line!Spec

\* A loop that a failed goroutine has stopped returns an error to the client: the
\* error is in returnError before the handler can see the stop (server.go Consume).
FailureReported == main = "returned" /\ stopped => result

\* "stopForLoop is used for errors that require the exiting of Consume"
\* (server.go): when the client, the subscription or the sender is finished the
\* handler returns, whatever else it is receiving.
HandlerReturns ==
    ended # "no" \/ subscriber.pc \in Stopping \cup {"declared"} \/ sender.pc \in Stopping
        ~> main = "returned"

\* "we don't want leaks" (server.go): once the handler has returned its goroutines
\* end, also a subscriber that found messageChannel full and a receiver in Recv.
\* The one exception is a goroutine that tested stopForLoop before the handler
\* stored nil there and evaluated it again afterwards.
GoroutinesEnd ==
    main = "returned" ~> /\ receiver.pc = "none"
                         /\ sender.pc \in {"none", "done", "forever"}
                         /\ subscriber.pc \in {"none", "done", "forever"}
=============================================================================
