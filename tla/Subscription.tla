---------------------------- MODULE Subscription ----------------------------
(***************************************************************************)
(* How a queue subscription learns of its end: the loop of queueSubscribe  *)
(* (amqp091.go) with cancelChan and connErrChan, the goroutine of          *)
(* amqp091Channel.NotifyClose (channelNotifyCloseLoop) and the one of      *)
(* amqp091Connection.NotifyClose (amqp091shim.go).  What happens to a      *)
(* message is in QueueDelivery and ConsumeStream; here it only keeps the   *)
(* loop in its send to messageChannel, until Consume has taken it or has   *)
(* closed the channel.  Nobody closes the channel the messages come from,  *)
(* so their end never ends the loop.                                       *)
(*                                                                         *)
(* The client library gives each listener a channel with one slot.  When a *)
(* connection or channel closes, an error goes into the slot of every      *)
(* close listener, and then all listeners, also those for cancelled        *)
(* consumers, are closed: who receives from an empty closed one gets the   *)
(* empty notice.  A listener registered too late is closed at once.  Who   *)
(* closes the connection himself, as Disconnect does, causes no error:     *)
(* then there are empty notices only.                                      *)
(***************************************************************************)
EXTENDS Naturals

VARIABLES
    sub,          \* queueSubscribe: program point
    outcome,      \* what it returns: "none" yet, "nil", "error"
    subDone,      \* its context, the loopCtx of Consume, is done
    mailOpen,     \* messageChannel is open
    session,      \* bd.state is CONNECTED
    connOpen,     \* bd.Connection is open
    chanOpen,     \* the channel is open
    connErrors,   \* listener for the end of the connection
    closeErrors,  \* listener for the end of the channel
    cancelErrors, \* listener for the end of the consumer
    connErrChan,  \* slot of connErrChan
    cancelChan,   \* slot of cancelChan
    connNotifier, \* goroutine of the connection's NotifyClose
    chanNotifier, \* goroutine of the channel's NotifyClose
    dropped,      \* the broker has cancelled the consumer
    disconnected, \* bd.clientDisconnect
    leftover      \* bound: one message is still on its way when the channel closes

subscriptionVars == <<sub, outcome, subDone, mailOpen, session, connOpen, chanOpen,
                      connErrors, closeErrors, cancelErrors, connErrChan, cancelChan,
                      connNotifier, chanNotifier, dropped, disconnected, leftover>>
subscriber == <<sub, outcome>>
listeners == <<connErrors, closeErrors, cancelErrors>>
notices == <<connErrChan, cancelChan, connNotifier, chanNotifier>>
world == <<subDone, mailOpen, session, connOpen, chanOpen, dropped, disconnected,
           leftover>>

Notices == {"empty", "error"}

\* A slot without a notice, and a listener nobody has registered.
NoNotice == "none"
Unregistered == [slot |-> NoNotice, closed |-> FALSE, known |-> FALSE]
Listeners == [slot : Notices \cup {NoNotice}, closed : BOOLEAN, known : BOOLEAN]

SubscriptionTypeOK ==
    /\ sub \in {"connection", "channel", "select", "push", "notify", "close", "returned"}
    /\ outcome \in {"none", "nil", "error"}
    /\ subDone \in BOOLEAN /\ mailOpen \in BOOLEAN /\ session \in BOOLEAN
    /\ connOpen \in BOOLEAN /\ chanOpen \in BOOLEAN
    /\ dropped \in BOOLEAN /\ disconnected \in BOOLEAN /\ leftover \in BOOLEAN
    /\ connErrors \in Listeners /\ closeErrors \in Listeners /\ cancelErrors \in Listeners
    /\ connErrChan \in Notices \cup {NoNotice} /\ cancelChan \in Notices \cup {NoNotice}
    /\ connNotifier \in {"none", "select", "done"}
    /\ chanNotifier \in {"none", "select", "done"}

\* amqpChannel.Consume has returned.
SubscriptionInit ==
    /\ sub = "connection" /\ outcome = "none"
    /\ subDone = FALSE /\ mailOpen = TRUE
    /\ session = TRUE /\ connOpen = TRUE /\ chanOpen = TRUE
    /\ connErrors = Unregistered /\ closeErrors = Unregistered
    /\ cancelErrors = Unregistered
    /\ connErrChan = NoNotice /\ cancelChan = NoNotice
    /\ connNotifier = "none" /\ chanNotifier = "none"
    /\ dropped = FALSE /\ disconnected = FALSE /\ leftover = TRUE

\* A listener of something that is open or not.
Listening(open) == [slot |-> NoNotice, closed |-> ~open, known |-> TRUE]

\* The listener after its object closed with the notice e.  One nobody has registered
\* hears nothing, and one that is closed already belongs to an earlier connection.
Ended(listener, e) ==
    IF listener.known /\ ~listener.closed THEN [listener EXCEPT !.closed = TRUE,
                                            !.slot = IF @ = NoNotice THEN e ELSE @]
    ELSE listener

\* What a receive from the listener can return, and the listener after it.
Heard(listener) ==
    IF listener.slot # NoNotice THEN {listener.slot}
    ELSE IF listener.closed THEN {"empty"} ELSE {}

Taken(listener) == [listener EXCEPT !.slot = NoNotice]

\* select { case rec <- err: default: }
Offer(slot, e) == IF slot = NoNotice THEN e ELSE slot
-----------------------------------------------------------------------------
\* bd.Connection.NotifyClose(connErrChan)
ListenConnection ==
    /\ sub = "connection"
    /\ sub' = "channel"
    /\ connErrors' = Listening(connOpen)
    /\ connNotifier' = "select"
    /\ UNCHANGED <<outcome, world, closeErrors, cancelErrors, connErrChan, cancelChan,
                   chanNotifier>>

\* amqpChannel.NotifyClose(cancelChan)
ListenChannel ==
    /\ sub = "channel"
    /\ sub' = "select"
    /\ closeErrors' = Listening(chanOpen) /\ cancelErrors' = Listening(chanOpen)
    /\ chanNotifier' = "select"
    /\ UNCHANGED <<outcome, world, connErrors, connErrChan, cancelChan, connNotifier>>

\* case <-ctx.Done()
ContextEnded ==
    /\ sub = "select" /\ subDone
    /\ sub' = "notify" /\ outcome' = "nil"
    /\ UNCHANGED <<world, listeners, notices>>

\* An error ends the subscription with it; the empty notice ends it without one,
\* unless the session is connected: then the loop goes on.
Judge(notice) ==
    \/ notice = "error" /\ sub' = "notify" /\ outcome' = "error"
    \/ notice = "empty" /\ ~session /\ sub' = "notify" /\ outcome' = "nil"
    \/ notice = "empty" /\ session /\ UNCHANGED subscriber

\* case cancelErr, ok := <-cancelChan
ChannelNotice ==
    /\ sub = "select" /\ cancelChan # NoNotice
    /\ Judge(cancelChan)
    /\ cancelChan' = NoNotice
    /\ UNCHANGED <<world, listeners, connErrChan, connNotifier, chanNotifier>>

\* case chanErr, ok := <-connErrChan
ConnectionNotice ==
    /\ sub = "select" /\ connErrChan # NoNotice
    /\ Judge(connErrChan)
    /\ connErrChan' = NoNotice
    /\ UNCHANGED <<world, listeners, cancelChan, connNotifier, chanNotifier>>

\* case msg, ok := <-messages, up to messageChannel <- message.  What the client
\* library and the goroutine of Consume hold of a closed channel comes as well.
MessageTaken ==
    /\ sub = "select" /\ (chanOpen \/ leftover)
    /\ sub' = "push"
    /\ leftover' = (leftover /\ chanOpen)
    /\ UNCHANGED <<outcome, subDone, mailOpen, session, connOpen, chanOpen, dropped,
                   disconnected, listeners, notices>>

\* Consume has made room in messageChannel.
MessagePushed ==
    /\ sub = "push" /\ mailOpen
    /\ sub' = "select"
    /\ UNCHANGED <<outcome, world, listeners, notices>>

\* The send to a closed channel panics: the deferred function recovers, and what it
\* returns is not what queueSubscribe returns.
PushPanics ==
    /\ sub = "push" /\ ~mailOpen
    /\ sub' = "notify" /\ outcome' = "nil"
    /\ UNCHANGED <<world, listeners, notices>>

\* The deferred functions: "Subscribe done" on connErrChan, if it takes it ...
SubscribeDone ==
    /\ sub = "notify"
    /\ sub' = "close"
    /\ connErrChan' = Offer(connErrChan, "error")
    /\ UNCHANGED <<outcome, world, listeners, cancelChan, connNotifier, chanNotifier>>

\* ... and amqpChannel.Close().
SubscribeClose ==
    /\ sub = "close"
    /\ sub' = "returned"
    /\ chanOpen' = FALSE
    /\ closeErrors' = Ended(closeErrors, NoNotice)
    /\ cancelErrors' = Ended(cancelErrors, NoNotice)
    /\ UNCHANGED <<outcome, subDone, mailOpen, session, connOpen, dropped, disconnected,
                   connErrors, notices, leftover>>
-----------------------------------------------------------------------------
\* The goroutine of the connection: a notice is offered and ends it, and so does
\* what the subscription has sent.
ConnectionNotifies ==
    /\ connNotifier = "select"
    /\ connNotifier' = "done"
    /\ \/ \E e \in Heard(connErrors) :
             /\ connErrors' = Taken(connErrors)
             /\ connErrChan' = Offer(connErrChan, e)
       \/ /\ connErrChan # NoNotice
          /\ connErrChan' = NoNotice
          /\ UNCHANGED connErrors
    /\ UNCHANGED <<subscriber, world, closeErrors, cancelErrors, cancelChan,
                   chanNotifier>>

\* Slip: the end of the consumer is not listened for.
CloseNotifiesOnly ==
    /\ chanNotifier = "select"
    /\ chanNotifier' = "done"
    /\ \E e \in Heard(closeErrors) :
          /\ closeErrors' = Taken(closeErrors)
          /\ cancelChan' = Offer(cancelChan, e)
    /\ UNCHANGED <<subscriber, world, connErrors, cancelErrors, connErrChan,
                   connNotifier>>

\* channelNotifyCloseLoop: the first notice of either listener is offered and ends
\* it.  Nobody sends to cancelChan, so the case <-rec is never taken.
ChannelNotifies ==
    /\ chanNotifier = "select"
    /\ chanNotifier' = "done"
    /\ \/ \E e \in Heard(cancelErrors) :
             /\ cancelErrors' = Taken(cancelErrors)
             /\ cancelChan' = Offer(cancelChan, e)
             /\ UNCHANGED closeErrors
       \/ \E e \in Heard(closeErrors) :
             /\ closeErrors' = Taken(closeErrors)
             /\ cancelChan' = Offer(cancelChan, e)
             /\ UNCHANGED cancelErrors
    /\ UNCHANGED <<subscriber, world, connErrors, connErrChan, connNotifier>>

\* Its timer finds the channel closed.
TimerNotifies ==
    /\ chanNotifier = "select" /\ ~chanOpen
    /\ chanNotifier' = "done"
    /\ cancelChan' = Offer(cancelChan, "error")
    /\ UNCHANGED <<subscriber, world, listeners, connErrChan, connNotifier>>
-----------------------------------------------------------------------------
\* The connection closes with the notice e, and its channel with it.
ConnectionCloses(e) ==
    /\ connOpen
    /\ connOpen' = FALSE /\ chanOpen' = FALSE
    /\ connErrors' = Ended(connErrors, e)
    /\ closeErrors' = Ended(closeErrors, e)
    /\ cancelErrors' = Ended(cancelErrors, NoNotice)
    /\ UNCHANGED <<subscriber, subDone, mailOpen, session, dropped, notices, leftover>>

\* It is lost.
ConnectionBreaks == ConnectionCloses("error") /\ UNCHANGED disconnected

\* disconnectClientByIdentifier closes it: nobody gets an error.
Disconnect == ConnectionCloses(NoNotice) /\ disconnected' = TRUE

\* The broker closes the channel after a protocol error.
ChannelBreaks ==
    /\ chanOpen
    /\ chanOpen' = FALSE
    /\ closeErrors' = Ended(closeErrors, "error")
    /\ cancelErrors' = Ended(cancelErrors, NoNotice)
    /\ UNCHANGED <<subscriber, subDone, mailOpen, session, connOpen, dropped,
                   disconnected, connErrors, notices, leftover>>

\* The queue is deleted: the listener gets the consumer's tag, if there is one yet.
ConsumerCancelled ==
    /\ chanOpen /\ ~dropped
    /\ dropped' = TRUE
    /\ cancelErrors' = IF cancelErrors.known THEN [cancelErrors EXCEPT !.slot = "error"]
                       ELSE cancelErrors
    /\ UNCHANGED <<subscriber, subDone, mailOpen, session, connOpen, chanOpen,
                   disconnected, connErrors, closeErrors, notices, leftover>>

\* connectionWatcher notices that the connection is gone.  After Disconnect it may
\* still do so, or have been shut down before.
SessionLost ==
    /\ ~connOpen /\ session
    /\ session' = FALSE
    /\ UNCHANGED <<subscriber, subDone, mailOpen, connOpen, chanOpen, dropped,
                   disconnected, listeners, notices, leftover>>

\* It connects again: bd.Connection is another one, the channel stays closed.
SessionReconnects ==
    /\ ~connOpen /\ ~session /\ ~disconnected
    /\ connOpen' = TRUE /\ session' = TRUE
    /\ UNCHANGED <<subscriber, subDone, mailOpen, chanOpen, dropped, disconnected,
                   listeners, notices, leftover>>

\* loopCtx is cancelled, by the client's going away or by the end of Consume ...
SubscriptionCancelled ==
    /\ ~subDone
    /\ subDone' = TRUE
    /\ UNCHANGED <<subscriber, mailOpen, session, connOpen, chanOpen, dropped,
                   disconnected, listeners, notices, leftover>>

\* ... and then Consume closes messageChannel.
MailboxCloses ==
    /\ subDone /\ mailOpen
    /\ mailOpen' = FALSE
    /\ UNCHANGED <<subscriber, subDone, session, connOpen, chanOpen, dropped,
                   disconnected, listeners, notices, leftover>>

SubscriberStep ==
    \/ ListenConnection \/ ListenChannel \/ ContextEnded \/ ChannelNotice
    \/ ConnectionNotice \/ PushPanics \/ SubscribeDone \/ SubscribeClose

SubscriptionNext ==
    \/ SubscriberStep \/ MessageTaken \/ MessagePushed
    \/ ConnectionNotifies \/ ChannelNotifies \/ TimerNotifies
    \/ ConnectionBreaks \/ Disconnect \/ ChannelBreaks \/ ConsumerCancelled
    \/ SessionLost \/ SessionReconnects \/ SubscriptionCancelled \/ MailboxCloses
-----------------------------------------------------------------------------
\* The client no longer takes its messages: the loop stays in its send.
Stalled == <>[](sub = "push")

\* A subscription whose client takes its messages returns after the error of a lost
\* connection it listens to; after the cancelling of its consumer, unless Disconnect
\* has closed the connection over it; and after the error of a closed channel,
\* unless the goroutine has gone with the empty notice of the other listener and
\* left the error behind (queueSubscribe, channelNotifyCloseLoop).
SubscriptionEnds ==
    \/ Stalled
    \/ /\ connErrors.slot = "error" ~> sub = "returned"
       /\ cancelErrors.slot = "error" ~> sub = "returned" \/ disconnected
       /\ closeErrors.slot = "error" ~>
             sub = "returned" \/ (chanNotifier = "done" /\ closeErrors.slot = "error")

\* A cancelled subscription returns, also from a send that nobody waits for (the
\* panic that queueSubscribe recovers from).
CancelledReturns == subDone ~> sub = "returned"

\* The goroutines of both NotifyClose end with the subscription, although the
\* connection and its listener live on (the deferred functions of queueSubscribe).
NotifiersEnd ==
    sub = "returned" ~> connNotifier = "done" /\ chanNotifier = "done"

\* A subscription that has lost its source or its caller is over, and what it
\* started with it (queueSubscribe, both NotifyClose).
SubscriptionOver == SubscriptionEnds /\ CancelledReturns /\ NotifiersEnd
=============================================================================
