---------------------------- MODULE QueueDelivery ----------------------------
(***************************************************************************)
(* Delivery and settlement of queue messages for one client:               *)
(* queueSubscribe, Ack, Nack, DeadLetter and Retry of the AMQP provider,   *)
(* the goroutine that the Consume RPC starts for every acknowledgement,    *)
(* and what a reconnect does to them.                                      *)
(*                                                                         *)
(* A copy is one message held by the broker; Retry publishes a second copy *)
(* to a delay queue and acknowledges the first.  Every delivery of a copy  *)
(* has a tag (its index in sent), which stands for the delivery tag and    *)
(* for the uuid under which activeMessages keeps it.  A subscription is    *)
(* one run of queueSubscribe and the AMQP channel it opened; it belongs to *)
(* the connection (epoch) on which it was opened.                          *)
(*                                                                         *)
(* Acknowledgements travel: wire holds the frames written to a channel     *)
(* that the broker has not read.  They are lost with the connection.       *)
(***************************************************************************)
EXTENDS Integers, Sequences, FiniteSets

CONSTANTS
    Messages,         \* messages published to the queue
    Copies,           \* names for their copies; bounds the retries
    Requests,         \* acknowledgements a client may send for one delivery
    Kinds,            \* what the client asks: "ack", "nack", "retry"
    MaxEpochs,        \* bound on the connections
    MaxSubs,          \* bound on the subscriptions
    MaxDeliveries,    \* bound on the deliveries
    MaxAcquired,      \* maxAcquiredCount
    DeclareMayFail,   \* whether the broker may refuse a channel or declaration
    DelayQueueExists, \* whether an earlier retry has declared the delay queue
    None              \* no message, no acknowledgement

ASSUME DeliveryAssumption ==
    /\ Kinds \subseteq {"ack", "nack", "retry"}
    /\ MaxEpochs \in Nat \ {0} /\ MaxSubs \in Nat /\ MaxDeliveries \in Nat
    /\ MaxAcquired \in Nat
    /\ DeclareMayFail \in BOOLEAN /\ DelayQueueExists \in BOOLEAN
    /\ None \notin Messages \cup Requests

VARIABLES
    copyOf,    \* the message a copy carries
    place,     \* where the broker has the copy
    acquired,  \* how often the copy was handed out (x-acquired-count)
    sent,      \* the deliveries so far: copy, subscription, header value
    unacked,   \* deliveries the broker waits for
    wire,      \* settlement frames on their way to the broker, with the
               \* acknowledgement they come from (None: the delivery cap)
    conn,      \* the connection: "up", "down", or "dialing" under bd.Lock
    epoch,     \* number of the current connection
    subs,      \* the subscriptions: epoch, open channel, running loop
    buffer,    \* deliveries in a subscription's message channel
    active,    \* keys of bd.activeMessages
    inbox,     \* deliveries the client has received
    job,       \* the goroutine of each acknowledgement
    retryCh,   \* epoch of bd.RetryChannel, 0 for nil
    known,     \* entries for the delay queue: knownQueues, knownBindings
    declared,  \* what of the two the broker has
    disposed   \* history: messages the client acked or nacked, or over the cap

brokerVars == <<copyOf, place, acquired, unacked, wire>>
connVars   == <<conn, epoch, subs, retryCh, known>>
vars == <<copyOf, place, acquired, sent, unacked, wire, conn, epoch, subs,
          buffer, active, inbox, job, retryCh, known, declared, disposed>>

Places == {"unborn", "ready", "unacked", "delayed", "gone"}
JobPoints ==
    {"idle", "lookup", "call", "delete", "done",           \* Ack, Nack, DeadLetter
     "channel", "newChannel", "store",                     \* Retry
     "queueCheck", "queueCall", "queueAdd",
     "bindingCheck", "bindingCall", "bindingAdd",
     "publish", "confirm", "ackOriginal", "requeue",
     "nackLookup", "nackCall"}                             \* Consume after Retry

\* Points of Retry at which amqpChannel is a channel (dereferenced, not nil).
HaveChannel ==
    {"store", "queueCheck", "queueCall", "queueAdd", "bindingCheck",
     "bindingCall", "bindingAdd", "publish", "confirm", "ackOriginal", "requeue"}

Tags == 1..MaxDeliveries
Jobs == Tags \X Requests
NoJob == [kind |-> "ack", pc |-> "idle", conn |-> 0, rch |-> 0]

TypeOK ==
    /\ copyOf \in [Copies -> Messages \cup {None}]
    /\ place \in [Copies -> Places]
    /\ acquired \in [Copies -> Nat]
    /\ sent \in Seq([copy : Copies, sub : Nat, header : Nat])
    /\ unacked \subseteq Tags /\ buffer \subseteq Tags
    /\ active \subseteq Tags /\ inbox \subseteq Tags
    /\ wire \subseteq Tags \X {"ack", "reject", "requeue"}
                         \X (Requests \cup {None})
    /\ conn \in {"up", "down", "dialing"}
    /\ epoch \in 1..MaxEpochs
    /\ subs \in Seq([epoch : 1..MaxEpochs, open : BOOLEAN, running : BOOLEAN])
    /\ job \in [Jobs -> [kind : {"ack", "nack", "retry"}, pc : JobPoints,
                         conn : 0..MaxEpochs, rch : 0..MaxEpochs]]
    /\ \A j \in Jobs : job[j].pc \in HaveChannel => job[j].rch # 0
    /\ retryCh \in 0..MaxEpochs
    /\ known \subseteq {"queue", "binding"}
    /\ declared \subseteq {"queue", "binding"}
    /\ disposed \subseteq Messages

\* Every message starts as one copy in the queue; the client is connected.
Init ==
    /\ copyOf \in [Copies -> Messages \cup {None}]
    /\ \A m \in Messages : \E c \in Copies :
            copyOf[c] = m /\ \A d \in Copies : copyOf[d] = m => d = c
    /\ place = [c \in Copies |-> IF copyOf[c] = None THEN "unborn" ELSE "ready"]
    /\ acquired = [c \in Copies |-> 0]
    /\ sent = <<>> /\ subs = <<>>
    /\ unacked = {} /\ wire = {} /\ buffer = {} /\ active = {} /\ inbox = {}
    /\ conn = "up" /\ epoch = 1
    /\ job = [j \in Jobs |-> NoJob]
    /\ retryCh = 0 /\ known = {}
    /\ declared = IF DelayQueueExists THEN {"queue", "binding"} ELSE {}
    /\ disposed = {}

MessageOf(t) == copyOf[sent[t].copy]
SubOf(t) == subs[sent[t].sub]

\* maxAcquiredCountHit on the header of a delivery
maxAcquiredCountHit(t) == sent[t].header > MaxAcquired

\* The broker takes back every delivery in ts: the copies are ready again.
TakeBack(ts) ==
    /\ unacked' = unacked \ ts
    /\ wire' = {f \in wire : f[1] \notin ts}
    /\ place' = [c \in Copies |->
                    IF \E t \in ts \cap unacked : sent[t].copy = c
                    THEN "ready" ELSE place[c]]
-----------------------------------------------------------------------------
(* The broker (external).                                                  *)

\* A ready copy goes to an open subscription and is read into its channel.
Deliver(c, s) ==
    /\ place[c] = "ready"
    /\ subs[s].open
    /\ Len(sent) < MaxDeliveries
    /\ place' = [place EXCEPT ![c] = "unacked"]
    /\ acquired' = [acquired EXCEPT ![c] = @ + 1]
    /\ sent' = Append(sent, [copy |-> c, sub |-> s, header |-> acquired[c]])
    /\ unacked' = unacked \cup {Len(sent) + 1}
    /\ buffer' = buffer \cup {Len(sent) + 1}
    /\ UNCHANGED <<copyOf, wire, connVars, active, inbox, job, declared, disposed>>

\* The broker reads a settlement.  A tag it does not know closes the channel.
ReadFrame(t, how, r) ==
    /\ <<t, how, r>> \in wire
    /\ IF t \in unacked
       THEN /\ unacked' = unacked \ {t}
            /\ wire' = wire \ {<<t, how, r>>}
            /\ place' = [place EXCEPT ![sent[t].copy] =
                            IF how = "requeue" THEN "ready" ELSE "gone"]
            /\ UNCHANGED subs
       ELSE /\ TakeBack({u \in 1..Len(sent) : sent[u].sub = sent[t].sub})
            /\ subs' = [subs EXCEPT ![sent[t].sub].open = FALSE]
    /\ UNCHANGED <<copyOf, acquired, sent, conn, epoch, retryCh, known, buffer,
                   active, inbox, job, declared, disposed>>

\* The delay is over: the copy returns to the queue.
DelayOver(c) ==
    /\ place[c] = "delayed"
    /\ place' = [place EXCEPT ![c] = "ready"]
    /\ UNCHANGED <<copyOf, acquired, sent, unacked, wire, connVars, buffer,
                   active, inbox, job, declared, disposed>>

\* The connection breaks, and with it every channel and every frame.  The
\* bound keeps a subscription in reserve for the next connection.
ConnectionLost ==
    /\ conn = "up"
    /\ epoch < MaxEpochs /\ Len(subs) < MaxSubs
    /\ conn' = "down"
    /\ TakeBack(1..Len(sent))
    /\ subs' = [s \in 1..Len(subs) |-> [subs[s] EXCEPT !.open = FALSE]]
    /\ UNCHANGED <<copyOf, acquired, sent, epoch, retryCh, known, buffer, active,
                   inbox, job, declared, disposed>>
-----------------------------------------------------------------------------
(* connect(), called by the watcher.                                       *)

\* The maps are replaced first, before the dial ...
ReconnectBegin ==
    /\ conn = "down"
    /\ conn' = "dialing"
    /\ active' = {}
    /\ known' = {}
    /\ UNCHANGED <<brokerVars, sent, epoch, subs, retryCh, buffer, inbox, job,
                   declared, disposed>>

\* ... then the connection and RetryChannel, once the dial succeeded.
ReconnectEnd ==
    /\ conn = "dialing"
    /\ conn' = "up"
    /\ epoch' = epoch + 1
    /\ retryCh' = 0
    /\ UNCHANGED <<brokerVars, sent, subs, known, buffer, active, inbox, job,
                   declared, disposed>>
-----------------------------------------------------------------------------
(* queueSubscribe.                                                         *)

\* A Consume RPC subscribes on the current connection.
Subscribe ==
    /\ conn = "up"
    /\ Len(subs) < MaxSubs
    /\ subs' = Append(subs, [epoch |-> epoch, open |-> TRUE, running |-> TRUE])
    /\ UNCHANGED <<brokerVars, sent, conn, epoch, retryCh, known, buffer, active,
                   inbox, job, declared, disposed>>

\* case msg := <-messages: a message over the cap is rejected, any other goes
\* into activeMessages (whichever map is there now) and to the client.
HandleMessage(t) ==
    /\ t \in buffer
    /\ SubOf(t).running
    /\ buffer' = buffer \ {t}
    /\ IF maxAcquiredCountHit(t)
       THEN /\ wire' = IF SubOf(t).open THEN wire \cup {<<t, "reject", None>>}
                       ELSE wire
            /\ disposed' = disposed \cup {MessageOf(t)}
            /\ UNCHANGED <<active, inbox>>
       ELSE /\ active' = active \cup {t}
            /\ inbox' = inbox \cup {t}
            /\ UNCHANGED <<wire, disposed>>
    /\ UNCHANGED <<copyOf, place, acquired, sent, unacked, connVars, job, declared>>

\* The loop returns, for its client's sake or because the channel or the
\* connection is gone, and closes its channel: the broker takes back what is
\* outstanding.  The bound keeps the last subscription running.
UnsubscribeReturn(s) ==
    /\ subs[s].running
    /\ subs[s].open => Len(subs) < MaxSubs
    /\ subs' = [subs EXCEPT ![s].open = FALSE, ![s].running = FALSE]
    /\ buffer' = {t \in buffer : sent[t].sub # s}
    /\ TakeBack({t \in 1..Len(sent) : sent[t].sub = s})
    /\ UNCHANGED <<copyOf, acquired, sent, conn, epoch, retryCh, known, active,
                   inbox, job, declared, disposed>>
-----------------------------------------------------------------------------
(* The goroutine of one acknowledgement.                                   *)

jobsOnly == <<brokerVars, sent, connVars, buffer, inbox, declared, disposed>>

JobGoto(j, point) == job' = [job EXCEPT ![j].pc = point]

\* Retries that may still publish a copy.
Retrying ==
    {j \in Jobs : /\ job[j].kind = "retry"
                  /\ job[j].pc \notin {"idle", "ackOriginal", "requeue", "delete",
                                       "nackLookup", "nackCall", "done"}}

\* The client acknowledges a delivery; the bound is on the copies of retries.
Acknowledge(j, kind) ==
    /\ j[1] \in inbox
    /\ job[j].pc = "idle"
    /\ kind = "retry" =>
          Cardinality({c \in Copies : place[c] = "unborn"}) > Cardinality(Retrying)
    /\ job' = [job EXCEPT ![j] = [NoJob EXCEPT !.kind = kind, !.pc = "lookup"]]
    /\ disposed' = IF kind = "retry" THEN disposed
                   ELSE disposed \cup {MessageOf(j[1])}
    /\ UNCHANGED <<brokerVars, sent, connVars, buffer, active, inbox, declared>>

\* Slip: the entry is taken out of activeMessages by the lookup.
LookupTakes(j) ==
    /\ job[j].pc = "lookup"
    /\ JobGoto(j, IF j[1] \notin active
                  THEN IF job[j].kind = "retry" THEN "nackLookup" ELSE "done"
                  ELSE IF job[j].kind = "retry" THEN "channel" ELSE "call")
    /\ active' = active \ {j[1]}
    /\ UNCHANGED jobsOnly

\* bd.activeMessages.Get(msgid) in Ack, Nack, DeadLetter and Retry.  When Retry
\* reports an error, Consume calls Nack.
Lookup(j) ==
    /\ job[j].pc = "lookup"
    /\ JobGoto(j, IF j[1] \notin active
                  THEN IF job[j].kind = "retry" THEN "nackLookup" ELSE "done"
                  ELSE IF job[j].kind = "retry" THEN "channel" ELSE "call")
    /\ UNCHANGED <<jobsOnly, active>>

NackLookup(j) ==
    /\ job[j].pc = "nackLookup"
    /\ JobGoto(j, IF j[1] \in active THEN "nackCall" ELSE "done")
    /\ UNCHANGED <<jobsOnly, active>>

\* Writes a settlement to the channel the delivery came from; a closed channel
\* is an error and nothing is written.
WriteFrame(j, how) ==
    wire' = IF SubOf(j[1]).open THEN wire \cup {<<j[1], how, j[2]>>} ELSE wire

\* rm.Ack() or rm.Nack(false), of Ack, Nack, DeadLetter or the Nack after Retry
SettleCall(j) ==
    /\ job[j].pc \in {"call", "nackCall"}
    /\ WriteFrame(j, IF job[j].pc = "call" /\ job[j].kind = "ack"
                     THEN "ack" ELSE "reject")
    /\ JobGoto(j, "delete")
    /\ UNCHANGED <<copyOf, place, acquired, unacked, sent, connVars, buffer,
                   active, inbox, declared, disposed>>

\* bd.activeMessages.Delete(msgid), whether or not the call succeeded
DeleteActive(j) ==
    /\ job[j].pc = "delete"
    /\ active' = active \ {j[1]}
    /\ JobGoto(j, "done")
    /\ UNCHANGED jobsOnly
-----------------------------------------------------------------------------
(* Retry.                                                                  *)

\* Under bd.Lock, so not during a dial: read RetryChannel and Connection.
RetryChannel(j) ==
    /\ job[j].pc = "channel"
    /\ conn # "dialing"
    /\ job' = [job EXCEPT ![j].pc = IF retryCh = 0 THEN "newChannel" ELSE "queueCheck",
                          ![j].conn = epoch,
                          ![j].rch = retryCh]
    /\ UNCHANGED <<jobsOnly, active>>

\* connection.NewChannel(true) on the connection that was read
RetryNewChannel(j) ==
    /\ job[j].pc = "newChannel"
    /\ \/ /\ job[j].conn = epoch /\ conn = "up"
          /\ job' = [job EXCEPT ![j].pc = "store", ![j].rch = job[j].conn]
       \/ /\ job[j].conn # epoch \/ conn # "up" \/ DeclareMayFail
          /\ JobGoto(j, "nackLookup")
    /\ UNCHANGED <<jobsOnly, active>>

\* Under bd.Lock: bd.RetryChannel = &newRetryChannel
RetryStoreChannel(j) ==
    /\ job[j].pc = "store"
    /\ conn # "dialing"
    /\ retryCh' = job[j].rch
    /\ JobGoto(j, "queueCheck")
    /\ UNCHANGED <<brokerVars, sent, conn, epoch, subs, known, buffer, active,
                   inbox, declared, disposed>>

\* declareQueue: skipped when known; without a standby channel its error is
\* only logged.
QueueCheck(j) ==
    /\ job[j].pc = "queueCheck"
    /\ \/ /\ "queue" \in known \/ conn # "up" \/ DeclareMayFail
          /\ JobGoto(j, "bindingCheck")
       \/ /\ "queue" \notin known /\ conn = "up"
          /\ job' = [job EXCEPT ![j].pc = "queueCall", ![j].conn = epoch]
    /\ UNCHANGED <<jobsOnly, active>>

\* declareBinding: without a standby channel, Retry returns the error.
BindingCheck(j) ==
    /\ job[j].pc = "bindingCheck"
    /\ \/ /\ "binding" \in known
          /\ JobGoto(j, "publish")
       \/ /\ "binding" \notin known /\ conn = "up"
          /\ job' = [job EXCEPT ![j].pc = "bindingCall", ![j].conn = epoch]
       \/ /\ "binding" \notin known /\ (conn # "up" \/ DeclareMayFail)
          /\ JobGoto(j, "nackLookup")
    /\ UNCHANGED <<jobsOnly, active>>

\* QueueDeclare and QueueBind on the standby channel found by the check.  An
\* error (dead channel, refusal, no queue to bind) is logged, no more.
DeclareCall(j) ==
    /\ \/ /\ job[j].pc = "queueCall"
          /\ JobGoto(j, "queueAdd")
          /\ \/ /\ job[j].conn = epoch /\ conn = "up"
                /\ declared' = declared \cup {"queue"}
             \/ /\ job[j].conn # epoch \/ conn # "up" \/ DeclareMayFail
                /\ UNCHANGED declared
       \/ /\ job[j].pc = "bindingCall"
          /\ JobGoto(j, "bindingAdd")
          /\ declared' = IF job[j].conn = epoch /\ conn = "up" /\ "queue" \in declared
                         THEN declared \cup {"binding"} ELSE declared
    /\ UNCHANGED <<brokerVars, sent, connVars, buffer, active, inbox, disposed>>

\* knownQueues.Add, knownBindings.Add: on whichever maps bd has now
DeclareAdd(j) ==
    /\ \/ /\ job[j].pc = "queueAdd"
          /\ known' = known \cup {"queue"}
          /\ JobGoto(j, "bindingCheck")
       \/ /\ job[j].pc = "bindingAdd"
          /\ known' = known \cup {"binding"}
          /\ JobGoto(j, "publish")
    /\ UNCHANGED <<brokerVars, sent, conn, epoch, subs, retryCh, buffer, active,
                   inbox, declared, disposed>>

\* Slip: the original is acknowledged before the copy is published.
RetryAcksFirst(j) ==
    /\ job[j].pc = "publish"
    /\ WriteFrame(j, "ack")
    /\ JobGoto(j, IF job[j].rch = epoch /\ conn = "up" THEN "confirm" ELSE "requeue")
    /\ UNCHANGED <<copyOf, place, acquired, unacked, sent, connVars, buffer,
                   active, inbox, declared, disposed>>

\* amqpChannel.Publish: ensureChannel reopens a closed channel on its own
\* connection only, so a channel of an earlier connection is an error.
RetryPublish(j) ==
    /\ job[j].pc = "publish"
    /\ JobGoto(j, IF job[j].rch = epoch /\ conn = "up" THEN "confirm" ELSE "requeue")
    /\ UNCHANGED <<jobsOnly, active>>

\* The broker takes a published message: into the delay queue if that is bound,
\* else it drops the message (it is not mandatory).
TakeRetried(m) ==
    IF "binding" \in declared
    THEN \E c \in Copies : /\ place[c] = "unborn"
                           /\ place' = [place EXCEPT ![c] = "delayed"]
                           /\ copyOf' = [copyOf EXCEPT ![c] = m]
    ELSE UNCHANGED <<place, copyOf>>

\* dc.Wait(): confirmed, routed or not; when the connection breaks first the
\* message may have arrived or not.
RetryConfirm(j) ==
    /\ job[j].pc = "confirm"
    /\ \/ /\ job[j].rch = epoch /\ conn = "up"
          /\ TakeRetried(MessageOf(j[1]))
          /\ JobGoto(j, "ackOriginal")
       \/ /\ job[j].rch # epoch \/ conn # "up"
          /\ TakeRetried(MessageOf(j[1])) \/ UNCHANGED <<place, copyOf>>
          /\ JobGoto(j, "requeue")
    /\ UNCHANGED <<acquired, sent, unacked, wire, connVars, buffer, active, inbox,
                   declared, disposed>>

\* Slip: Retry requeues and also returns the publish error.
RetryReportsFailure(j) ==
    /\ job[j].pc \in {"ackOriginal", "requeue"}
    /\ WriteFrame(j, IF job[j].pc = "ackOriginal" THEN "ack" ELSE "requeue")
    /\ JobGoto(j, IF job[j].pc = "requeue" THEN "nackLookup" ELSE "delete")
    /\ UNCHANGED <<copyOf, place, acquired, unacked, sent, connVars, buffer,
                   active, inbox, declared, disposed>>

\* rm.Ack() after a confirmed publish, rm.Nack(true) after a failed one; a
\* message over the cap is rejected instead of requeued.
RetrySettle(j) ==
    /\ job[j].pc \in {"ackOriginal", "requeue"}
    /\ WriteFrame(j, IF job[j].pc = "ackOriginal" THEN "ack"
                     ELSE IF maxAcquiredCountHit(j[1]) THEN "reject"
                     ELSE "requeue")
    /\ JobGoto(j, "delete")
    /\ UNCHANGED <<copyOf, place, acquired, unacked, sent, connVars, buffer,
                   active, inbox, declared, disposed>>
-----------------------------------------------------------------------------
JobStep(j) ==
    \/ Lookup(j) \/ NackLookup(j) \/ SettleCall(j) \/ DeleteActive(j)
    \/ RetryChannel(j) \/ RetryNewChannel(j) \/ RetryStoreChannel(j)
    \/ QueueCheck(j) \/ BindingCheck(j) \/ DeclareCall(j) \/ DeclareAdd(j)
    \/ RetryPublish(j) \/ RetryConfirm(j) \/ RetrySettle(j)

Next ==
    \/ \E c \in Copies, s \in 1..Len(subs) : Deliver(c, s)
    \/ \E f \in wire : ReadFrame(f[1], f[2], f[3])
    \/ \E c \in Copies : DelayOver(c)
    \/ ConnectionLost \/ ReconnectBegin \/ ReconnectEnd \/ Subscribe
    \/ \E t \in buffer : HandleMessage(t)
    \/ \E s \in 1..Len(subs) : UnsubscribeReturn(s)
    \/ \E j \in Jobs : \/ JobStep(j)
                       \/ \E kind \in Kinds : Acknowledge(j, kind)

Spec == Init /\ [][Next]_vars
-----------------------------------------------------------------------------
\* No message is lost: it stays with the broker, ready, outstanding or delayed,
\* until the client acked or nacked one of its deliveries or the delivery cap
\* dead-lettered it.  Retry publishes first and acknowledges after the
\* confirmation, so it must hold across lost connections, lost frames and
\* retries.
NoLoss ==
    \A m \in Messages :
        \/ m \in disposed
        \/ \E c \in Copies : /\ copyOf[c] = m
                             /\ place[c] \in {"ready", "unacked", "delayed"}

\* One delivery, one settlement: a frame on the wire is for a delivery the
\* broker still waits for, and is the only one for it.  With one acknowledgement
\* per delivery, the paths of Retry, of the Nack that Consume falls back to, and
\* of the delivery cap never settle twice (the broker would close the channel).
SettledOnce ==
    \A f \in wire : /\ f[1] \in unacked
                    /\ \A g \in wire : g[1] = f[1] => g = f

\* A delivery in the client's hands for which the broker still waits can be
\* settled: it is in activeMessages, or its settlement is on the wire.  The map
\* is replaced on reconnect and entries are deleted whatever the outcome, so
\* this says that no delivery is stranded until the connection goes.
NotStranded ==
    \A t \in inbox \cap unacked : t \in active \/ \E f \in wire : f[1] = t
=============================================================================
