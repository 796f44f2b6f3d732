--------------------------- MODULE StreamConsumer ---------------------------
(***************************************************************************)
(* The subscription of a RabbitMQ stream: streamSubscribe (amqp091.go),    *)
(* NewConsumer (streamshim.go), the start offset (streamhelpers.go) and    *)
(* the BlockingLatch (util/blocking_latch.go) that keeps the number of     *)
(* unsettled messages below the prefetch count.                            *)
(*                                                                         *)
(* The client library calls the message handler on one goroutine, one      *)
(* message after the other, and sets the offset that GetOffset returns     *)
(* before each call.  The handler waits in latch.Increment, adds the       *)
(* message to activeMessages and sends it to messageChannel of Consume.    *)
(* Acknowledgements run on goroutines of their own.                        *)
(*                                                                         *)
(* Increment holds the lock from its tests to the moment at which it is in *)
(* the waiting list of the condition, so Decrement cannot come in between; *)
(* the Broadcast of a done context takes no lock and can.                  *)
(***************************************************************************)
EXTENDS Integers, FiniteSets

CONSTANTS
    Length,        \* messages in the stream: offsets 0..Length-1
    Offsets,       \* values of the option Offset that clients use
    Number,        \* the offset of clients that give a number
    Prefetch,      \* source.PrefetchCount, at least 1 (SetSourceDefaults)
    Buffer,        \* capacity of messageChannel
    Jobs,          \* goroutines for acknowledgements
    MaxDispatches, \* bound on the calls of the handler
    MaxSubs,       \* bound on the subscriptions
    Word,          \* 2^w for the unsigned counter of the latch
    MayReconnect   \* whether the AMQP connection may be replaced meanwhile

ASSUME StreamAssumption ==
    /\ Length \in Nat \ {0} /\ Number \in 0..Length
    /\ Offsets \subseteq {"first", "continue", "last", "next", "number", "promoted"}
    /\ Buffer \in Nat
    /\ Prefetch \in Nat \ {0} /\ Word \in Nat /\ Prefetch < Word
    /\ MaxDispatches \in Nat /\ MaxSubs \in Nat
    /\ MayReconnect \in BOOLEAN

VARIABLES
    sub,        \* "none", "on", "cancelled" (ctx is done), "ended"
    subs,       \* subscriptions so far
    next,       \* offset of the next message the library hands to the handler
    current,    \* GetOffset() of the consumer of every subscription
    handler,    \* the handler: its point and the delivery it works on
    count,      \* latch.count of every subscription
    fired,      \* the AfterFunc of this Increment has run
    closed,     \* Consume has closed messageChannel
    buffer,     \* deliveries in messageChannel
    held,       \* deliveries the client has and has not answered
    active,     \* deliveries in bd.activeMessages
    job,        \* acknowledging goroutines: point, delivery, kind, offset read
    stored,     \* the broker's stored offset of the consumer, -1 for none
    offsetOf,   \* offset of every delivery
    subOf,      \* subscription of every delivery
    slot,       \* history: "new", "in" since Increment, "out" since Decrement
    missed      \* history: a Broadcast came before its waiter slept

latchVars == <<count, fired, slot, missed>>
deliveryVars == <<offsetOf, subOf>>
clientVars == <<buffer, held, closed>>
subVars == <<sub, subs, next, current>>
vars == <<sub, subs, next, current, handler, count, fired, closed, buffer, held, active,
          job, stored, offsetOf, subOf, slot, missed>>

Deliveries == 1..MaxDispatches
Subscriptions == 1..MaxSubs

\* How often the handler has been called.
dispatched == Cardinality({d \in Deliveries : offsetOf[d] >= 0})
NoJob == [pc |-> "none", id |-> 0, kind |-> "ack", offset |-> -1]

TypeOK ==
    /\ sub \in {"none", "on", "cancelled", "ended"}
    /\ subs \in 0..MaxSubs
    /\ next \in 0..Length /\ stored \in -1..Length - 1
    /\ current \in [Subscriptions -> -1..Length - 1]
    /\ handler \in [pc : {"idle", "increment", "entering", "asleep", "add", "push",
                          "panic"},
                    id : 0..MaxDispatches]
    /\ count \in [Subscriptions -> 0..Word - 1]
    /\ fired \in BOOLEAN /\ closed \in BOOLEAN /\ missed \in BOOLEAN
    /\ buffer \subseteq Deliveries /\ held \subseteq Deliveries
    /\ Cardinality(buffer) <= Buffer
    /\ active \subseteq Deliveries
    /\ slot \in [Deliveries -> {"new", "in", "out"}]
    /\ subOf \in [Deliveries -> 0..MaxSubs]
    /\ job \in [Jobs -> [pc : {"none", "lookup", "decrement", "read", "store", "delete"},
                         id : 0..MaxDispatches, kind : {"ack", "nack", "retry"},
                         offset : -1..Length - 1]]
    /\ offsetOf \in [Deliveries -> -1..Length - 1]

Init ==
    /\ sub = "none" /\ subs = 0 /\ next = 0
    /\ current = [s \in Subscriptions |-> -1]
    /\ handler = [pc |-> "idle", id |-> 0]
    /\ count = [s \in Subscriptions |-> 0] /\ fired = FALSE /\ missed = FALSE
    /\ closed = FALSE /\ buffer = {} /\ held = {} /\ active = {}
    /\ job = [j \in Jobs |-> NoJob]
    /\ stored = -1
    /\ offsetOf = [d \in Deliveries |-> -1]
    /\ subOf = [d \in Deliveries |-> 0]
    /\ slot = [d \in Deliveries |-> "new"]
-----------------------------------------------------------------------------
(* Subscribing.                                                            *)

\* toStreamOffset for the option Offset and the offset QueryOffset returned.
\* "first" is offset 0, "last" the last chunk, which begins here with the last
\* message, "next" and no option the end of the stream, a number itself.
toStreamOffset(option, lastOffset) ==
    CASE option = "first" -> 0
      [] option = "continue" -> lastOffset + 1
      [] option = "last" -> Length - 1
      [] option = "next" -> Length
      [] option = "number" -> Number

\* ConsumerUpdate of a single active consumer: the offset after the stored one,
\* or the first.
ConsumerUpdate == IF stored = -1 THEN 0 ELSE stored + 1

\* streamSubscribe up to <-ctx.Done(): a new latch, a new consumer.  A set-up that
\* fails leaves nothing behind.
Subscribe ==
    /\ sub \in {"none", "ended"}
    /\ handler.pc = "idle" /\ (subs > 0 => closed)
    /\ subs < MaxSubs
    /\ subs' = subs + 1
    /\ sub' = "on"
    /\ \E option \in Offsets :
          next' = IF option = "promoted" THEN ConsumerUpdate
                                         ELSE toStreamOffset(option, stored)
    /\ closed' = FALSE /\ buffer' = {}
    /\ UNCHANGED <<current, handler, latchVars, held, active, job, stored, deliveryVars>>

\* The context of Consume's loop is cancelled ...
Cancel ==
    /\ sub = "on"
    /\ sub' = "cancelled"
    /\ UNCHANGED <<subs, next, current, handler, latchVars, clientVars, active, job,
                   stored, deliveryVars>>

\* ... Consume closes messageChannel and its client has gone with what it held ...
CloseChannel ==
    /\ sub \in {"cancelled", "ended"}
    /\ ~closed
    /\ closed' = TRUE
    /\ held' = {}
    /\ UNCHANGED <<subVars, handler, latchVars, buffer, active, job, stored,
                   deliveryVars>>

\* ... and streamSubscribe closes the consumer, which calls no handler any more.
Unsubscribe ==
    /\ sub = "cancelled"
    /\ sub' = "ended"
    /\ UNCHANGED <<subs, next, current, handler, latchVars, clientVars, active, job,
                   stored, deliveryVars>>
-----------------------------------------------------------------------------
(* The handler.                                                            *)

\* The library takes the next message, sets the offset and calls handleMessages.
Dispatch ==
    /\ sub \in {"on", "cancelled"}
    /\ handler.pc = "idle"
    /\ next < Length
    /\ dispatched < MaxDispatches
    /\ next' = next + 1
    /\ current' = [current EXCEPT ![subs] = next]
    /\ handler' = [pc |-> "increment", id |-> dispatched + 1]
    /\ offsetOf' = [offsetOf EXCEPT ![dispatched + 1] = next]
    /\ subOf' = [subOf EXCEPT ![dispatched + 1] = subs]
    /\ fired' = FALSE
    /\ UNCHANGED <<sub, subs, count, slot, missed, clientVars, active, job, stored>>

\* Slip: the ceiling is compared with <=.
IncrementOneMore ==
    /\ handler.pc = "increment"
    /\ IF count[subs] <= Prefetch
       THEN /\ count' = [count EXCEPT ![subs] = @ + 1]
            /\ slot' = [slot EXCEPT ![handler.id] = "in"]
            /\ handler' = [handler EXCEPT !.pc = "add"]
       ELSE /\ handler' = [handler EXCEPT !.pc = IF sub = "on" THEN "entering" ELSE "idle"]
            /\ UNCHANGED <<count, slot>>
    /\ UNCHANGED <<subVars, fired, missed, clientVars, active, job, stored, deliveryVars>>

\* A turn of Increment's loop: take a slot, give up because the context is done, or
\* go to sleep.  The handler that gives up drops its message.
Increment ==
    /\ handler.pc = "increment"
    /\ IF count[subs] < Prefetch
       THEN /\ count' = [count EXCEPT ![subs] = @ + 1]
            /\ slot' = [slot EXCEPT ![handler.id] = "in"]
            /\ handler' = [handler EXCEPT !.pc = "add"]
       ELSE /\ handler' = [handler EXCEPT !.pc = IF sub = "on" THEN "entering" ELSE "idle"]
            /\ UNCHANGED <<count, slot>>
    /\ UNCHANGED <<subVars, fired, missed, clientVars, active, job, stored, deliveryVars>>

\* notMax.Wait() has put the goroutine on the list and released the lock.
Sleep ==
    /\ handler.pc = "entering"
    /\ handler' = [handler EXCEPT !.pc = "asleep"]
    /\ UNCHANGED <<subVars, latchVars, clientVars, active, job, stored, deliveryVars>>

\* Slip: no AfterFunc: a done context wakes nobody.
BroadcastNobody ==
    /\ sub \in {"cancelled", "ended"} /\ ~fired
    /\ handler.pc \in {"increment", "entering", "asleep"}
    /\ fired' = TRUE
    /\ UNCHANGED <<subVars, handler, count, slot, missed, clientVars, active, job,
                   stored, deliveryVars>>

\* The AfterFunc of the running Increment, once the context is done.
Broadcast ==
    /\ sub \in {"cancelled", "ended"} /\ ~fired
    /\ handler.pc \in {"increment", "entering", "asleep"}
    /\ fired' = TRUE
    /\ missed' = (missed \/ handler.pc = "entering")
    /\ handler' = [handler EXCEPT !.pc = IF @ = "asleep" THEN "increment" ELSE @]
    /\ UNCHANGED <<subVars, count, slot, clientVars, active, job, stored, deliveryVars>>

\* bd.activeMessages.Add
AddActive ==
    /\ handler.pc = "add"
    /\ active' = active \cup {handler.id}
    /\ handler' = [handler EXCEPT !.pc = "push"]
    /\ UNCHANGED <<subVars, latchVars, clientVars, job, stored, deliveryVars>>

\* messageChannel <- m.  On a closed channel the send panics, on a goroutine of the
\* library that recovers from nothing.
Push ==
    /\ handler.pc = "push"
    /\ \/ /\ ~closed /\ Cardinality(buffer) < Buffer
          /\ buffer' = buffer \cup {handler.id}
          /\ handler' = [handler EXCEPT !.pc = "idle"]
       \/ /\ closed
          /\ handler' = [handler EXCEPT !.pc = "panic"]
          /\ UNCHANGED buffer
    /\ UNCHANGED <<subVars, latchVars, held, closed, active, job, stored,
                   deliveryVars>>

\* Consume's sender passes a message on, the oldest first.
Forward ==
    /\ sub = "on"
    /\ \E d \in buffer :
          /\ \A e \in buffer : d <= e
          /\ buffer' = buffer \ {d}
          /\ held' = held \cup {d}
    /\ UNCHANGED <<subVars, handler, latchVars, closed, active, job, stored,
                   deliveryVars>>
-----------------------------------------------------------------------------
(* Acknowledgements.                                                       *)

\* The client answers a delivery, once, with an acknowledgement, a rejection or a
\* rejection with a delay, for which Consume calls Retry; it starts a goroutine.
\* DeadLetter is never called for a message of a stream: streamSubscribe refuses a
\* source with the option DeadLetterAddress.
Acknowledge(j) ==
    /\ job[j].pc = "none"
    /\ sub = "on"
    /\ \E d \in held, kind \in {"ack", "nack", "retry"} :
          /\ job' = [job EXCEPT ![j] = [NoJob EXCEPT !.pc = "lookup", !.id = d,
                                                     !.kind = kind]]
          /\ held' = held \ {d}
    /\ UNCHANGED <<subVars, handler, latchVars, buffer, closed, active, stored, deliveryVars>>

\* bd.activeMessages.Get.  Retry does nothing for a known message of a stream but to
\* delete it: nobody decrements the latch, and its slot stays taken.  An unknown
\* message is an error, after which Consume turns a Retry into a Nack.
Lookup(j) ==
    /\ job[j].pc = "lookup"
    /\ job' = [job EXCEPT ![j] =
                 IF @.id \in active
                 THEN [@ EXCEPT !.pc = IF job[j].kind = "retry" THEN "delete"
                                       ELSE "decrement"]
                 ELSE IF @.kind = "retry" THEN [@ EXCEPT !.kind = "nack"] ELSE NoJob]
    /\ UNCHANGED <<subVars, handler, latchVars, clientVars, active, stored, deliveryVars>>

\* The handler after notMax.Signal() of the latch of subscription s.
Signalled(s) ==
    [handler EXCEPT !.pc = IF @ = "asleep" /\ s = subs THEN "increment" ELSE @]

\* Slip: the condition is not signalled.
DecrementSilently(j) ==
    /\ job[j].pc = "decrement"
    /\ handler.pc # "entering" \/ subOf[job[j].id] # subs
    /\ count' = [count EXCEPT ![subOf[job[j].id]] = (@ - 1) % Word]
    /\ slot' = [slot EXCEPT ![job[j].id] = "out"]
    /\ job' = [job EXCEPT ![j].pc = IF job[j].kind = "ack" THEN "read" ELSE "delete"]
    /\ UNCHANGED <<subVars, handler, fired, missed, clientVars, active, stored, deliveryVars>>

\* latch.Decrement(), of the latch of the delivery's subscription, and its Signal.
Decrement(j) ==
    /\ job[j].pc = "decrement"
    /\ handler.pc # "entering" \/ subOf[job[j].id] # subs
    /\ count' = [count EXCEPT ![subOf[job[j].id]] = (@ - 1) % Word]
    /\ slot' = [slot EXCEPT ![job[j].id] = "out"]
    /\ handler' = Signalled(subOf[job[j].id])
    /\ job' = [job EXCEPT ![j].pc = IF job[j].kind = "ack" THEN "read" ELSE "delete"]
    /\ UNCHANGED <<subVars, fired, missed, clientVars, active, stored, deliveryVars>>

\* consumerOffset := ctx.Consumer.GetOffset()
ReadOffset(j) ==
    /\ job[j].pc = "read"
    /\ job' = [job EXCEPT ![j].pc = "store", ![j].offset = current[subOf[job[j].id]]]
    /\ UNCHANGED <<subVars, handler, latchVars, clientVars, active, stored, deliveryVars>>

\* StreamConnection.StoreOffset
StoreOffset(j) ==
    /\ job[j].pc = "store"
    /\ stored' = job[j].offset
    /\ job' = [job EXCEPT ![j].pc = "delete"]
    /\ UNCHANGED <<subVars, handler, latchVars, clientVars, active, deliveryVars>>

\* bd.activeMessages.Delete
DeleteActive(j) ==
    /\ job[j].pc = "delete"
    /\ active' = active \ {job[j].id}
    /\ job' = [job EXCEPT ![j] = NoJob]
    /\ UNCHANGED <<subVars, handler, latchVars, clientVars, stored, deliveryVars>>

\* connect() of the AMQP connection replaces activeMessages; the stream goes on.
Reconnect ==
    /\ MayReconnect
    /\ active # {}
    /\ active' = {}
    /\ UNCHANGED <<subVars, handler, latchVars, clientVars, job, stored, deliveryVars>>
-----------------------------------------------------------------------------
HandlerStep == Increment \/ Sleep \/ AddActive \/ Push
JobStep(j) ==
    Lookup(j) \/ Decrement(j) \/ ReadOffset(j) \/ StoreOffset(j) \/ DeleteActive(j)

\* A panic ends the process.
Next ==
    /\ handler.pc # "panic"
    /\ \/ Subscribe \/ Cancel \/ CloseChannel \/ Unsubscribe
       \/ Dispatch \/ HandlerStep \/ Broadcast \/ Forward
       \/ \E j \in Jobs : Acknowledge(j) \/ JobStep(j)
       \/ Reconnect

Spec == Init /\ [][Next]_vars

(***************************************************************************)
(* The handler and the AfterFunc run when they can, and so does the end of *)
(* Consume.  No client must acknowledge and no message must come.          *)
(***************************************************************************)
Fairness ==
    WF_vars(HandlerStep) /\ WF_vars(Broadcast) /\ WF_vars(CloseChannel)

FairSpec == Spec /\ Fairness
-----------------------------------------------------------------------------
Outstanding == {d \in Deliveries : slot[d] = "in" /\ subOf[d] = subs}
Taken == Cardinality({d \in Deliveries : \E e \in d..MaxDispatches : slot[e] # "new"})

Window == INSTANCE DeliveryWindow
            WITH Size <- Prefetch, taken <- Taken, outstanding <- Outstanding

\* "Applies back-pressure when the prefetch window is full for stream consumers"
\* (architecture-c4.md): the latch, the handler and the acknowledging goroutines
\* together implement the window of DeliveryWindow.
ImplementsWindow == Window!Spec

\* The counter of a latch is the number of its deliveries that nobody decremented: a
\* client that answers every delivery once, by goroutines that overlap, never makes
\* the unsigned counter wrap (blocking_latch.go Decrement).  A delivery that was
\* answered with Retry, or after a reconnect, counts for ever.
CountExact ==
    \A s \in Subscriptions :
        count[s] = Cardinality({d \in Deliveries : slot[d] = "in" /\ subOf[d] = s})

\* A handler does not sleep while the window has room: no Signal falls between its
\* test and its Wait (blocking_latch.go Increment, Decrement).
NoLostWakeup == handler.pc = "asleep" => count[subs] >= Prefetch

\* A done context wakes the handler out of Increment, so that the goroutine of the
\* library ends; the exception is a Broadcast that came between the test of the
\* context and the Wait.
HandlerEnds ==
    sub = "cancelled" ~> handler.pc \in {"idle", "panic"} \/ missed \/ sub = "on"

\* The latch is right about its window: the counter is exact, and nobody sleeps
\* although there is room (BlockingLatch).
LatchExact == TypeOK /\ CountExact /\ NoLostWakeup
=============================================================================
