------------------------ MODULE StreamConsumerProofs ------------------------
(***************************************************************************)
(* Proofs about StreamConsumer for every stream, prefetch count, capacity  *)
(* and number of acknowledging goroutines: the counter of a latch is exact *)
(* and never wraps, no wakeup is lost, and the whole implements the window *)
(* of DeliveryWindow.                                                      *)
(*                                                                         *)
(* That a Decrement finds its delivery counted is not inductive by itself: *)
(* it needs to be known that a delivery has one owner at a time from the   *)
(* Increment on (Owned), the handler, messageChannel, the client or one    *)
(* goroutine, and that a delivery beyond the last dispatched one is new.   *)
(***************************************************************************)
EXTENDS StreamConsumer, FiniteSetTheorems, TLAPS

\* The goroutines that have yet to decrement the latch.
Busy == {j \in Jobs : job[j].pc \in {"lookup", "decrement"}}

\* The record of an acknowledging goroutine.
JobRecords ==
    [pc : {"none", "lookup", "decrement", "read", "store", "delete"},
     id : 0..MaxDispatches, kind : {"ack", "nack", "retry"}, offset : -1..Length - 1]

\* The deliveries that count for the latch of subscription s.
InSlot(s) == {d \in Deliveries : slot[d] = "in" /\ subOf[d] = s}

\* Deliveries are numbered as they are dispatched, and none beyond has a slot.
Numbered ==
    /\ {d \in Deliveries : offsetOf[d] >= 0} = 1..dispatched
    /\ \A d \in Deliveries :
          slot[d] # "new" => d <= dispatched /\ subOf[d] \in 1..subs

\* What the point of the handler says of the delivery it works on.
AtHandler ==
    /\ sub \in {"on", "cancelled"} => subs \in Subscriptions
    /\ handler.pc # "idle" =>
          /\ subs \in Subscriptions
          /\ handler.id \in Deliveries /\ handler.id = dispatched
          /\ subOf[handler.id] = subs
    /\ handler.pc \in {"increment", "entering", "asleep"} => slot[handler.id] = "new"
    /\ handler.pc \in {"entering", "asleep"} => count[subs] >= Prefetch
    /\ handler.pc \in {"add", "push"} =>
          /\ slot[handler.id] = "in"
          /\ handler.id \notin buffer \cup held
          /\ \A j \in Busy : job[j].id # handler.id

\* A delivery that is in messageChannel, with the client, or with a goroutine that
\* has yet to decrement is counted, and is in one of these places only.
Owned ==
    /\ buffer \cap held = {}
    /\ \A d \in buffer \cup held : slot[d] = "in"
    /\ \A j \in Busy :
          /\ job[j].id \in Deliveries /\ slot[job[j].id] = "in"
          /\ job[j].id \notin buffer \cup held
          /\ \A k \in Busy : job[k].id = job[j].id => k = j
    /\ \A j \in Jobs : job[j].pc \in {"read", "store"} =>
          job[j].id \in Deliveries /\ slot[job[j].id] = "out"

IInv == TypeOK /\ CountExact /\ Numbered /\ AtHandler /\ Owned
-----------------------------------------------------------------------------
\* The initial states satisfy the inductive invariant.
LEMMA InitInv == Init => IInv
<1> SUFFICES ASSUME Init PROVE IInv
  OBVIOUS
<1> USE StreamAssumption DEF Deliveries, Subscriptions
<1>1. TypeOK
  <2>1. job \in [Jobs -> JobRecords]
    BY DEF Init, NoJob, JobRecords
  <2>2. Cardinality(buffer) <= Buffer
    BY FS_EmptySet DEF Init
  <2>3. -1 \in -1..Length - 1
    OBVIOUS
  <2>4. /\ current \in [Subscriptions -> -1..Length - 1]
        /\ offsetOf \in [Deliveries -> -1..Length - 1]
        /\ count \in [Subscriptions -> 0..Word - 1]
        /\ subOf \in [Deliveries -> 0..MaxSubs]
    BY <2>3 DEF Init
  <2>5. handler \in [pc : {"idle", "increment", "entering", "asleep", "add", "push",
                          "panic"}, id : 0..MaxDispatches]
    BY DEF Init
  <2>6. /\ slot \in [Deliveries -> {"new", "in", "out"}]
        /\ buffer \subseteq Deliveries /\ held \subseteq Deliveries
        /\ active \subseteq Deliveries /\ sub \in {"none", "on", "cancelled", "ended"}
        /\ fired \in BOOLEAN /\ closed \in BOOLEAN /\ missed \in BOOLEAN
    BY DEF Init
  <2>7. subs \in 0..MaxSubs /\ next \in 0..Length /\ stored \in -1..Length - 1
    BY DEF Init
  <2> QED
    BY <2>1, <2>2, <2>4, <2>5, <2>6, <2>7 DEF TypeOK, JobRecords
<1>2. CountExact
  <2>1. \A s \in Subscriptions : {d \in Deliveries : slot[d] = "in" /\ subOf[d] = s} = {}
    BY DEF Init
  <2> QED
    BY <2>1, FS_EmptySet DEF Init, CountExact
<1>3. Numbered
  <2>1. {d \in Deliveries : offsetOf[d] >= 0} = {}
    BY DEF Init
  <2>2. dispatched = 0
    BY <2>1, FS_EmptySet DEF dispatched
  <2> QED
    BY <2>1, <2>2 DEF Init, Numbered
<1>4. AtHandler /\ Owned
  BY DEF Init, AtHandler, Owned, Busy, NoJob
<1> QED
  BY <1>1, <1>2, <1>3, <1>4 DEF IInv

\* The number of the last delivery is a number of deliveries.
LEMMA DispatchedType ==
    ASSUME Numbered
    PROVE  dispatched \in 0..MaxDispatches /\ dispatched \in Nat
<1>1. IsFiniteSet(Deliveries) /\ Cardinality(Deliveries) = MaxDispatches
  BY StreamAssumption, FS_Interval DEF Deliveries
<1>2. {d \in Deliveries : offsetOf[d] >= 0} \in SUBSET Deliveries
  OBVIOUS
<1>3. /\ IsFiniteSet({d \in Deliveries : offsetOf[d] >= 0})
      /\ dispatched <= MaxDispatches
  BY <1>1, <1>2, FS_Subset DEF dispatched
<1>4. dispatched \in Nat
  BY <1>3, FS_CardinalityType DEF dispatched
<1> QED
  BY <1>3, <1>4, StreamAssumption

\* The deliveries in a slot are finitely many.
LEMMA InSlotFinite ==
    ASSUME NEW s
    PROVE  IsFiniteSet(InSlot(s)) /\ Cardinality(InSlot(s)) \in Nat
<1>1. IsFiniteSet(Deliveries)
  BY StreamAssumption, FS_Interval DEF Deliveries
<1>2. InSlot(s) \in SUBSET Deliveries
  BY DEF InSlot
<1> QED
  BY <1>1, <1>2, FS_Subset, FS_CardinalityType

\* A set without one of its elements has one element less.
LEMMA RemoveOne ==
    ASSUME NEW S, IsFiniteSet(S), NEW x \in S
    PROVE  Cardinality(S \ {x}) = Cardinality(S) - 1
BY FS_RemoveElement

\* A set with another element has at most one element more.
LEMMA AddOne ==
    ASSUME NEW S, IsFiniteSet(S), NEW x
    PROVE  /\ Cardinality(S \cup {x}) \in Nat
           /\ Cardinality(S \cup {x}) <= Cardinality(S) + 1
<1>1. Cardinality(S) \in Nat
  BY FS_CardinalityType
<1>2. Cardinality(S \cup {x}) = IF x \in S THEN Cardinality(S) ELSE Cardinality(S) + 1
  BY FS_AddElement
<1> QED
  BY <1>1, <1>2

\* messageChannel holds finitely many deliveries.
LEMMA BufferFinite ==
    ASSUME TypeOK
    PROVE  IsFiniteSet(buffer) /\ Cardinality(buffer) \in Nat
<1>1. IsFiniteSet(Deliveries)
  BY StreamAssumption, FS_Interval DEF Deliveries
<1>2. buffer \in SUBSET Deliveries
  BY DEF TypeOK
<1> QED
  BY <1>1, <1>2, FS_Subset, FS_CardinalityType

\* A step that leaves the slots and the counters alone keeps the counters exact.
LEMMA SameCount ==
    ASSUME CountExact, count' = count, slot' = slot, subOf' = subOf
    PROVE  CountExact'
BY DEF CountExact

\* A step that gives no slot and dispatches nothing keeps the numbers.
LEMMA SameNumbers ==
    ASSUME Numbered, subs \in Nat, subs' \in Nat, subs' >= subs, subOf' = subOf,
           offsetOf' = offsetOf,
           \A d \in Deliveries : slot'[d] # "new" => slot[d] # "new"
    PROVE  Numbered' /\ dispatched' = dispatched
<1>1. dispatched' = dispatched
  BY DEF dispatched
<1> QED
  BY <1>1 DEF Numbered

\* A goroutine of an acknowledgement that goes on, or ends, owns what it owned.
LEMMA JobGoesOn ==
    ASSUME TypeOK, AtHandler, Owned, NEW j \in Jobs,
           \A k \in Jobs \ {j} : job'[k] = job[k],
           job'[j].pc \in {"lookup", "decrement"} =>
              job[j].pc \in {"lookup", "decrement"} /\ job'[j].id = job[j].id,
           job'[j].pc \in {"read", "store"} =>
              job[j].pc \in {"read", "store"} /\ job'[j].id = job[j].id,
           UNCHANGED <<subVars, handler, latchVars, clientVars, deliveryVars>>
    PROVE  AtHandler' /\ Owned'
<1>1. UNCHANGED <<sub, subs, handler, count, slot, buffer, held, subOf, offsetOf>>
  BY DEF subVars, latchVars, clientVars, deliveryVars
<1>2. dispatched' = dispatched
  BY <1>1 DEF dispatched
<1>3. \A k \in Busy' : k \in Busy /\ job'[k].id = job[k].id
  BY DEF Busy
<1>4. AtHandler'
  BY <1>1, <1>2, <1>3 DEF AtHandler
<1>5. Owned'
  BY <1>1, <1>3 DEF Owned
<1> QED
  BY <1>4, <1>5
-----------------------------------------------------------------------------
(* The steps that move the window.                                         *)

\* A slot is taken: the counter and the deliveries in it grow by one.
LEMMA IncrementInv == IInv /\ Increment => IInv'
<1> SUFFICES ASSUME IInv, Increment PROVE IInv'
  OBVIOUS
<1> USE StreamAssumption DEF IInv
<1>1. /\ UNCHANGED <<sub, subs, next, current, fired, missed, buffer, held, closed, active,
                     job, stored, offsetOf, subOf>>
      /\ handler.pc = "increment" /\ dispatched' = dispatched
  BY DEF Increment, subVars, clientVars, deliveryVars, dispatched
<1>2. /\ subs \in Subscriptions /\ handler.id \in Deliveries /\ subOf[handler.id] = subs
      /\ slot[handler.id] = "new" /\ handler.id = dispatched
  BY <1>1 DEF AtHandler
<1>3. CASE count[subs] < Prefetch
  <2>1. /\ count' = [count EXCEPT ![subs] = @ + 1]
        /\ slot' = [slot EXCEPT ![handler.id] = "in"]
        /\ handler' = [handler EXCEPT !.pc = "add"]
    BY <1>3 DEF Increment
  <2>2. count[subs] + 1 \in 0..Word - 1
    BY <1>2, <1>3 DEF TypeOK
  <2>3. TypeOK'
    BY <1>1, <1>2, <2>1, <2>2 DEF TypeOK
  <2>4. CountExact'
    <3> SUFFICES ASSUME NEW s \in Subscriptions
                 PROVE  count'[s] = Cardinality(InSlot(s)')
      BY DEF CountExact, InSlot
    <3>1. count[s] = Cardinality(InSlot(s))
      BY DEF CountExact, InSlot
    <3>2. CASE s = subs
      <4>1. InSlot(s)' = InSlot(s) \cup {handler.id} /\ handler.id \notin InSlot(s)
        BY <1>1, <1>2, <2>1, <3>2 DEF InSlot, TypeOK
      <4>2. Cardinality(InSlot(s)') = Cardinality(InSlot(s)) + 1
        BY <4>1, InSlotFinite, FS_AddElement
      <4> QED
        BY <2>1, <3>1, <3>2, <4>2 DEF TypeOK
    <3>3. CASE s # subs
      <4>1. InSlot(s)' = InSlot(s)
        BY <1>1, <1>2, <2>1, <3>3 DEF InSlot, TypeOK
      <4> QED
        BY <2>1, <3>1, <3>3, <4>1 DEF TypeOK
    <3> QED
      BY <3>2, <3>3
  <2>5. Numbered'
    <3>1. subs \in 1..subs
      BY <1>2 DEF Subscriptions
    <3> QED
      BY <1>1, <1>2, <2>1, <3>1, DispatchedType DEF Numbered, TypeOK
  <2>6. Busy' = Busy
    BY <1>1 DEF Busy
  <2>7. handler.id \notin buffer \cup held /\ \A j \in Busy : job[j].id # handler.id
    BY <1>2 DEF Owned
  <2>8. AtHandler'
    BY <1>1, <1>2, <2>1, <2>6, <2>7 DEF AtHandler, TypeOK
  <2>9. Owned'
    BY <1>1, <1>2, <2>1, <2>6, <2>7 DEF Owned, TypeOK
  <2> QED
    BY <2>3, <2>4, <2>5, <2>8, <2>9
<1>4. CASE ~(count[subs] < Prefetch)
  <2>1. /\ handler' = [handler EXCEPT !.pc = IF sub = "on" THEN "entering" ELSE "idle"]
        /\ UNCHANGED <<count, slot>>
    BY <1>4 DEF Increment
  <2>2. TypeOK'
    BY <1>1, <2>1 DEF TypeOK
  <2>3. CountExact' /\ Numbered'
    BY <1>1, <2>1, SameCount, SameNumbers DEF TypeOK
  <2>4. count[subs] >= Prefetch
    BY <1>2, <1>4 DEF TypeOK
  <2>5. AtHandler'
    BY <1>1, <1>2, <2>1, <2>4 DEF AtHandler, Busy, TypeOK
  <2>6. Owned'
    BY <1>1, <2>1 DEF Owned, Busy
  <2> QED
    BY <2>2, <2>3, <2>5, <2>6
<1> QED
  BY <1>3, <1>4

\* A slot is given back: its delivery was counted, so the counter does not wrap, and
\* a handler that sleeps at this latch wakes up.
LEMMA DecrementInv ==
    ASSUME IInv, NEW j \in Jobs, Decrement(j)
    PROVE  IInv'
<1> USE StreamAssumption DEF IInv
<1> DEFINE d == job[j].id
<1>1. /\ UNCHANGED <<sub, subs, next, current, fired, missed, buffer, held, closed, active,
                     stored, offsetOf, subOf>>
      /\ job[j].pc = "decrement" /\ dispatched' = dispatched
      /\ handler.pc # "entering" \/ subOf[d] # subs
      /\ slot' = [slot EXCEPT ![d] = "out"]
      /\ handler' = Signalled(subOf[d])
      /\ job' = [job EXCEPT ![j].pc = IF job[j].kind = "ack" THEN "read" ELSE "delete"]
  BY DEF Decrement, subVars, clientVars, deliveryVars, dispatched
<1>2. d \in Deliveries /\ slot[d] = "in" /\ j \in Busy
  BY <1>1 DEF Owned, Busy
<1>3. subOf[d] \in Subscriptions
  BY <1>2, DispatchedType DEF Numbered, TypeOK, Subscriptions
<1>4. count[subOf[d]] >= 1 /\ count[subOf[d]] \in 0..Word - 1
  <2>1. d \in InSlot(subOf[d])
    BY <1>2 DEF InSlot
  <2>2. Cardinality(InSlot(subOf[d])) # 0
    BY <2>1, InSlotFinite, FS_EmptySet
  <2>3. count[subOf[d]] = Cardinality(InSlot(subOf[d]))
    BY <1>3 DEF CountExact, InSlot
  <2> QED
    BY <1>3, <2>2, <2>3 DEF TypeOK
<1>5. count' = [count EXCEPT ![subOf[d]] = @ - 1]
  <2>1. (count[subOf[d]] - 1) % Word = count[subOf[d]] - 1
    BY <1>4
  <2> QED
    BY <2>1 DEF Decrement, TypeOK
<1>6. /\ \A k \in Jobs \ {j} : job'[k] = job[k]
      /\ job'[j].pc \in {"read", "delete"} /\ job'[j].id = d
      /\ job' \in [Jobs -> JobRecords]
  BY <1>1 DEF TypeOK, JobRecords
<1>7. /\ handler'.id = handler.id
      /\ handler'.pc = IF handler.pc = "asleep" /\ subOf[d] = subs
                       THEN "increment" ELSE handler.pc
      /\ handler' \in [pc : {"idle", "increment", "entering", "asleep", "add", "push",
                             "panic"}, id : 0..MaxDispatches]
  BY <1>1 DEF Signalled, TypeOK
<1>8. TypeOK'
  <2>1. count' \in [Subscriptions -> 0..Word - 1]
    BY <1>3, <1>4, <1>5 DEF TypeOK
  <2>2. slot' \in [Deliveries -> {"new", "in", "out"}]
    BY <1>1, <1>2 DEF TypeOK
  <2> QED
    BY <1>1, <1>6, <1>7, <2>1, <2>2 DEF TypeOK, JobRecords
<1>9. CountExact'
  <2> SUFFICES ASSUME NEW s \in Subscriptions
               PROVE  count'[s] = Cardinality(InSlot(s)')
    BY DEF CountExact, InSlot
  <2>1. count[s] = Cardinality(InSlot(s))
    BY DEF CountExact, InSlot
  <2>2. CASE s = subOf[d]
    <3>1. InSlot(s)' = InSlot(s) \ {d} /\ d \in InSlot(s)
      BY <1>1, <1>2, <2>2 DEF InSlot, TypeOK
    <3>2. IsFiniteSet(InSlot(s)) /\ Cardinality(InSlot(s)) \in Nat
      BY InSlotFinite
    <3>3. Cardinality(InSlot(s) \ {d}) = Cardinality(InSlot(s)) - 1
      BY <3>1, <3>2, RemoveOne
    <3> QED
      BY <1>5, <2>1, <2>2, <3>1, <3>3 DEF TypeOK
  <2>3. CASE s # subOf[d]
    <3>1. InSlot(s)' = InSlot(s)
      BY <1>1, <1>2, <2>3 DEF InSlot, TypeOK
    <3> QED
      BY <1>5, <2>1, <2>3, <3>1 DEF TypeOK
  <2> QED
    BY <2>2, <2>3
<1>10. Numbered'
  BY <1>1, <1>2, SameNumbers DEF TypeOK
<1>11. \A k \in Busy' : k \in Busy /\ k # j /\ job'[k].id = job[k].id /\ job[k].id # d
  BY <1>2, <1>6 DEF Busy, Owned
<1>12. AtHandler'
  <2>1. handler.pc # "idle" => handler.id \in Deliveries
    BY DEF AtHandler
  <2>2. handler.pc \in {"entering", "asleep"} /\ subOf[d] # subs =>
          subs \in Subscriptions /\ count'[subs] = count[subs]
    BY <1>5 DEF AtHandler, TypeOK
  <2>3. handler.pc \in {"add", "push"} => handler.id # d
    BY <1>2 DEF AtHandler
  <2>4. handler.pc \in {"increment", "entering", "asleep"} => handler.id # d
    BY <1>2 DEF AtHandler
  <2>5. \A e \in Deliveries : e # d => slot'[e] = slot[e]
    BY <1>1 DEF TypeOK
  <2> QED
    BY <1>1, <1>7, <1>11, <2>1, <2>2, <2>3, <2>4, <2>5 DEF AtHandler
<1>13. Owned'
  <2>1. d \notin buffer \cup held
    BY <1>2 DEF Owned
  <2>2. \A e \in Deliveries : e # d => slot'[e] = slot[e]
    BY <1>1 DEF TypeOK
  <2>3. slot'[d] = "out"
    BY <1>1, <1>2 DEF TypeOK
  <2>4. buffer \subseteq Deliveries /\ held \subseteq Deliveries
    BY DEF TypeOK
  <2> QED
    BY <1>1, <1>2, <1>6, <1>11, <2>1, <2>2, <2>3, <2>4 DEF Owned
<1> QED
  BY <1>8, <1>9, <1>10, <1>12, <1>13

\* The library hands the next message to the handler.
LEMMA DispatchInv == IInv /\ Dispatch => IInv'
<1> SUFFICES ASSUME IInv, Dispatch PROVE IInv'
  OBVIOUS
<1> USE StreamAssumption DEF IInv
<1> DEFINE n == dispatched + 1
<1>1. /\ UNCHANGED <<sub, subs, count, slot, missed, buffer, held, closed, active, job,
                     stored>>
      /\ sub \in {"on", "cancelled"} /\ handler.pc = "idle" /\ next < Length
      /\ next' = next + 1 /\ dispatched < MaxDispatches
      /\ current' = [current EXCEPT ![subs] = next]
      /\ handler' = [pc |-> "increment", id |-> n]
      /\ offsetOf' = [offsetOf EXCEPT ![n] = next]
      /\ subOf' = [subOf EXCEPT ![n] = subs]
      /\ fired' = FALSE
  BY DEF Dispatch, clientVars
<1>2. dispatched \in Nat /\ n \in Deliveries /\ subs \in Subscriptions
  BY <1>1, DispatchedType DEF AtHandler, Deliveries
<1>3. slot[n] = "new" /\ offsetOf[n] < 0
  BY <1>2 DEF Numbered, TypeOK
<1>4. {d \in Deliveries : offsetOf'[d] >= 0} = 1..n
  <2>1. {d \in Deliveries : offsetOf'[d] >= 0}
          = {d \in Deliveries : offsetOf[d] >= 0} \cup {n}
    BY <1>1, <1>2 DEF TypeOK
  <2> QED
    BY <1>2, <2>1 DEF Numbered
<1>5. dispatched' = n
  <2>1. Cardinality(1..n) = n
    BY <1>2, FS_Interval
  <2>2. dispatched' = Cardinality({d \in Deliveries : offsetOf'[d] >= 0})
    BY DEF dispatched, Deliveries
  <2> QED
    BY <1>4, <2>1, <2>2
<1>6. TypeOK'
  <2>1. next \in 0..Length - 1 /\ next \in -1..Length - 1 /\ next + 1 \in 0..Length
    BY <1>1 DEF TypeOK
  <2>2. current' \in [Subscriptions -> -1..Length - 1]
    BY <1>1, <1>2, <2>1 DEF TypeOK
  <2>3. offsetOf' \in [Deliveries -> -1..Length - 1]
    BY <1>1, <1>2, <2>1 DEF TypeOK
  <2>4. subOf' \in [Deliveries -> 0..MaxSubs]
    BY <1>1, <1>2 DEF TypeOK
  <2>5. n \in 0..MaxDispatches
    BY <1>2 DEF Deliveries
  <2> QED
    BY <1>1, <2>1, <2>2, <2>3, <2>4, <2>5 DEF TypeOK
<1>7. CountExact'
  <2>1. \A s \in Subscriptions : InSlot(s)' = InSlot(s)
    BY <1>1, <1>2, <1>3 DEF InSlot, TypeOK
  <2> QED
    BY <1>1, <2>1 DEF CountExact, InSlot
<1>8. Numbered'
  <2>1. {d \in Deliveries : offsetOf[d] >= 0}' = 1..dispatched'
    BY <1>4, <1>5 DEF Deliveries
  <2>2. ASSUME NEW d \in Deliveries, slot'[d] # "new"
        PROVE  d <= dispatched' /\ subOf'[d] \in 1..subs'
    <3>1. d # n /\ slot[d] # "new"
      BY <1>1, <1>3, <2>2
    <3>2. d <= dispatched /\ subOf[d] \in 1..subs /\ subOf'[d] = subOf[d]
      BY <1>1, <3>1 DEF Numbered, TypeOK
    <3> QED
      BY <1>1, <1>2, <1>5, <3>2 DEF Deliveries
  <2> QED
    BY <2>1, <2>2 DEF Numbered, Deliveries
<1>9. AtHandler'
  BY <1>1, <1>2, <1>3, <1>5 DEF AtHandler, TypeOK
<1>10. Owned'
  BY <1>1 DEF Owned, Busy
<1> QED
  BY <1>6, <1>7, <1>8, <1>9, <1>10
-----------------------------------------------------------------------------
\* Every step keeps the inductive invariant.
LEMMA StepInv == IInv /\ [Next]_vars => IInv'
<1> SUFFICES ASSUME IInv, [Next]_vars PROVE IInv'
  OBVIOUS
<1> USE StreamAssumption DEF IInv
<1>1. CASE Subscribe
  <2>1. TypeOK'
    <3>1. PICK option \in Offsets :
             next' = IF option = "promoted" THEN ConsumerUpdate
                                            ELSE toStreamOffset(option, stored)
      BY <1>1 DEF Subscribe
    <3>2. option \in {"first", "continue", "last", "next", "number", "promoted"}
      OBVIOUS
    <3>3. next' \in 0..Length
      BY <3>1, <3>2 DEF ConsumerUpdate, toStreamOffset, TypeOK
    <3>4. Cardinality(buffer') <= Buffer /\ buffer' \subseteq Deliveries
      BY <1>1, FS_EmptySet DEF Subscribe
    <3>5. subs' \in 0..MaxSubs
      BY <1>1 DEF Subscribe, TypeOK
    <3>6. UNCHANGED <<current, handler, count, fired, slot, missed, held, active, job,
                      stored, offsetOf, subOf>>
      BY <1>1 DEF Subscribe, latchVars, deliveryVars
    <3> QED
      BY <1>1, <3>3, <3>4, <3>5, <3>6 DEF Subscribe, TypeOK
  <2>2. CountExact' /\ Numbered' /\ dispatched' = dispatched
    BY <1>1, <2>1, SameCount, SameNumbers DEF Subscribe, TypeOK, latchVars, deliveryVars, clientVars, subVars
  <2>3. AtHandler'
    <3>1. handler' = handler /\ handler.pc = "idle"
      BY <1>1 DEF Subscribe
    <3>2. subs' \in Subscriptions
      BY <1>1 DEF Subscribe, TypeOK, Subscriptions
    <3> QED
      BY <3>1, <3>2 DEF AtHandler
  <2>4. Owned'
    BY <1>1 DEF Subscribe, Owned, Busy, latchVars, deliveryVars, clientVars, subVars
  <2> QED
    BY <2>1, <2>2, <2>3, <2>4
<1>2. CASE Cancel
  <2>1. TypeOK'
    BY <1>2 DEF Cancel, TypeOK, latchVars, deliveryVars, clientVars, subVars
  <2>2. CountExact' /\ Numbered' /\ dispatched' = dispatched
    BY <1>2, <2>1, SameCount, SameNumbers DEF Cancel, TypeOK, latchVars, deliveryVars, clientVars, subVars
  <2>3. AtHandler'
    BY <1>2, <2>2 DEF Cancel, AtHandler, Busy, TypeOK, latchVars, deliveryVars, clientVars, subVars
  <2>4. Owned'
    BY <1>2 DEF Cancel, Owned, Busy, latchVars, deliveryVars, clientVars, subVars
  <2> QED
    BY <2>1, <2>2, <2>3, <2>4
<1>3. CASE CloseChannel
  <2>1. TypeOK'
    BY <1>3 DEF CloseChannel, TypeOK, latchVars, deliveryVars, clientVars, subVars
  <2>2. CountExact' /\ Numbered' /\ dispatched' = dispatched
    BY <1>3, <2>1, SameCount, SameNumbers DEF CloseChannel, TypeOK, latchVars, deliveryVars, clientVars, subVars
  <2>3. AtHandler'
    BY <1>3, <2>2 DEF CloseChannel, AtHandler, Busy, TypeOK, latchVars, deliveryVars, clientVars, subVars
  <2>4. Owned'
    BY <1>3 DEF CloseChannel, Owned, Busy, latchVars, deliveryVars, clientVars, subVars
  <2> QED
    BY <2>1, <2>2, <2>3, <2>4
<1>4. CASE Unsubscribe
  <2>1. TypeOK'
    BY <1>4 DEF Unsubscribe, TypeOK, latchVars, deliveryVars, clientVars, subVars
  <2>2. CountExact' /\ Numbered' /\ dispatched' = dispatched
    BY <1>4, <2>1, SameCount, SameNumbers DEF Unsubscribe, TypeOK, latchVars, deliveryVars, clientVars, subVars
  <2>3. AtHandler'
    BY <1>4, <2>2 DEF Unsubscribe, AtHandler, Busy, TypeOK, latchVars, deliveryVars, clientVars, subVars
  <2>4. Owned'
    BY <1>4 DEF Unsubscribe, Owned, Busy, latchVars, deliveryVars, clientVars, subVars
  <2> QED
    BY <2>1, <2>2, <2>3, <2>4
<1>5. CASE Sleep
  <2>1. TypeOK'
    BY <1>5 DEF Sleep, TypeOK, latchVars, deliveryVars, clientVars, subVars
  <2>2. CountExact' /\ Numbered' /\ dispatched' = dispatched
    BY <1>5, <2>1, SameCount, SameNumbers DEF Sleep, TypeOK, latchVars, deliveryVars, clientVars, subVars
  <2>3. AtHandler'
    BY <1>5, <2>2 DEF Sleep, AtHandler, Busy, TypeOK, latchVars, deliveryVars, clientVars, subVars
  <2>4. Owned'
    BY <1>5 DEF Sleep, Owned, Busy, latchVars, deliveryVars, clientVars, subVars
  <2> QED
    BY <2>1, <2>2, <2>3, <2>4
<1>6. CASE Broadcast
  <2>1. TypeOK'
    BY <1>6 DEF Broadcast, TypeOK, latchVars, deliveryVars, clientVars, subVars
  <2>2. CountExact' /\ Numbered' /\ dispatched' = dispatched
    BY <1>6, <2>1, SameCount, SameNumbers DEF Broadcast, TypeOK, latchVars, deliveryVars, clientVars, subVars
  <2>3. AtHandler'
    BY <1>6, <2>2 DEF Broadcast, AtHandler, Busy, TypeOK, latchVars, deliveryVars, clientVars, subVars
  <2>4. Owned'
    BY <1>6 DEF Broadcast, Owned, Busy, latchVars, deliveryVars, clientVars, subVars
  <2> QED
    BY <2>1, <2>2, <2>3, <2>4
<1>7. CASE AddActive
  <2>1. TypeOK'
    <3>1. handler.id \in Deliveries
      BY <1>7 DEF AddActive, AtHandler
    <3> QED
      BY <1>7, <3>1 DEF AddActive, TypeOK, latchVars, deliveryVars, clientVars, subVars
  <2>2. CountExact' /\ Numbered' /\ dispatched' = dispatched
    BY <1>7, <2>1, SameCount, SameNumbers DEF AddActive, TypeOK, latchVars, deliveryVars, clientVars, subVars
  <2>3. AtHandler'
    BY <1>7, <2>2 DEF AddActive, AtHandler, Busy, TypeOK, latchVars, deliveryVars, clientVars, subVars
  <2>4. Owned'
    BY <1>7 DEF AddActive, Owned, Busy, latchVars, deliveryVars, clientVars, subVars
  <2> QED
    BY <2>1, <2>2, <2>3, <2>4
<1>8. CASE Push
  <2>1. TypeOK'
    <3>1. handler.id \in Deliveries
      BY <1>8 DEF Push, AtHandler
    <3>2. buffer' = buffer \/ (/\ buffer' = buffer \cup {handler.id}
                              /\ Cardinality(buffer) < Buffer)
      BY <1>8 DEF Push
    <3>3. Cardinality(buffer') <= Buffer
      <4>1. IsFiniteSet(buffer) /\ Cardinality(buffer) \in Nat
        BY BufferFinite
      <4>2. /\ Cardinality(buffer \cup {handler.id}) \in Nat
            /\ Cardinality(buffer \cup {handler.id}) <= Cardinality(buffer) + 1
        BY <4>1, AddOne
      <4>3. CASE buffer' = buffer
        BY <4>3 DEF TypeOK
      <4>4. CASE buffer' = buffer \cup {handler.id} /\ Cardinality(buffer) < Buffer
        BY <4>1, <4>2, <4>4
      <4> QED
        BY <3>2, <4>3, <4>4
    <3> QED
      BY <1>8, <3>1, <3>2, <3>3 DEF Push, TypeOK, latchVars, deliveryVars, clientVars, subVars
  <2>2. CountExact' /\ Numbered' /\ dispatched' = dispatched
    BY <1>8, <2>1, SameCount, SameNumbers DEF Push, TypeOK, latchVars, deliveryVars, clientVars, subVars
  <2>3. AtHandler'
    BY <1>8, <2>2 DEF Push, AtHandler, Busy, TypeOK, latchVars, deliveryVars, clientVars, subVars
  <2>4. Owned'
    BY <1>8 DEF Push, Owned, AtHandler, Busy, latchVars, deliveryVars, clientVars, subVars
  <2> QED
    BY <2>1, <2>2, <2>3, <2>4
<1>9. CASE Forward
  <2>1. TypeOK'
    <3>1. PICK d \in buffer : buffer' = buffer \ {d} /\ held' = held \cup {d}
      BY <1>9 DEF Forward
    <3>2. Cardinality(buffer \ {d}) = Cardinality(buffer) - 1
      BY BufferFinite, RemoveOne
    <3>3. Cardinality(buffer') <= Buffer
      BY <3>1, <3>2, BufferFinite DEF TypeOK
    <3> QED
      BY <1>9, <3>1, <3>3 DEF Forward, TypeOK, latchVars, deliveryVars, clientVars, subVars
  <2>2. CountExact' /\ Numbered' /\ dispatched' = dispatched
    BY <1>9, <2>1, SameCount, SameNumbers DEF Forward, TypeOK, latchVars, deliveryVars, clientVars, subVars
  <2>3. AtHandler'
    BY <1>9, <2>2 DEF Forward, AtHandler, Busy, TypeOK, latchVars, deliveryVars, clientVars, subVars
  <2>4. Owned'
    BY <1>9 DEF Forward, Owned, Busy, latchVars, deliveryVars, clientVars, subVars
  <2> QED
    BY <2>1, <2>2, <2>3, <2>4
<1>10. CASE Reconnect
  <2>1. TypeOK'
    BY <1>10 DEF Reconnect, TypeOK, latchVars, deliveryVars, clientVars, subVars
  <2>2. CountExact' /\ Numbered' /\ dispatched' = dispatched
    BY <1>10, <2>1, SameCount, SameNumbers DEF Reconnect, TypeOK, latchVars, deliveryVars, clientVars, subVars
  <2>3. AtHandler'
    BY <1>10, <2>2 DEF Reconnect, AtHandler, Busy, TypeOK, latchVars, deliveryVars, clientVars, subVars
  <2>4. Owned'
    BY <1>10 DEF Reconnect, Owned, Busy, latchVars, deliveryVars, clientVars, subVars
  <2> QED
    BY <2>1, <2>2, <2>3, <2>4
<1>11. ASSUME NEW j \in Jobs, Acknowledge(j) PROVE IInv'
  <2>1. PICK d \in held, kind \in {"ack", "nack", "retry"} :
           /\ job' = [job EXCEPT ![j] = [NoJob EXCEPT !.pc = "lookup", !.id = d,
                                                     !.kind = kind]]
           /\ held' = held \ {d}
    BY <1>11 DEF Acknowledge
  <2>2. d \in Deliveries /\ d \in 0..MaxDispatches
    BY DEF TypeOK, Deliveries
  <2>3. job' \in [Jobs -> JobRecords]
    <3>1. [NoJob EXCEPT !.pc = "lookup", !.id = d, !.kind = kind] \in JobRecords
      <4>1. ASSUME NEW r \in JobRecords
            PROVE  [r EXCEPT !.pc = "lookup", !.id = d, !.kind = kind] \in JobRecords
        BY <2>2 DEF JobRecords
      <4>2. NoJob \in JobRecords
        BY DEF JobRecords, NoJob
      <4> QED
        BY <4>1, <4>2
    <3>2. job \in [Jobs -> JobRecords]
      BY DEF TypeOK, JobRecords
    <3> QED
      BY <2>1, <3>1, <3>2
  <2>4. /\ job'[j].pc = "lookup" /\ job'[j].id = d
        /\ \A k \in Jobs \ {j} : job'[k] = job[k]
    BY <2>1 DEF TypeOK, NoJob
  <2>5. TypeOK'
    BY <1>11, <2>1, <2>3 DEF Acknowledge, TypeOK, JobRecords, latchVars, deliveryVars, clientVars, subVars
  <2>6. CountExact' /\ Numbered' /\ dispatched' = dispatched
    BY <1>11, <2>5, SameCount, SameNumbers DEF Acknowledge, TypeOK, latchVars, deliveryVars, clientVars, subVars
  <2>7. UNCHANGED <<sub, subs, handler, count, slot, buffer, subOf>>
    BY <1>11 DEF Acknowledge, latchVars, deliveryVars, clientVars, subVars
  <2>8. \A k \in Busy' : k = j \/ (k \in Busy /\ job'[k].id = job[k].id)
    BY <2>4 DEF Busy
  <2>9. slot[d] = "in" /\ d \notin buffer /\ \A k \in Busy : job[k].id # d
    BY DEF Owned
  <2>10. AtHandler'
    BY <2>1, <2>4, <2>6, <2>7, <2>8 DEF AtHandler
  <2>11. Owned'
    BY <2>1, <2>2, <2>4, <2>7, <2>8, <2>9 DEF Owned
  <2> QED
    BY <2>5, <2>6, <2>10, <2>11
<1>12. ASSUME NEW j \in Jobs, Lookup(j) PROVE IInv'
  <2>1. job' \in [Jobs -> JobRecords]
    BY <1>12 DEF Lookup, TypeOK, JobRecords, NoJob
  <2>2. TypeOK'
    BY <1>12, <2>1 DEF Lookup, TypeOK, JobRecords, latchVars, deliveryVars, clientVars, subVars
  <2>3. CountExact' /\ Numbered'
    BY <1>12, <2>2, SameCount, SameNumbers DEF Lookup, TypeOK, latchVars, deliveryVars, clientVars, subVars
  <2>4. AtHandler' /\ Owned'
    BY <1>12, JobGoesOn DEF Lookup, TypeOK, NoJob
  <2> QED
    BY <2>2, <2>3, <2>4
<1>13. ASSUME NEW j \in Jobs, ReadOffset(j) PROVE IInv'
  <2>1. job' \in [Jobs -> JobRecords]
    <3>1. job[j].id \in Deliveries /\ slot[job[j].id] = "out"
      BY <1>13 DEF ReadOffset, Owned
    <3>2. subOf[job[j].id] \in Subscriptions
      BY <3>1 DEF Numbered, TypeOK, Subscriptions
    <3>3. current[subOf[job[j].id]] \in -1..Length - 1
      BY <3>2 DEF TypeOK
    <3> QED
      <4>1. job \in [Jobs -> JobRecords]
        BY DEF TypeOK, JobRecords
      <4>2. job' = [job EXCEPT ![j] = [job[j] EXCEPT !.pc = "store",
                                         !.offset = current[subOf[job[j].id]]]]
        BY <1>13, <4>1 DEF ReadOffset, JobRecords
      <4>3. [job[j] EXCEPT !.pc = "store", !.offset = current[subOf[job[j].id]]]
              \in JobRecords
        BY <3>3, <4>1 DEF JobRecords
      <4> QED
        BY <4>1, <4>2, <4>3
  <2>2. TypeOK'
    BY <1>13, <2>1 DEF ReadOffset, TypeOK, JobRecords, latchVars, deliveryVars, clientVars, subVars
  <2>3. CountExact' /\ Numbered'
    BY <1>13, <2>2, SameCount, SameNumbers DEF ReadOffset, TypeOK, latchVars, deliveryVars, clientVars, subVars
  <2>4. AtHandler' /\ Owned'
    BY <1>13, JobGoesOn DEF ReadOffset, TypeOK, NoJob
  <2> QED
    BY <2>2, <2>3, <2>4
<1>14. ASSUME NEW j \in Jobs, StoreOffset(j) PROVE IInv'
  <2>1. job' \in [Jobs -> JobRecords]
    BY <1>14 DEF StoreOffset, TypeOK, JobRecords, NoJob
  <2>2. TypeOK'
    BY <1>14, <2>1 DEF StoreOffset, TypeOK, JobRecords, latchVars, deliveryVars, clientVars, subVars
  <2>3. CountExact' /\ Numbered'
    BY <1>14, <2>2, SameCount, SameNumbers DEF StoreOffset, TypeOK, latchVars, deliveryVars, clientVars, subVars
  <2>4. AtHandler' /\ Owned'
    BY <1>14, JobGoesOn DEF StoreOffset, TypeOK, NoJob
  <2> QED
    BY <2>2, <2>3, <2>4
<1>15. ASSUME NEW j \in Jobs, DeleteActive(j) PROVE IInv'
  <2>1. job' \in [Jobs -> JobRecords]
    BY <1>15 DEF DeleteActive, TypeOK, JobRecords, NoJob
  <2>2. TypeOK'
    BY <1>15, <2>1 DEF DeleteActive, TypeOK, JobRecords, latchVars, deliveryVars, clientVars, subVars
  <2>3. CountExact' /\ Numbered'
    BY <1>15, <2>2, SameCount, SameNumbers DEF DeleteActive, TypeOK, latchVars, deliveryVars, clientVars, subVars
  <2>4. AtHandler' /\ Owned'
    BY <1>15, JobGoesOn DEF DeleteActive, TypeOK, NoJob
  <2> QED
    BY <2>2, <2>3, <2>4
<1>16. CASE UNCHANGED vars
  BY <1>16 DEF vars, TypeOK, CountExact, Numbered, AtHandler, Owned, Busy, dispatched
<1> QED
  BY <1>1, <1>2, <1>3, <1>4, <1>5, <1>6, <1>7, <1>8, <1>9, <1>10, <1>11, <1>12, <1>13, <1>14, <1>15, <1>16, IncrementInv, DecrementInv, DispatchInv
  DEF Next, HandlerStep, JobStep
-----------------------------------------------------------------------------
\* The inductive invariant holds in every reachable state.
LEMMA InvHolds == Spec => []IInv
BY InitInv, StepInv, PTL DEF Spec

\* The counter of every latch is the number of its unsettled deliveries and never
\* wraps, and no handler sleeps in Increment while the window has room
\* (util/blocking_latch.go), for every prefetch count and any number of goroutines
\* that acknowledge at the same time.
THEOREM LatchIsExact == Spec => []LatchExact
<1>1. IInv => LatchExact
  BY DEF IInv, LatchExact, NoLostWakeup, AtHandler
<1> QED
  BY <1>1, InvHolds, PTL
-----------------------------------------------------------------------------
(* The window of DeliveryWindow.                                           *)

\* The last delivery that has got a slot is at most the last dispatched one, and
\* before the one that the handler waits with.
LEMMA TakenBounds ==
    ASSUME IInv
    PROVE  /\ Taken \in Nat
           /\ handler.pc = "increment" => Taken < handler.id
<1> USE StreamAssumption
<1> DEFINE S == {d \in Deliveries : \E e \in d..MaxDispatches : slot[e] # "new"}
<1>1. IsFiniteSet(Deliveries) /\ S \in SUBSET Deliveries
  BY FS_Interval DEF Deliveries
<1>2. Taken \in Nat
  BY <1>1, FS_Subset, FS_CardinalityType DEF Taken
<1>3. ASSUME handler.pc = "increment" PROVE Taken < handler.id
  <2>1. /\ handler.id \in Deliveries /\ handler.id = dispatched
        /\ slot[handler.id] = "new"
    BY <1>3 DEF IInv, AtHandler
  <2>2. \A e \in Deliveries : slot[e] # "new" => e < handler.id
    BY <2>1 DEF IInv, Numbered, Deliveries
  <2>3. S \in SUBSET (1..handler.id - 1)
    BY <2>1, <2>2 DEF Deliveries
  <2>4. /\ IsFiniteSet(1..handler.id - 1)
        /\ Cardinality(1..handler.id - 1) = handler.id - 1
    BY <2>1, FS_Interval DEF Deliveries
  <2>5. Cardinality(S) <= Cardinality(1..handler.id - 1)
    BY <2>3, <2>4, FS_Subset
  <2> QED
    BY <1>2, <2>1, <2>4, <2>5 DEF Taken, Deliveries
<1> QED
  BY <1>2, <1>3

\* A step that gives no slot leaves Taken alone.
LEMMA SameTaken ==
    ASSUME \A d \in Deliveries : slot'[d] = "new" <=> slot[d] = "new"
    PROVE  Taken' = Taken
<1>1. ASSUME NEW d \in Deliveries, NEW e \in d..MaxDispatches
      PROVE  e \in Deliveries
  BY StreamAssumption DEF Deliveries
<1>2. {d \in Deliveries : \E e \in d..MaxDispatches : slot'[e] # "new"}
        = {d \in Deliveries : \E e \in d..MaxDispatches : slot[e] # "new"}
  BY <1>1
<1> QED
  BY <1>2 DEF Taken

\* A step of the consumer is a step of the window, or leaves it alone.
LEMMA WindowStep ==
    IInv /\ IInv' /\ [Next]_vars => [Window!Next]_<<Taken, Outstanding>>
<1> SUFFICES ASSUME IInv, IInv', [Next]_vars
             PROVE  Window!Next \/ (Taken' = Taken /\ Outstanding' = Outstanding)
  OBVIOUS
<1> USE StreamAssumption
<1>1. CASE Subscribe
  <2>1. slot' = slot /\ subOf' = subOf /\ subs' = subs + 1
    BY <1>1 DEF Subscribe, latchVars, deliveryVars
  <2>2. \A d \in Deliveries : slot[d] = "in" => subOf[d] # subs + 1
    BY DEF IInv, TypeOK, Numbered
  <2>3. Outstanding' = {}
    BY <2>1, <2>2 DEF Outstanding
  <2>4. Taken' = Taken
    BY <2>1, SameTaken
  <2> QED
    BY <2>3, <2>4 DEF Window!Next, Window!Renew
<1>2. CASE Increment /\ count[subs] < Prefetch
  <2>1. /\ handler.pc = "increment" /\ subs' = subs /\ subOf' = subOf
        /\ slot' = [slot EXCEPT ![handler.id] = "in"]
    BY <1>2 DEF Increment, subVars, deliveryVars
  <2>2. /\ subs \in Subscriptions /\ handler.id \in Deliveries
        /\ subOf[handler.id] = subs /\ handler.id = dispatched
    BY <2>1 DEF IInv, AtHandler
  <2>3. Outstanding' = Outstanding \cup {handler.id}
    BY <2>1, <2>2 DEF Outstanding, IInv, TypeOK
  <2>4. Cardinality(Outstanding) < Prefetch
    BY <1>2, <2>2 DEF Outstanding, IInv, CountExact
  <2>5. Taken' = handler.id
    <3>1. \A d \in Deliveries : slot'[d] # "new" => d <= handler.id
      BY <2>1, <2>2 DEF IInv, TypeOK, Numbered
    <3>2. slot'[handler.id] # "new"
      BY <2>1, <2>2 DEF IInv, TypeOK
    <3>3. {d \in Deliveries : \E e \in d..MaxDispatches : slot'[e] # "new"}
            = 1..handler.id
      BY <2>2, <3>1, <3>2 DEF Deliveries
    <3>4. Cardinality(1..handler.id) = handler.id
      BY <2>2, FS_Interval DEF Deliveries
    <3> QED
      BY <3>3, <3>4 DEF Taken, Deliveries
  <2>6. Taken' > Taken
    BY <2>1, <2>2, <2>5, TakenBounds DEF Deliveries
  <2>7. Window!Cardinality(Outstanding) = Cardinality(Outstanding)
    BY Zenon DEF Window!Cardinality, Cardinality, Window!IsFiniteSet, IsFiniteSet
  <2> QED
    BY <2>3, <2>4, <2>5, <2>6, <2>7 DEF Window!Next, Window!Take
<1>3. ASSUME NEW j \in Jobs, Decrement(j) PROVE Window!Next \/ UNCHANGED <<Taken, Outstanding>>
  <2>1. /\ job[j].pc = "decrement" /\ subs' = subs /\ subOf' = subOf
        /\ slot' = [slot EXCEPT ![job[j].id] = "out"]
    BY <1>3 DEF Decrement, subVars, deliveryVars
  <2>2. job[j].id \in Deliveries /\ slot[job[j].id] = "in"
    BY <2>1 DEF IInv, Owned, Busy
  <2>3. Taken' = Taken
    BY <2>1, <2>2, SameTaken DEF IInv, TypeOK
  <2>4. Outstanding' = Outstanding \ {job[j].id}
    BY <2>1, <2>2 DEF Outstanding, IInv, TypeOK
  <2>5. job[j].id \in Outstanding \/ Outstanding' = Outstanding
    BY <2>4
  <2> QED
    BY <2>3, <2>4, <2>5 DEF Window!Next, Window!Settle
<1>4. CASE Dispatch
  <2>1. /\ slot' = slot /\ subs' = subs
        /\ subOf' = [subOf EXCEPT ![dispatched + 1] = subs]
    BY <1>4 DEF Dispatch
  <2>2. dispatched \in Nat
    BY DispatchedType DEF IInv
  <2>3. \A d \in Deliveries : slot[d] = "in" => d # dispatched + 1
    BY <2>2 DEF IInv, Numbered, Deliveries
  <2>4. Outstanding' = Outstanding
    BY <2>1, <2>3 DEF Outstanding, IInv, TypeOK
  <2> QED
    BY <2>1, <2>4, SameTaken
<1>5. CASE UNCHANGED <<slot, subOf, subs>>
  BY <1>5, SameTaken DEF Outstanding
<1>6. CASE Increment /\ ~(count[subs] < Prefetch)
  BY <1>5, <1>6 DEF Increment, subVars, deliveryVars
<1> QED
  BY <1>1, <1>2, <1>3, <1>4, <1>5, <1>6
  DEF Next, HandlerStep, JobStep, Cancel, CloseChannel, Unsubscribe, Sleep, Broadcast,
      AddActive, Push, Forward, Acknowledge, Lookup, ReadOffset, StoreOffset,
      DeleteActive, Reconnect, subVars, latchVars, deliveryVars, vars

\* The latch, the handler and the acknowledging goroutines together implement the
\* window of DeliveryWindow: at most PrefetchCount deliveries are out at a time, in
\* the order of the stream, each settled once (amqp091.go streamSubscribe, Ack, Nack).
THEOREM WindowImplemented == Spec => ImplementsWindow
<1>1. Init => Window!Init
  <2> SUFFICES ASSUME Init PROVE Taken = 0 /\ Outstanding = {}
    BY DEF Window!Init
  <2>1. {d \in Deliveries : \E e \in d..MaxDispatches : slot[e] # "new"} = {}
    BY StreamAssumption DEF Init, Deliveries
  <2>2. Taken = 0
    BY <2>1, FS_EmptySet DEF Taken
  <2> QED
    BY <2>2 DEF Init, Outstanding
<1> QED
  BY <1>1, InvHolds, WindowStep, PTL DEF Spec, ImplementsWindow, Window!Spec
=============================================================================
