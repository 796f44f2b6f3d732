---------------------------- MODULE BlockingPool ----------------------------
(***************************************************************************)
(* The bounded pool of publish channels and stream publishers              *)
(* (internal/util/blocking_pool.go) together with the way its callers use  *)
(* it: publishOneQueue (one Get per call, a deferred Put) and GetPublisher *)
(* (up to ten Gets per call while the result is nil).                      *)
(*                                                                         *)
(* Every access to shared memory is a step of its own: the non-blocking    *)
(* receive, the load of count, the compare-and-swap, the constructor, the  *)
(* blocking select, the atomic decrement and the send of Put.  The order   *)
(* of the buffered channel p.pool is abstracted: items are interchangeable *)
(* for every property below, so the channel is a set with a capacity.      *)
(***************************************************************************)
EXTENDS Integers, FiniteSets

CONSTANTS
    Threads,    \* goroutines that publish through the pool
    Items,      \* channels or publishers that New can return
    Limit,      \* p.limit, also the capacity of the channel p.pool
    MaxTries,   \* Gets per call while the result is nil
    Validated,  \* whether p.Validate is set (publish channels: yes, streams: no)
    MayFail,    \* whether New may return nil (a channel that cannot be opened)
    None        \* the nil item

ASSUME PoolAssumption ==
    /\ IsFiniteSet(Threads)
    /\ Threads \cap Items = {}
    /\ None \notin Items \cup Threads
    /\ Limit \in Nat
    /\ MaxTries \in Nat \ {0}
    /\ Validated \in BOOLEAN /\ MayFail \in BOOLEAN

VARIABLES
    pool,       \* items buffered in the channel p.pool
    count,      \* p.count
    cancelled,  \* p.ctx is done
    stale,      \* items whose broker channel is closed: Validate is false
    pc,         \* program point of each goroutine
    held,       \* the item in the goroutine's hands (e in Get, x in Put)
    current,    \* the local of Get's loop, last load of count
    tries,      \* Gets of the current call so far
    failed      \* history: how often New returned nil

vars == <<pool, count, cancelled, stale, pc, held, current, tries, failed>>

PCs == {"idle", "try", "load", "cas", "new", "wait", "retire",
        "hold", "send", "retirePut"}

Getting == {"try", "load", "cas", "new", "wait", "retire"}

TypeOK ==
    /\ pool \subseteq Items
    /\ count \in 0..Limit
    /\ cancelled \in BOOLEAN
    /\ stale \subseteq Items
    /\ pc \in [Threads -> PCs]
    /\ held \in [Threads -> Items \cup {None}]
    /\ current \in [Threads -> 0..Limit]
    /\ tries \in [Threads -> 0..MaxTries]
    /\ failed \in Nat

Init ==
    /\ pool = {}
    /\ count = 0
    /\ cancelled = FALSE
    /\ stale = {}
    /\ pc = [t \in Threads |-> "idle"]
    /\ held = [t \in Threads |-> None]
    /\ current = [t \in Threads |-> 0]
    /\ tries = [t \in Threads |-> 0]
    /\ failed = 0

\* The items in some goroutine's hands.
HeldItems == {held[t] : t \in Threads} \ {None}

\* What occupies a slot of the pool: an idle item, an item in use, and a
\* reservation made by a successful compare-and-swap whose New is running.
Charged == pool \cup HeldItems \cup {t \in Threads : pc[t] = "new"}

\* p.Validate == nil || p.Validate(i)
Valid(i) == Validated => i \notin stale

Goto(t, point) == pc' = [pc EXCEPT ![t] = point]

\* Get returned nil: GetPublisher sleeps and calls it again, publishOneQueue
\* (MaxTries = 1) gives up.
ReturnNil(t) ==
    IF tries[t] < MaxTries
    THEN /\ Goto(t, "try")
         /\ tries' = [tries EXCEPT ![t] = @ + 1]
    ELSE /\ Goto(t, "idle")
         /\ tries' = [tries EXCEPT ![t] = 0]
-----------------------------------------------------------------------------
\* A publish call begins.
Call(t) ==
    /\ pc[t] = "idle"
    /\ Goto(t, "try")
    /\ tries' = [tries EXCEPT ![t] = 1]
    /\ UNCHANGED <<pool, count, cancelled, stale, held, current, failed>>

\* A receive from p.pool, in either select, and the validation that follows.
Receive(t, i) ==
    /\ i \in pool
    /\ pool' = pool \ {i}
    /\ held' = [held EXCEPT ![t] = i]
    /\ Goto(t, IF Valid(i) THEN "hold" ELSE "retire")
    /\ UNCHANGED <<count, cancelled, stale, current, tries, failed>>

\* The first select of Get: receive if an item is idle, else fall through.
GetFast(t) ==
    /\ pc[t] = "try"
    /\ \/ \E i \in pool : Receive(t, i)
       \/ /\ pool = {}
          /\ Goto(t, "load")
          /\ UNCHANGED <<pool, count, cancelled, stale, held, current, tries, failed>>

\* current := p.count.Load(), and the test against the limit.
LoadCount(t) ==
    /\ pc[t] = "load"
    /\ current' = [current EXCEPT ![t] = count]
    /\ Goto(t, IF count < Limit THEN "cas" ELSE "wait")
    /\ UNCHANGED <<pool, count, cancelled, stale, held, tries, failed>>

\* Slip: current+1 is stored without comparing.
StoreInsteadOfCas(t) ==
    /\ pc[t] = "cas"
    /\ count' = current[t] + 1
    /\ Goto(t, "new")
    /\ UNCHANGED <<pool, cancelled, stale, held, current, tries, failed>>

\* p.count.CompareAndSwap(current, current+1)
CompareAndSwap(t) ==
    /\ pc[t] = "cas"
    /\ IF count = current[t]
       THEN /\ count' = current[t] + 1
            /\ Goto(t, "new")
       ELSE /\ Goto(t, "load")
            /\ UNCHANGED count
    /\ UNCHANGED <<pool, cancelled, stale, held, current, tries, failed>>

\* return p.New(): a fresh item, or nil when the broker refuses the channel.
\* count keeps the increment in both cases.
NewItem(t) ==
    /\ pc[t] = "new"
    /\ \/ \E i \in Items \ (pool \cup HeldItems) :
            /\ held' = [held EXCEPT ![t] = i]
            /\ stale' = stale \ {i}
            /\ Goto(t, "hold")
            /\ UNCHANGED <<tries, failed>>
       \/ /\ MayFail
          /\ ReturnNil(t)
          /\ failed' = failed + 1
          /\ UNCHANGED <<held, stale>>
    /\ UNCHANGED <<pool, count, cancelled, current>>

\* Slip: the blocking select does not watch the context.
WaitWithoutContext(t) ==
    /\ pc[t] = "wait"
    /\ \E i \in pool : Receive(t, i)

\* The blocking select of Get: an item, or the cancellation of the context.
GetWait(t) ==
    /\ pc[t] = "wait"
    /\ \/ \E i \in pool : Receive(t, i)
       \/ /\ cancelled
          /\ ReturnNil(t)
          /\ UNCHANGED <<pool, count, cancelled, stale, held, current, failed>>

\* Slip: only Put gives the slot of a stale item back.
RetireInPutOnly(t) ==
    /\ pc[t] \in {"retire", "retirePut"}
    /\ count' = IF pc[t] = "retirePut" THEN count - 1 ELSE count
    /\ held' = [held EXCEPT ![t] = None]
    /\ IF pc[t] = "retire"
       THEN Goto(t, "load") /\ UNCHANGED tries
       ELSE Goto(t, "idle") /\ tries' = [tries EXCEPT ![t] = 0]
    /\ UNCHANGED <<pool, cancelled, stale, current, failed>>

\* p.count.Add(-1) for a stale item, in Get (the loop goes on) and in Put
\* (the caller closes the item).
Retire(t) ==
    /\ pc[t] \in {"retire", "retirePut"}
    /\ count' = count - 1
    /\ held' = [held EXCEPT ![t] = None]
    /\ IF pc[t] = "retire"
       THEN Goto(t, "load") /\ UNCHANGED tries
       ELSE Goto(t, "idle") /\ tries' = [tries EXCEPT ![t] = 0]
    /\ UNCHANGED <<pool, cancelled, stale, current, failed>>

\* The deferred Put of the caller begins: validation of the item.
PutValidate(t) ==
    /\ pc[t] = "hold"
    /\ Goto(t, IF Valid(held[t]) THEN "send" ELSE "retirePut")
    /\ UNCHANGED <<pool, count, cancelled, stale, held, current, tries, failed>>

\* Slip: Put is called while the publish still uses the item.
PutTooEarly(t) ==
    /\ pc[t] = "send"
    /\ Cardinality(pool) < Limit
    /\ pool' = pool \cup {held[t]}
    /\ Goto(t, "hold")
    /\ UNCHANGED <<count, cancelled, stale, held, current, tries, failed>>

\* Slip: the channel is made one smaller than the limit.
PutIntoSmallChannel(t) ==
    /\ pc[t] = "send"
    /\ \/ /\ Cardinality(pool) < Limit - 1
          /\ pool' = pool \cup {held[t]}
       \/ /\ cancelled \/ Cardinality(pool) >= Limit - 1
          /\ UNCHANGED pool
    /\ held' = [held EXCEPT ![t] = None]
    /\ Goto(t, "idle")
    /\ tries' = [tries EXCEPT ![t] = 0]
    /\ UNCHANGED <<count, cancelled, stale, current, failed>>

\* The select of Put.  A done context and a full channel are errors: the
\* caller closes the item, and count is left alone.
PutSend(t) ==
    /\ pc[t] = "send"
    /\ \/ /\ Cardinality(pool) < Limit
          /\ pool' = pool \cup {held[t]}
       \/ /\ cancelled \/ Cardinality(pool) >= Limit
          /\ UNCHANGED pool
    /\ held' = [held EXCEPT ![t] = None]
    /\ Goto(t, "idle")
    /\ tries' = [tries EXCEPT ![t] = 0]
    /\ UNCHANGED <<count, cancelled, stale, current, failed>>
-----------------------------------------------------------------------------
\* The broker closes the channel behind a live item.
ItemFails(i) ==
    /\ i \in (pool \cup HeldItems) \ stale
    /\ stale' = stale \cup {i}
    /\ UNCHANGED <<pool, count, cancelled, pc, held, current, tries, failed>>

\* A publish on a closed channel reopens it (ensureChannel).
ItemReopened(t) ==
    /\ pc[t] = "hold"
    /\ held[t] \in stale
    /\ stale' = stale \ {held[t]}
    /\ UNCHANGED <<pool, count, cancelled, pc, held, current, tries, failed>>

\* The client disconnects: pubChannelCancel.
Cancel ==
    /\ ~cancelled
    /\ cancelled' = TRUE
    /\ UNCHANGED <<pool, count, stale, pc, held, current, tries, failed>>

ThreadStep(t) ==
    \/ GetFast(t) \/ LoadCount(t) \/ CompareAndSwap(t) \/ NewItem(t)
    \/ GetWait(t) \/ Retire(t) \/ PutValidate(t) \/ PutSend(t)

Next ==
    \/ \E t \in Threads : Call(t) \/ ThreadStep(t) \/ ItemReopened(t)
    \/ \E i \in Items : ItemFails(i)
    \/ Cancel

Spec == Init /\ [][Next]_vars

(***************************************************************************)
(* Goroutines that can run do run, and a goroutine blocked in a receive is *)
(* served in its turn: Go hands a sent value to the longest waiting        *)
(* receiver, so a waiter cannot be overtaken forever.  Nothing obliges a   *)
(* caller to call, a broker channel to fail or a client to disconnect.     *)
(***************************************************************************)
Fairness ==
    \A t \in Threads : WF_vars(ThreadStep(t)) /\ SF_vars(GetWait(t))

FairSpec == Spec /\ Fairness
-----------------------------------------------------------------------------
\* The pool never has more items in existence, idle or in use, than its limit,
\* however the loads and the compare-and-swaps of several Gets interleave and
\* however many items are retired meanwhile (blocking_pool.go Get, Put).
PoolBound == Cardinality(pool \cup HeldItems) <= Limit

\* No two publishers ever use the same channel, and a channel that is in use is
\* not idle in the pool: confirmations and frames of two calls cannot mix.
Exclusive ==
    /\ \A t, u \in Threads : t # u /\ held[t] # None => held[t] # held[u]
    /\ \A t \in Threads : held[t] \notin pool

\* A goroutine about to send its item back finds room: the "pool is full"
\* branch of Put cannot be reached by callers that put back what they got.
PutNeverFull == \A t \in Threads : pc[t] = "send" => Cardinality(pool) < Limit

\* Until the client disconnects, count is exactly what exists plus what failed
\* constructors have cost: retiring stale items in Get and in Put loses no slot
\* and frees none twice.
ExactCount == ~cancelled => count = Cardinality(Charged) + failed

Promised == INSTANCE ItemPool WITH
    Users <- Threads, Things <- Items, idle <- pool, holding <- held,
    broken <- stale, closed <- cancelled

\* Get and Put implement the pool they promise: of all their steps, a slot
\* reserved by a compare-and-swap and a failed constructor included, only those
\* of ItemPool show, and an item that still works is dropped (Retire, the error
\* branches of Put) only after the client has disconnected.
ImplementsPool == Promised!Spec

\* A waiter that nobody is left to serve: the pool is open, and no item exists
\* or is being made that a Put could hand over.
Starved(t) == pc[t] = "wait" /\ ~cancelled /\ Charged = {}

\* Every Get returns, with an item or with nil, however it is overtaken and
\* whatever it finds stale, unless broker channels go on failing for ever.  The
\* one Get that does not return waits in a pool without any item: its slots went
\* to failed constructors, or the item it waited for was found stale by the Put
\* of its holder, which frees the slot and tells no waiter (blocking_pool.go Get,
\* Put).
GetReturns ==
    \/ []<><<\E i \in Items : ItemFails(i)>>_vars
    \/ \A t \in Threads : \/ []<>(pc[t] \notin Getting)
                          \/ <>[]Starved(t)
=============================================================================
