--------------------------- MODULE StreamPublisher ---------------------------
(***************************************************************************)
(* Publishing to a stream: publishOneStream and streamPrepareAndSend       *)
(* (amqp091.go), GetPublisher, PutPublisher, genPublisherKey and           *)
(* newPublisher (streamshim.go), for the messages of one key of the map    *)
(* sc.publishers.  A key is a stream, a publisher name and whether the     *)
(* message asks for confirmation: one name has two keys, each with a pool  *)
(* of its own, and so two publishers.                                      *)
(*                                                                         *)
(* The pool of the key is looked up, made and added in separate steps, and *)
(* looked up again when the publisher is put back.  The pools themselves   *)
(* are taken by what BlockingPool shows of them: Get takes an idle item,   *)
(* calls New below the limit, which costs a slot even when it fails, or    *)
(* waits; Put fails when the channel is full or the context done.  A       *)
(* publisher of a confirming key has a channel with one slot for the       *)
(* answers of the broker, which come in the order of the messages.         *)
(***************************************************************************)
EXTENDS Integers, Sequences, FiniteSets

CONSTANTS
    Callers,       \* goroutines of PublishOne
    Confirm,       \* the key is that of messages to be confirmed
    Limit,         \* limit of a pool: 1 for a publisher with a name
    MaxTries,      \* Gets of one GetPublisher while the result is nil
    MaxMessages,   \* bound on the messages
    MaxPublishers, \* bound on the publishers made
    None           \* no pool, no publisher

ASSUME PublisherAssumption ==
    /\ IsFiniteSet(Callers) /\ None \notin Nat
    /\ Limit \in Nat \ {0} /\ MaxMessages \in Nat /\ MaxPublishers \in Nat
    /\ Confirm \in BOOLEAN /\ MaxTries \in Nat \ {0}

VARIABLES
    connected,   \* bd.StreamConnection is set
    cancelled,   \* the client was disconnected: sc.ctx is done
    entry,       \* the pool that sc.publishers has for the key
    pools,       \* pools made so far
    idle,        \* publishers in the channel of each pool
    count,       \* slots each pool has used
    made,        \* publishers made so far
    failed,      \* how often newPublisher returned nil
    closed,      \* publishers that were closed
    caller,      \* each goroutine: its point, its pool, publisher and message
    unanswered,  \* messages of each publisher the broker has not answered
    pcChannel,   \* what is in the one slot of each publisher
    sent,        \* messages sent so far
    confirmed,   \* history: messages the broker confirmed
    succeeded,   \* history: messages reported as published
    interrupted, \* history: publishers put back before the answer came
    raced        \* history: two pools were made for the key

brokerVars == <<unanswered, pcChannel, confirmed>>
poolVars == <<entry, pools, idle, count, made, failed, closed, raced>>
vars == <<connected, cancelled, entry, pools, idle, count, made, failed, closed, caller,
          unanswered, pcChannel, sent, confirmed, succeeded, interrupted, raced>>

Pools == 1..Cardinality(Callers)
Publishers == 1..MaxPublishers
Messages == 1..MaxMessages
Idle == [pc |-> "idle", pool |-> None, pub |-> None, msg |-> 0, tries |-> 0]

TypeOK ==
    /\ connected \in BOOLEAN /\ cancelled \in BOOLEAN /\ raced \in BOOLEAN
    /\ entry \in Pools \cup {None} /\ pools \in 0..Cardinality(Callers)
    /\ idle \in [Pools -> SUBSET Publishers] /\ count \in [Pools -> 0..Limit]
    /\ \A k \in Pools : Cardinality(idle[k]) <= Limit
    /\ made \in 0..MaxPublishers /\ failed \in Nat /\ closed \subseteq Publishers
    /\ caller \in [Callers -> [pc : {"idle", "connect", "lookup", "make", "add", "get",
                                     "publish", "await", "put"},
                               pool : Pools \cup {None}, pub : Publishers \cup {None},
                               msg : 0..MaxMessages, tries : 0..MaxTries]]
    /\ unanswered \in [Publishers -> Seq(Messages)]
    /\ pcChannel \in [Publishers -> Seq([msg : Messages, ok : BOOLEAN])]
    /\ \A p \in Publishers : Len(pcChannel[p]) <= 1
    /\ sent \in 0..MaxMessages
    /\ confirmed \subseteq Messages /\ succeeded \subseteq Messages
    /\ interrupted \subseteq Publishers

Init ==
    /\ connected = FALSE /\ cancelled = FALSE /\ raced = FALSE
    /\ entry = None /\ pools = 0
    /\ idle = [k \in Pools |-> {}] /\ count = [k \in Pools |-> 0]
    /\ made = 0 /\ failed = 0 /\ closed = {}
    /\ caller = [c \in Callers |-> Idle]
    /\ unanswered = [p \in Publishers |-> <<>>]
    /\ pcChannel = [p \in Publishers |-> <<>>]
    /\ sent = 0
    /\ confirmed = {} /\ succeeded = {} /\ interrupted = {}

Goto(c, point) == caller' = [caller EXCEPT ![c].pc = point]
-----------------------------------------------------------------------------
\* PublishOne of a stream address begins.
Call(c) ==
    /\ caller[c].pc = "idle"
    /\ ~cancelled /\ sent < MaxMessages
    /\ sent' = sent + 1
    /\ caller' = [caller EXCEPT ![c] = [Idle EXCEPT !.pc = "connect", !.msg = sent + 1]]
    /\ UNCHANGED <<connected, cancelled, poolVars, brokerVars, succeeded, interrupted>>

\* getStreamConnection, under its lock: the first caller connects, and reports an
\* error when the broker refuses.  A closed connection is an error too (IsClosed).
getStreamConnection(c) ==
    /\ caller[c].pc = "connect"
    /\ \/ /\ connected' = TRUE
          /\ IF cancelled THEN caller' = [caller EXCEPT ![c] = Idle] ELSE Goto(c, "lookup")
       \/ ~connected /\ UNCHANGED connected /\ caller' = [caller EXCEPT ![c] = Idle]
    /\ UNCHANGED <<cancelled, poolVars, brokerVars, sent, succeeded, interrupted>>

\* sc.publishers.Get(key)
PoolLookup(c) ==
    /\ caller[c].pc = "lookup"
    /\ caller' = [caller EXCEPT ![c].pc = IF entry = None THEN "make" ELSE "get",
                                ![c].pool = entry]
    /\ UNCHANGED <<connected, cancelled, poolVars, brokerVars, sent, succeeded,
                   interrupted>>

\* util.NewBlockingPool
PoolMake(c) ==
    /\ caller[c].pc = "make"
    /\ pools' = pools + 1
    /\ caller' = [caller EXCEPT ![c].pc = "add", ![c].pool = pools + 1]
    /\ raced' = (pools > 0)
    /\ UNCHANGED <<connected, cancelled, entry, idle, count, made, failed, closed, brokerVars,
                   sent, succeeded, interrupted>>

\* sc.publishers.Add(key, pool) replaces what another caller has added meanwhile.
PoolAdd(c) ==
    /\ caller[c].pc = "add"
    /\ entry' = caller[c].pool
    /\ Goto(c, "get")
    /\ UNCHANGED <<connected, cancelled, pools, idle, count, made, failed, closed, raced,
                   brokerVars, sent, succeeded, interrupted>>

\* Get returned nil: GetPublisher sleeps and calls it again, MaxTries times in all,
\* and then publishOneStream reports the failure.
ReturnNil(c) ==
    caller' = IF caller[c].tries + 1 < MaxTries
              THEN [caller EXCEPT ![c].tries = @ + 1]
              ELSE [caller EXCEPT ![c] = Idle]

\* p.New() in a slot that has just been taken: newPublisher returns a publisher, or
\* nil when the client is disconnected or the broker refuses the producer.
newPublisher(c, k) ==
    /\ count[k] < Limit
    /\ count' = [count EXCEPT ![k] = @ + 1]
    /\ \/ /\ made < MaxPublishers /\ ~cancelled
          /\ made' = made + 1
          /\ caller' = [caller EXCEPT ![c].pc = "publish", ![c].pub = made + 1]
          /\ UNCHANGED failed
       \/ /\ failed' = failed + 1
          /\ ReturnNil(c)
          /\ UNCHANGED made

\* Slip: the publisher stays in the pool while it is used.
GetShared(c) ==
    /\ caller[c].pc = "get"
    /\ LET k == caller[c].pool IN
       \/ \E p \in idle[k] :
             /\ caller' = [caller EXCEPT ![c].pc = "publish", ![c].pub = p]
             /\ UNCHANGED <<made, failed, count>>
       \/ /\ idle[k] = {}
          /\ newPublisher(c, k)
    /\ UNCHANGED <<connected, cancelled, entry, pools, idle, closed, raced, brokerVars, sent,
                   succeeded, interrupted>>

\* pool.Get: an idle publisher, what New returns below the limit, or nil once the
\* client is disconnected; until then it waits.
PoolGet(c) ==
    /\ caller[c].pc = "get"
    /\ LET k == caller[c].pool IN
       \/ \E p \in idle[k] :
             /\ idle' = [idle EXCEPT ![k] = @ \ {p}]
             /\ caller' = [caller EXCEPT ![c].pc = "publish", ![c].pub = p]
             /\ UNCHANGED <<made, failed, count>>
       \/ /\ idle[k] = {}
          /\ newPublisher(c, k)
          /\ UNCHANGED idle
       \/ /\ idle[k] = {} /\ count[k] >= Limit /\ cancelled
          /\ ReturnNil(c)
          /\ UNCHANGED <<idle, made, failed, count>>
    /\ UNCHANGED <<connected, cancelled, entry, pools, closed, raced, brokerVars, sent,
                   succeeded, interrupted>>

\* publisher.Publish: the message is on its way to the broker, or Send fails.  A
\* message that asks for no confirmation is a success at once; its answer goes to a
\* handler that does nothing.
Publish(c) ==
    /\ caller[c].pc = "publish"
    /\ \/ IF Confirm
          THEN /\ unanswered' = [unanswered EXCEPT ![caller[c].pub] = Append(@, caller[c].msg)]
               /\ Goto(c, "await")
               /\ UNCHANGED succeeded
          ELSE /\ succeeded' = succeeded \cup {caller[c].msg}
               /\ Goto(c, "put")
               /\ UNCHANGED unanswered
       \/ /\ Goto(c, "put")
          /\ UNCHANGED <<unanswered, succeeded>>
    /\ UNCHANGED <<connected, cancelled, poolVars, pcChannel, confirmed, sent, interrupted>>

\* The broker answers, or the library's timeout of five seconds does: pcChan <-
\* msgStatus, once the slot is free.
Answer(p) ==
    /\ unanswered[p] # <<>>
    /\ pcChannel[p] = <<>>
    /\ \E ok \in BOOLEAN :
          /\ pcChannel' = [pcChannel EXCEPT ![p] = <<[msg |-> Head(unanswered[p]), ok |-> ok]>>]
          /\ confirmed' = IF ok THEN confirmed \cup {Head(unanswered[p])} ELSE confirmed
    /\ unanswered' = [unanswered EXCEPT ![p] = Tail(@)]
    /\ UNCHANGED <<connected, cancelled, poolVars, caller, sent, succeeded, interrupted>>

\* Slip: the caller reports success without waiting for the answer.
AwaitNothing(c) ==
    /\ caller[c].pc = "await"
    /\ succeeded' = succeeded \cup {caller[c].msg}
    /\ Goto(c, "put")
    /\ UNCHANGED <<connected, cancelled, poolVars, brokerVars, sent, interrupted>>

\* case status := <-publisher.GetPCChannel()
Await(c) ==
    /\ caller[c].pc = "await"
    /\ LET p == caller[c].pub IN
       /\ pcChannel[p] # <<>>
       /\ pcChannel' = [pcChannel EXCEPT ![p] = <<>>]
       /\ succeeded' = IF Head(pcChannel[p]).ok THEN succeeded \cup {caller[c].msg}
                                                ELSE succeeded
    /\ Goto(c, "put")
    /\ UNCHANGED <<connected, cancelled, poolVars, unanswered, confirmed, sent,
                   interrupted>>

\* case <-ctx.Done(): the client has given up; the answer will come later.
Interrupt(c) ==
    /\ caller[c].pc = "await"
    /\ interrupted' = interrupted \cup {caller[c].pub}
    /\ Goto(c, "put")
    /\ UNCHANGED <<connected, cancelled, poolVars, brokerVars, sent, succeeded>>

\* Slip: a publisher goes back only after a publish that succeeded.
PutAfterSuccess(c) ==
    /\ caller[c].pc = "put"
    /\ LET p == caller[c].pub IN
       IF caller[c].msg \in succeeded
       THEN /\ idle' = [idle EXCEPT ![entry] = @ \cup {p}]
            /\ UNCHANGED closed
       ELSE /\ closed' = closed \cup {p}
            /\ UNCHANGED idle
    /\ caller' = [caller EXCEPT ![c] = Idle]
    /\ UNCHANGED <<connected, cancelled, entry, pools, count, made, failed, raced, brokerVars,
                   sent, succeeded, interrupted>>

\* PutPublisher: into the pool that the map has by now.  What Put refuses is closed.
PutPublisher(c) ==
    /\ caller[c].pc = "put"
    /\ LET p == caller[c].pub IN
       \/ /\ Cardinality(idle[entry]) < Limit
          /\ idle' = [idle EXCEPT ![entry] = @ \cup {p}]
          /\ UNCHANGED closed
       \/ /\ cancelled \/ Cardinality(idle[entry]) >= Limit
          /\ closed' = closed \cup {p}
          /\ UNCHANGED idle
    /\ caller' = [caller EXCEPT ![c] = Idle]
    /\ UNCHANGED <<connected, cancelled, entry, pools, count, made, failed, raced, brokerVars,
                   sent, succeeded, interrupted>>

\* streamConnection.Close, by a Disconnect.
Close ==
    /\ connected /\ ~cancelled
    /\ cancelled' = TRUE
    /\ UNCHANGED <<connected, poolVars, caller, brokerVars, sent, succeeded, interrupted>>

CallerStep(c) ==
    \/ getStreamConnection(c) \/ PoolLookup(c) \/ PoolMake(c) \/ PoolAdd(c) \/ PoolGet(c)
    \/ Publish(c) \/ Await(c) \/ PutPublisher(c)

Next ==
    \/ \E c \in Callers : Call(c) \/ CallerStep(c) \/ Interrupt(c)
    \/ \E p \in Publishers : Answer(p)
    \/ Close

Spec == Init /\ [][Next]_vars

(***************************************************************************)
(* Goroutines that can run do run, a waiting Get is served in its turn     *)
(* (see BlockingPool), and a message is answered, if only by the timeout   *)
(* of the client library.  No client must call, give up or disconnect.     *)
(***************************************************************************)
Fairness ==
    /\ \A c \in Callers : WF_vars(CallerStep(c)) /\ SF_vars(PoolGet(c))
    /\ \A p \in Publishers : WF_vars(Answer(p))

FairSpec == Spec /\ Fairness
-----------------------------------------------------------------------------
\* Never more publishers of a key are open than the limit of its pool, one for a key
\* with a publisher name, unless first calls that overlapped have made two pools for
\* the key (GetPublisher).
OnePublisherPerKey == ~raced => made - Cardinality(closed) <= Limit

\* A publisher is used by one caller at a time and is idle in no pool meanwhile,
\* also when it goes back to another pool than it came from.
UsedByOne ==
    \A c \in Callers : caller[c].pub # None =>
        /\ \A e \in Callers \ {c} : caller[e].pub # caller[c].pub
        /\ \A k \in Pools : caller[c].pub \notin idle[k]

\* Success is reported for a message that the broker has confirmed, although the
\* answer is not compared with the message ("Should we check message ID here?",
\* amqp091.go): the slot holds the answer of another message only after a caller
\* has given up on that publisher.
OwnConfirmation ==
    Confirm /\ interrupted = {} => succeeded \subseteq confirmed

\* A caller that waits for a publisher of a key that has none, and never had one.
Starved(c) == caller[c].pc = "get" /\ ~cancelled /\ made = 0

\* Every PublishOne returns, although its publisher is handed from caller to caller,
\* answers may be late and clients give up.  Two things keep a caller waiting until the
\* client disconnects: two pools for the key, of which one has the other's publisher,
\* and a pool whose slots all went to producers that the broker refused, which ten
\* tries do not cure, since a refused producer is not counted out (GetPublisher,
\* newPublisher).
PublishReturns ==
    \A c \in Callers : \/ []<>(caller[c].pc = "idle")
                       \/ <>[](raced \/ Starved(c))

\* What a user of one pool sees: the publishers that are idle in any of them, and the
\* one each caller has.
IdlePublishers == UNION {idle[k] : k \in Pools}
InHands == [c \in Callers |-> caller[c].pub]

Promised == INSTANCE ItemPool WITH
    Users <- Callers, Things <- Publishers, idle <- IdlePublishers,
    holding <- InHands, broken <- {}, closed <- cancelled

\* Until two pools are made for the key, GetPublisher and PutPublisher see one pool
\* that keeps the promise of ItemPool: a publisher is made below the limit, taken,
\* given back, and closed only after the client has disconnected, although PutPublisher
\* looks the pool up again and closes what Put refuses.
OnePool ==
    [][~raced' => Promised!Next \/ UNCHANGED <<IdlePublishers, InHands, cancelled>>]_vars

\* A key has as many publishers as its pool allows, each with one user, whatever New
\* returns and whichever pool a publisher is put back to (GetPublisher, PutPublisher).
PublisherExclusive == TypeOK /\ OnePublisherPerKey /\ UsedByOne
=============================================================================
