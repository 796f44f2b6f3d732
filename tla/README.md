# Arke verification

TLA+ models of Arke, the gRPC message broker proxy of this repository, the TLC
instances that check them and the TLAPS proofs about them. Modules are
translated from the Go source; `PROJECT.json` names, for every definition, the
lines it stands for.

## 1. Inventory of the system

Arke accepts gRPC clients (`internal/server`) and talks AMQP 0.9.1 and the
RabbitMQ stream protocol on their behalf
(`internal/provider/connectors/amqp091`). One process serves many clients; every
client has its own broker connection.

| Component | State | Operations | Talks to |
|---|---|---|---|
| Blocking pool (`util/blocking_pool.go`) | buffered channel `pool`, atomic `count`, context | `Get`, `Put`, `New`, `Validate` | callers `publishOneQueue`, `GetPublisher`, `PutPublisher`; cancelled by a disconnect |
| Session lifecycle (`server.go`, `amqp091.go`, `cleaner.go`) | `connectionMap` (server), `prov.connections` (provider), per session `Connection`, `state`, `clientDisconnect`, `shutdownChan`, `ErrorChannel`, `ActiveStreams`, `lastPubSubEvent` | `Connect`, `Disconnect`, `connectionWatcher`, `connect`, `connectionCleaner`, `TrimConnectionList`, `WaitForConnect` | every RPC starts with the two maps; the watcher is a goroutine per session |
| Queue delivery and settlement (`amqp091.go`, `amqp091shim.go`, `server.go`) | `activeMessages`, `RetryChannel`, `knownQueues`, `knownBindings`, the broker's queues | `queueSubscribe`, `Ack`, `Nack`, `DeadLetter`, `Retry` | the acknowledgement goroutines of Consume; replaced maps on reconnect |
| Consume RPC (`server.go`) | `stopForLoop`, `messageChannel`, `returnError`, `isSubscribing` | loop, one receiver per turn, sender, subscriber, one goroutine per acknowledgement, deferred close of the channels | provider `Subscribe`, `Ack`, `Nack`, `Retry` |
| End of a subscription (`amqp091.go`, `amqp091shim.go`) | `connErrChan`, `cancelChan`, the listeners of the client library | the select of `queueSubscribe`, both `NotifyClose` goroutines with their timer | broker and session state |
| Publish RPC (`server.go`, `amqp091.go`) | `stopPublish`, the variables `msg` and `err` all readers share, per round `messageChannel`, `errChan` and a reader with its 30 s timer | rounds of one reader goroutine and one call of the provider's `Publish`; the unary `PublishOne` | provider `Publish`, `WaitForConnect`; `PublishOne` uses the pool |
| Stream consumers (`amqp091.go`, `streamshim.go`, `streamhelpers.go`, `blocking_latch.go`) | `BlockingLatch` counter and condition, offset of the consumer, stored offset | `streamSubscribe`, message handler, `Increment`, `Decrement`, `StoreOffset` | acknowledgements decrement the latch; Consume closes `messageChannel` |
| Stream publishers (`streamshim.go`, `amqp091.go`) | map of pools, per publisher one-slot `pcChannel` | `GetPublisher`, `PutPublisher`, `newPublisher`, `streamPrepareAndSend`, `Close` | the pool; confirmations of the library |
| Declarations (`amqp091.go`) | `knownExchanges`, `knownQueues`, `knownBindings`; exchanges and bindings at the broker | `declareExchange`, `declareQueue`, `declareBinding`, `cleanupBindings`, `setupDeadLetter`, `loadExchanges` | used by subscribe, publish and retry; caches replaced on reconnect |
| Provider registry (`provider/provider.go`) | factories, map of providers | `Register`, `NewProvider`, `GetProvider` | every RPC |
| Health service (`server.go`, `util/k8s.go`) | `healthNotifiers`, `healthChan` | `Check`, `MonitorHealthChan`, `MonitorHPA` | Kubernetes events become GOAWAY for every client |
| Rate limiter (`ratelimiter.go`, `util/util.go`) | map of limiters by client identifier | `Limit`, `cullStaleClients` | interceptor of the limited methods |
| Server start and stop (`pkg/arke/arke.go`, `cmd/serve.go`) | listener, multiplexer, `serveErrChan` | `Serve`, its signal goroutine, `run` | owns everything above |
| Source statistics (`server.go`, `amqp091.go`, `streamshim.go`) | offset stored under `arkeSourceStatsConsumer` | `SourceStats`, `SourceStatsGroup`, `GetStreamOffset` | broker, management interface |
| Process statistics (`util/metrics.go`, `cgroups.go`, `safe_buffer.go`, `processMonitor_linux.go`) | limits, two ring buffers | `MonitorProcessStats`, `IsUnhealthyUsage` | every health message |
| Compression (`compression.go`) | none | `compressMessage`, `decompressBody` | stream publisher and handler |
| The rest | metrics, tracing, logging, generated code, load tool, examples | | no protocol of their own; listed in `PROJECT.json` with the reason they are left out |

What is hard about it:

* **Two records of one fact.** `connectionMap` and `prov.connections` are
  changed by different goroutines in different orders; the cleaner changes only
  the second, `TrimConnectionList` only the first.
* **Check, long wait, act.** `brokerConnect` checks the map, dials for seconds,
  then adds. `disconnectClientByIdentifier` closes the connection it sees while
  the watcher may be replacing it.
* **Blocking sends.** `shutdownChan`, `stopForLoop`, `errChan` are sent to from
  goroutines that cannot know whether a reader is left.
* **Replaced maps.** `connect()` replaces `activeMessages` and the declaration
  caches while acknowledgements of the old connection are still running.
* **A retry is two operations.** Publish a copy, then acknowledge the original;
  the connection can break anywhere in between, and every frame can be lost.
* **A lock-free counter with blocking fallback.** `BlockingPool.Get` loads,
  compares and swaps, constructs, and waits, with `Put` retiring items beside it.

* **Check then act on shared maps.** Pools of publishers, providers, limiters,
  health channels and exchanges are looked up, made and stored in separate
  steps, often looked up again later, and removed by somebody else meanwhile.
* **Notices that come once.** Close notices, signals of a condition, GOAWAY and
  confirmations are lost if nobody listens at the moment they come.

What makes each part correct: the pool respects its limit, shares nothing and
never blocks a caller for good; a session has one broker connection, notices
every loss, comes back, and leaves nothing behind when the client goes; a
message stays with the broker until somebody disposed of it, a delivery is
settled once and never becomes impossible to settle; a published message reaches
the broker once, in order, and its response says what happened; a consumer gets
what was delivered in order, within its window, and learns of every failure;
handlers return and leave no goroutine behind. The list `hazards` of
`PROJECT.json` has each danger at its line, with the property that watches it.

## 2. Modules

| Module | Models | Instances |
|---|---|---|
| `ItemPool` | abstract: what a bounded pool promises its users | |
| `BlockingPool` | the pool and its callers; implements `ItemPool` | `MCBlockingPool`, `pool.cfg` |
| `BlockingPoolProofs` | theorems about it, and the refinement | |
| `BrokerSession` | the life of a client's session | `MCBrokerSession`, `session_*.cfg` |
| `BrokerSessionProofs` | theorems about it | |
| `QueueDelivery` | delivery, acknowledgement and retry | `MCQueueDelivery`, `delivery_*.cfg` |
| `QueueDeliveryProofs` | theorems about it | |
| `PublishLog` | abstract: what the Publish RPC promises of a stream's messages | |
| `PublishStream` | the Publish RPC and the provider's `Publish`; implements `PublishLog` | `MCPublishStream`, `publish_stream.cfg` |
| `PublishStreamProofs` | theorems about it, and the refinement | |
| `MessageLine` | abstract: what the Consume RPC promises of a subscription's messages | |
| `ConsumeStream` | the Consume RPC; implements `MessageLine` | `MCConsumeStream`, `consume_stream.cfg` |
| `ConsumeStreamProofs` | theorems about it, and the refinement | |
| `DeliveryWindow` | abstract: what a prefetch count promises | |
| `StreamConsumer` | stream subscriptions and the latch; implements `DeliveryWindow` | `MCStreamConsumer`, `stream_consumer.cfg` |
| `StreamConsumerProofs` | theorems about it, and the refinement | |
| `StreamPublisher` | publishing to a stream under one key; keeps the promise of `ItemPool` until two pools are made | `MCStreamPublisher`, `stream_publisher.cfg` |
| `StreamPublisherProofs` | theorems about it | |
| `RateLimiter` | rate limiter, its interceptor, client identifiers | `MCServices`, `services.cfg` |
| `ProviderRegistry` | the registry of providers | `MCServices` |
| `HealthService` | health streams and the scaling monitor | `MCServices`, `services_liveness.cfg` |
| `ProcessStats` | limits, samples, health status | `MCServices` |
| `ServerLifecycle` | start and stop of the process | `MCServices`, `services_liveness.cfg` |
| `Declarations` | exchanges, queues and bindings of a session | `MCServices` |
| `Subscription` | how a queue subscription learns of its end | `MCServices`, `services_liveness.cfg` |
| `StreamBody` | compression of stream messages | `MCServices` |
| `SourceStats` | statistics of a stream | `MCServices` |
| `ServicesProofs` | theorems about the parts of `MCServices` | |

Definitions called "Slip" in a comment are wrong variants of the definition that
follows them, the mistakes a later change could make. No specification uses
them; `PROJECT.json` pairs each with the property that notices it.

### BlockingPool

Variables are the fields of `BlockingPool` (`pool`, `count`, `cancelled` for the
context) plus each goroutine's program point and locals. One action per access
to shared memory: `GetFast` (first select), `LoadCount`, `CompareAndSwap`,
`NewItem`, `GetWait` (blocking select), `Retire` (`count.Add(-1)`),
`PutValidate`, `PutSend`. `Call` and `ReturnNil` are the callers: one `Get` for
a publish channel, up to ten with a sleep between them for a stream publisher
(`MaxTries`). `ItemFails` and `ItemReopened` are the broker closing a channel and
`ensureChannel` opening it again. `failed` is a history variable and counts the
constructors that returned nil.

Abstractions: the buffered channel is a set, since no property depends on the
order of items; what a caller does with its item is the interval between
`hold` and `PutValidate`.

`ItemPool` is what a user of the pool may rely on, with neither counter nor channel:
at most `Limit` items exist, each is idle or with one user, and an item is given up
only when it is broken or the client has left. The refinement mapping is the
identity on `pool`, `held`, `stale` and `cancelled`; `count`, the program points
and the failed constructors have no counterpart.

### BrokerSession

A *session* is one `BrokerDetails`. `connectionMap` and `connections` are the two
maps restricted to one client: clients share no entry, so one is enough. `link`,
`state`, `clientDisconnect`, `shutdown`, `notice`, `activeStreams`, `quiet` are
the fields of the session (`quiet`: `lastPubSubEvent` is older than the clean
interval); `relay` is the goroutine that copies the AMQP library's close
notification into `ErrorChannel`; `stray` counts open connections that
`bd.Connection` no longer names. Actors are RPC goroutines (`Callers`), publish
and consume streams (`Streams`), the cleaner, the trimmer and one watcher per
session. Every step between two accesses to shared state is an action: the
check and the later add of `brokerConnect`, the five steps of
`disconnectClientByIdentifier`, the three of `TrimConnectionList`, the watcher's
loop, select, retry loop and dial.

Abstractions: a dial of the RPC that fails leaves nothing behind, since the fresh
`BrokerDetails` is dropped; `waitWhileConnecting` does not appear, because only
one goroutine ever calls `connect()` of a session (the RPC before the watcher
exists, the watcher after).

A stream is counted step by step as the code does it: `WaitForConnect` counts it in
while it waits and out again when it returns, `Publish` and `Subscribe` look the
session up again and count it in a second time, `Subscribe` only after its set-up.
Between the two it is counted nowhere, and `StreamPoll` may wait for a newer session
while the stream is counted in the old one. `counted` is the session the deferred
decrement will go to; `late` is a history variable, the streams counted in since the
cleaner last read `ActiveStreams`.

### QueueDelivery

One client, its queue and the delay queue of `Retry`. The broker's side is
external and modelled by what the code relies on: a delivery stays outstanding
until its frame is read, comes back when its channel or connection goes, an
unknown tag closes the channel, an unrouted publish is confirmed and dropped.
`active` is `activeMessages`; `wire` holds the frames written and not read;
`job` is the goroutine `Consume` starts for one acknowledgement. `Ack`, `Nack`
and `DeadLetter` take the steps lookup, call, delete. `Retry` takes the steps
lookup, channel (under the lock), new channel, store (under the lock), check,
call and add of the queue, check, call and add of the binding, publish,
confirm, settle, delete; when it reports an error `Consume` calls `Nack`
(`NackLookup`). `ReconnectBegin` replaces the maps and holds the lock until
`ReconnectEnd` has stored the new connection.

Abstractions: one delay, so one delay queue and one binding; dead-lettering by
`Nack` counts as a decision about the message (`disposed`); the binding is made
before a publish on another channel arrives, although `QueueBind` does not wait
for the reply; the declaration of the exchange is taken to succeed; an open
subscription's loop is not stopped by a full gRPC stream.

### PublishStream

The handler `ProducerServer.Publish` works in rounds; `main` is its program
point, inside the provider's `Publish` too, which runs on the same goroutine. A
round starts a *reader*, the goroutine that receives from the client; `reader`
has one entry per round because the reader of a round may outlive it. Sends on
the unbuffered `messageChannel` and `errChan` are one step of both sides
(`PublishTake`, `PublishRefuse`, `PublishResult`, `Report`). The readers share
`msg` and `err`: `Recv` writes `msg`, `Prepare` reads it later, and `RecvEnd` and
`RecvMistaken` include the outcomes of the race on `err`. `open` belongs to the
connection on which this `Publish` has its channel: after a reconnect
`ensureChannel` opens no channel on the new one. `shared` is a history variable:
a round began while an earlier reader could still receive.

`PublishLog` is the promise to the client: its messages are published in their order
and at most once, each is answered at most once, and success means published, unless
two readers were mixed up. The mapping forgets readers, rounds, channels and
connections.

Abstractions: `connErrChan` and `cancelChan` are one slot `notice`; the state word
that `Publish` and `WaitForConnect` read may be out of date, so both answers are
possible; the declaration of the exchange, whose error the code ignores, is left
out; two readers that send at the same time send one after the other; the checks
before the loop (client identifier, provider) are taken to have succeeded; a
`Connect` may bring a connection back before a `Disconnect` has forgotten the
client.

### ConsumeStream

`main` is the handler, `receiver`, `sender` and `subscriber` its goroutines. A
turn of the loop makes a new unbuffered `recvChan` and a new receiver, and the
receiver is the only one that sends on it, so one receiver is enough; a send on
`recvChan` or `stopForLoop` is one step of both sides. `stopForLoop` is shared by
pointer and closed and set to nil by the deferred function while the goroutines
test it and send on it: test, second evaluation, send, close and store are steps
of their own (`StopSteps`, `Deferred`). `Deliver` and `Push` are the provider's
loop; a full `messageChannel` makes it wait. Panics of a send on a closed channel
are recovered in the goroutines and end them.

`MessageLine` is the promise to the client: one line, entered at its end, left at its
front, at most `Size` long, and cut off at the end of the stream only. The mapping
takes for the line what the sender holds, `messageChannel` and what the subscriber is
about to push (`InTransit`), so `Size` is the capacity of `messageChannel` plus two;
the line is cut when the sender fails or returns or the handler closes
`messageChannel`.

Abstractions: the checks before the loop are one choice; acknowledgements
(`Request` with any other message) have no effect here and are modelled in
`QueueDelivery` and `StreamConsumer`; `Subscribe` ends when the broker ends it or
its context is done (how it notices is `Subscription`).

### DeliveryWindow and StreamConsumer

`DeliveryWindow` says what a prefetch count means: deliveries enter in order, at
most `Size` of them are unsettled, each is settled once, and a new subscription
begins with an empty window. `StreamConsumer` is the code: the library's goroutine
that calls the message handler, the latch with its lock and condition, the
acknowledging goroutines with lookup, decrement, read of the offset, store and
delete, and the start offset of the next subscription. The refinement mapping
takes the deliveries of the current subscription between `Increment` and
`Decrement` for the window. `Increment` holds the lock from its tests until it is
on the waiting list (`entering` to `asleep`), so a `Decrement` cannot come in
between; the `Broadcast` of the context's `AfterFunc` takes no lock and can. The
counter is unsigned with `Word` values.

`Ack` and `Nack` give the slot of the latch back. `Retry` has no broker to give a
stream's message back to: it deletes the message from `activeMessages` and leaves the
slot taken. `DeadLetter` of a stream's message cannot be asked for, because `Consume`
uses it only for a source with the option `DeadLetterAddress`, which
`streamSubscribe` refuses (`amqp091.go:1251`).

Abstractions: a client answers a delivery once; the reading goroutine of Consume
is `Forward`; a set-up that fails leaves nothing behind.

### StreamPublisher

One key of `sc.publishers`. `genPublisherKey` makes it from the stream, the publisher
name and whether the message asks for confirmation, so one name has two keys and two
pools. The pool of the
key is looked up, made and added by `GetPublisher` in separate steps and looked up
again by `PutPublisher`; the pools behave as `BlockingPool` shows, the slot that a
constructor which returned nil keeps for ever included (`failed`). `GetPublisher`
tries again `MaxTries` times, ten in the code. `OnePool` says that
the callers together see one `ItemPool`, with the idle publishers of all pools of the
key, until a second pool is made. `Answer` is the
library's goroutine that moves a confirmation into the one-slot `pcChannel`;
`Interrupt` is the end of the caller's context while it waits; `Close` is the end
of the stream connection.

### The parts of MCServices

`RateLimiter`: `Limit` in its steps lookup (and construction), add, stamp, take a
token, beside the cull; every tick puts one token back. `ProviderRegistry`: lookup,
`NewProvider`, add, second lookup; `NewProvider`'s `sync.Once` is a local variable
and excludes nobody; `home` is the name under which a client's session was made and
the provider that holds it, since later requests ask for the name `connectionMap`
remembers. `HealthService`: Checks register, forward, leave;
`MonitorHealthChan` lists addresses, looks each up, sends; a send on a closed
channel is a crash. `ProcessStats`: limits are known, unlimited, unreadable;
averages are compared without division; `GetData` and the sum over what it returns are
recursive functions. `ServerLifecycle`: `Serve`, the signal
goroutine, the multiplexer's goroutine, `run`. `StreamBody`: a body is the
sequence of its sizes, one per layer of gzip, and how well it compresses is an
input. `SourceStats`: calls that open a consumer at "last", whose handler stores
offsets under one shared name, and read what is stored there.

`Declarations` and `Subscription`, described below, are two more parts. These nine
parts share no variable, so a behaviour of all of them is an
interleaving of one behaviour of each, and each property mentions one part only.
`MCServices` therefore runs one part per behaviour, chosen in `Init` from the constant
`Parts`, and leaves the others alone: the union of the state spaces instead of their
product.

### Declarations

Goroutines of one client that declare one address, its parent and one queue, each
with subjects of its own (`Agreed`: those that all of them name), and then clean up
bindings they do not know; a reconnect that replaces the caches; `loadExchanges` in
the background. A declarer is a subscriber, whose address may be auto-delete and have
a parent, or a `setupDeadLetter`, whose address has neither.

All requests go over the one standby channel. Exchanges and queues are declared with
an answer, which comes after everything sent before (`Answered`). `QueueBind` asks for
none: the request waits in `bindWire` until `BrokerBinds` comes to it, and its
goroutine goes on. The clean-up lists and deletes over HTTP and may overtake the binds
of its own declarer. With the last binding of its queues an auto-delete exchange goes;
a bind that arrives afterwards is refused, the channel closes, and what is behind it
on the wire is lost. `unheard` is a history variable: the declarers one of whose binds
was refused or lost. A request with an answer may fail at any time (`RequestFails`); the
refusal of an exchange with other arguments is ignored by the code, but closes the
channel too.

Abstractions: one queue and one address; bindings from the parent are made all at
once; the caches of queues and bindings are not consulted here (`force`), they are in
`QueueDelivery`; two `loadExchanges` at once are one.

### Subscription

The select of `queueSubscribe` with its one-slot channels `connErrChan` and
`cancelChan`, the goroutines of both `NotifyClose`, and the client library's
listeners, which deliver an error, if there is one, and are then closed. A connection
ends with an error (`ConnectionBreaks`) or cleanly, by the `Close` of
`disconnectClientByIdentifier` (`Disconnect`), which gives empty notices only and
leaves the session CONNECTED unless the watcher gets to it first. The watcher may
reconnect (`SessionReconnects`): the session is then CONNECTED again while the
channel of the subscription stays closed. A message takes the loop into its send on
`messageChannel` (`push`), where it stays until Consume takes the message or closes
the channel; the panic of a send on a closed channel is recovered (`PushPanics`).

Abstractions: what is delivered is in `QueueDelivery` and `ConsumeStream`; after the
channel has closed one message that was already on its way may still come
(`leftover`).

## 3. Runs

Passing runs:

| Run | Bounds | Shows |
|---|---|---|
| `pool` | 3 goroutines, 2 items, limit 1, 2 tries, validated items that go stale, constructors that fail, fairness | `Exclusive`, `ExactCount`, `ImplementsPool`; `GetReturns`: every Get returns, with two stated exceptions |
| `session_safety` | 1 caller, 1 stream, 2 sessions, the cleaner | `OneConnection`, `LossNoticed`, `NotHandedOut`, `EarlierStreamsSpared` |
| `session_recovery` | 1 caller, 1 stream, 1 session, cleaner and trimmer, fairness | `Recovers`, `StaleEntryTrimmed`, `CleanerKeepsRunning` |
| `delivery_safety` | 1 message, 3 copies, 4 deliveries, 2 connections, 2 subscriptions, cap 1, all kinds | `NoLoss`, `SettledOnce` |
| `delivery_stranded` | 1 message, 2 copies, 2 deliveries, 2 acknowledgements each, refused declarations | `NotStranded` |
| `publish_stream` | 4 messages (the first with Confirm, the last without a subject), 2 rounds, connection lost and closed, fairness | `SuccessMeansPublished`, `ImplementsLog`, `EveryMessageAnswered`, `StreamEnds` |
| `consume_stream` | 3 requests, 4 deliveries, a buffer of 1, fairness | `FailureReported`, `ImplementsLine`, `HandlerReturns`, `GoroutinesEnd` |
| `stream_consumer` | a stream of 3 messages, prefetch 2, Ack, Nack and Retry, 3 dispatches, 2 subscriptions, 2 acknowledging goroutines, every kind of start offset, reconnect, fairness | `LatchExact` (`TypeOK`, `CountExact`, `NoLostWakeup`), `ImplementsWindow`, `HandlerEnds` |
| `stream_publisher` | 2 callers of one key, limit 1, 2 tries, 3 messages, 2 publishers, constructors that return nil, fairness | `PublisherExclusive` (`TypeOK`, `OnePublisherPerKey`, `UsedByOne`), `OwnConfirmation`, `OnePool`, `PublishReturns` |
| `services` | six parts, one per behaviour; bounds below | by part: `OwnBucket` (`RefusedHadItsShare`, `OneBucket`); `ProviderUsable` (`ProviderNeverNil`, `SessionReachable`); `StatusFollowsWindow`; `BodyUnchanged`; `StatsWithinStream`; `KnownAddressExists`, `BindingsSettled` (`DeclTypeOK`, `SharedSubjectsBound`, `OldSubjectsGone`) |
| `services_liveness` | three parts, one per behaviour, fairness; bounds below | `RegistrationSound` (`NewestReachable`, `RegisteredIsOpen`), `GoAwayDelivered`; `ServeEnds`; `SubscriptionOver` (`SubscriptionEnds`, `CancelledReturns`, `NotifiersEnd`) |

A property in parentheses is a part of the one before it. Every invariant, every
refinement and the action property `OnePool` of these runs is also a theorem (section
5). `PoolBound`, `ForwardedInOrder` and `PublishedInOrder`, which the refinements of
their components contain, the type invariants, `PutNeverFull` and `WatcherStops` are
proved there without a run of their own.

Why the bounds are enough to matter. Pool: three goroutines over a limit of
one have two that race in the compare-and-swap while a third retires, holds or waits,
and two items let one be retired while another is made, or both exist if the limit
fails; `BlockingPoolProofs` has the safety properties for every limit. Session: two sessions are
needed for a client that reconnects while an old disconnect is under way, and
the cleaner is the second disconnecting actor; a session's connection may be
lost any number of times. Delivery: two connections put a reconnect between any
two steps of a retry, three copies allow a retry of a retry, and four deliveries
reach the delivery cap; two acknowledgements of one delivery race each other and
let the broker close the channel. Bounds on copies, connections, subscriptions
and deliveries are guards of the actions that consume them, and keep one
subscription in reserve so that the bound itself strands nothing. Publish: two
rounds are one old reader beside the current one, three good messages let each
of them hold one while a third is published, and a message with Confirm has a
second result that meets the next message. Consume: four deliveries over a
buffer of one are one with the sender, one in the channel, one that waits to be
pushed, the longest line there can be, and one that finds it full; the client's
requests are sources, repeated sources and others in any order. Stream
consumer: a prefetch of two lets two acknowledgements overlap while a third message
waits for the latch, and two subscriptions let late acknowledgements meet the next
latch. Stream publisher: two callers of a pool with one publisher are one that has
it and one that waits, makes a second pool, or inherits a late confirmation.

Services: two goroutines of the rate limiter that serve one client at once and a
second client, with a bucket of one, three requests and a tick, so that a bucket is
emptied, refilled and culled; two clients whose first calls overlap in the
registry; two Checks of one address and one of another with two scaling events;
four samples over a window of two; two callers of
source statistics on a stream that grows to two messages; bodies below, at and
above the limit with any compressed size. Lifecycle
needs no bounds, and `Subscription` only `leftover`.

Declarations: two declarers are one that cleans up while the other binds; they have
one subject in common and one apart, and the queue starts with an old one, so that a
clean-up can remove the other's subject, or the last binding before its own arrives;
any request may fail, and the connection is lost once.

Deadlock is checked for the pool. It is off where the instance's bounds really
end a run (sessions used up, deliveries used up, a Publish that has returned).

One run shows a disagreement between the code and what it says of itself
(`findings` in `PROJECT.json` quotes the lines): in `delivery_retry_lost` `NoLoss` is
violated, because a connection lost while the delay queue is declared leaves the
queue in the cache of the next connection; the next retry is published nowhere,
confirmed, and the original acknowledged (`amqp091.go:802`).

Some properties hold only with an exception that their definition states; where the
code has a comment that says otherwise it is quoted. The exceptions, and other
behaviour met while modelling, are listed for maintainers.

Pool, sessions and delivery:

* When `New` returns nil the slot it was to fill is never given back; when all slots
  are gone the retry loop of `GetPublisher` waits in its next `Get` until the client
  disconnects (`blocking_pool.go:53`; `Starved`, the exception of `GetReturns` and of
  `PublishReturns`).
* A disconnect during the watcher's dial closes the old connection; the dial then
  stores a new one that nobody closes (`amqp091.go:1425`).
* `shutdownChan` has one slot and one reader. When the watcher has left and a
  disconnect has filled the slot, the cleaner blocks in the next one and cleans no
  client any more (`amqp091.go:1423`; the exception of `CleanerKeepsRunning`).
* `Put` retires a stale item while a `Get` waits; the waiter looks only at the
  channel and the context and is not told that it may allocate
  (`blocking_pool.go:61`). If no other item exists it waits until somebody else comes
  (`Starved` too: this happens although every constructor succeeds). The other
  exception of `GetReturns` is a broker that goes on closing channels for ever.
* Two concurrent Connect RPCs of one client both pass the check of
  `connectionMap`, both connect, and the second session replaces the first in
  `prov.connections` (`server.go:687`).
* A Connect that finds the client in `connectionMap` answers success although the
  cleaner may have removed the session.
* The cleaner may disconnect a client whose stream is just starting, or is between
  the count of `WaitForConnect` and that of `Publish` or `Subscribe`
  (`cleaner.go:37`; "if a client has 0 active streams", `cleaner.go:17`, is true of the
  moment of its look only). `EarlierStreamsSpared` says how far this goes: whoever it
  cuts off was counted in only after it had looked.
* A disconnect that is under way when the client connects again deletes the newer
  session from `prov.connections` (`amqp091.go:1432`); `NotHandedOut` allows it.
* When `Retry` fails `Consume` nacks without requeue, so the message goes to the
  dead-letter exchange or is dropped.
* A retry that opened its channel before a reconnect stores it afterwards, and
  every later retry is then requeued without its delay.
* When the provider's `Publish` returns nil while its reader is alive (a clean
  close, or a connection lost before `NotifyClose`), the next round has two
  readers that receive. A reader may then offer the other one's message and
  report success for its own, which nobody published, or return with a message
  it never answers (`server.go:454`). `SuccessMeansPublished`, and
  `EveryMessageAnswered` at the end of the stream, are claimed only without such
  a pair.
* A message with Confirm is answered with an error and published all the same;
  its second result is then taken for the failure of the next message
  (`amqp091.go:1517`).
* When the reader of a round has returned (end of the stream, timer) the provider's
  error, or the second result of a message with Confirm, is sent on `errChan` for
  ever (`server.go:546`, `amqp091.go:1518`; the exception of `StreamEnds`).

Consume and streams:

* A goroutine of Consume that tests `stopForLoop` before the deferred function sets
  it to nil and evaluates it again afterwards sends on a nil channel for ever
  (`server.go:289`; the exception of `GoroutinesEnd`).
* A subscription does not return after a Disconnect: its clean close gives empty
  notices while the session is still CONNECTED, and the loop goes on
  (`amqp091.go:1426`; "so this was expected", `amqp091.go:1167`, is not reached). Nor
  does it after the error of a channel whose empty cancel notice was taken first, with
  which the goroutine and its timer are gone (`amqp091.go:1166`; "to prevent a
  deadlock", `amqp091shim.go:385`); nor when the channel or
  the consumer ended before `NotifyClose` registered its listeners and the notice was
  empty, or a cancelled consumer's notice was overtaken by a Disconnect; nor while its
  client takes no messages (`Stalled`). `SubscriptionEnds` states each of them; the end
  of the client's own stream ends the subscription in all of them
  (`CancelledReturns`). An error may also be reported as an expected end.
* The channel that `amqp091Channel.Consume` returns is never closed, and its
  forwarding goroutine can stay blocked on the full channel.
* The context's `Broadcast` can come between the test and the `Wait` of `Increment`;
  the handler then sleeps until an acknowledgement (`blocking_latch.go:91`; the
  exception of `HandlerEnds`).
* Two acknowledgements of one stream delivery both pass the lookup and decrement
  twice; a reconnect of the AMQP connection empties `activeMessages`, and the stream
  deliveries in it can no longer be acknowledged and keep their place in the latch
  (`amqp091.go:1968`). A retried delivery keeps it too (`amqp091.go:331`), and after as
  many retries as the prefetch count the consumer gets nothing more; `LatchExact`
  counts both as taken.
* The message handler of a stream sends on `messageChannel` after Consume has closed
  it and panics on a goroutine that nobody recovers (`amqp091.go:1378`).
* `Ack` of a stream stores the offset the consumer has reached, not that of the
  acknowledged message, so "continue" can skip messages that were dispatched and not
  acknowledged (`amqp091.go:1361`, `streamhelpers.go:105`).
* Messages with and without Confirm of one publisher name have two keys, two pools and
  two publishers, without any race (`streamshim.go:169`; "The broker only supports one
  publisher per publisherName", `streamshim.go:142`). `OnePublisherPerKey` is claimed
  per key.
* Two first publishes of one key make two pools; the publisher of one may
  go back to the other, where a waiter of the first does not see it
  (`streamshim.go:150`; the exception `raced` of `OnePublisherPerKey`, `OnePool` and
  `PublishReturns`).
* A caller whose context ends while it waits for its confirmation puts the publisher
  back, and the late confirmation answers the next message (`amqp091.go:1709`; the
  exception of `OwnConfirmation`).
* A body over the limit that its producer has marked as gzip is compressed again and
  loses its mark at the consumer (`compression.go:44`; the exception of
  `BodyUnchanged`).
* `LastOffset` of source statistics may be out of date, and `CurrentOffset` 0 also
  means that nothing was ever stored (`amqp091.go:1770`, `streamshim.go:290`).

Services and declarations:

* A Check that leaves after `MonitorHealthChan` has looked its channel up and before
  it sends makes the send panic, or block until it closes (`server.go:783`). A Check
  that was replaced is never notified. Its receiver and its loop may call
  `stream.Send` at the same time (`server.go:840`).
* Two overlapping first calls of `GetProvider` create two providers; a session that
  lives in the first is not found later (`provider.go:101`; the exception of
  `SessionReachable`).
* Overlapping first requests of a client, and the cull, replace a limiter by a full
  one (`ratelimiter.go:133`; the exception of `OneBucket`). The identifiers of
  clients are never removed.
* Two declarers of one queue remove each other's subjects (`amqp091.go:1019`), and if
  they have none in common the last binding of an auto-delete address, which then
  goes although both caches name it (the condition of `KnownAddressExists`); the
  clean-up runs also after a bind that failed; a parent address is remembered
  although its declaration failed (`amqp091.go:711`).
* A bind that is refused or lost is noticed by nobody (`amqp091shim.go:278`), and an
  exchange can go with the last old binding while the binds of its declarer are on
  their way; the cache still names it, and a declarer is through without an error
  although nothing it named is bound, a `DeclareOnly` too, whose use is "to ensure
  queues, bindings, or stream consumer structures exist"
  (`doc/design/client-publish-consume.md:305`). `KnownAddressExists` and
  `SharedSubjectsBound` are claimed when every bind was heard (`AllHeard`).
* The goroutine of the multiplexer has no receiver for an error after `Serve` has
  returned; a certificate that cannot be loaded leaves a plain listener
  (`arke.go:264`).

## 4. Fairness

* Pool: weak fairness of every goroutine's next step (Go schedules runnable
  goroutines) and strong fairness of the blocking select, because Go hands a
  sent value to the longest waiting receiver. Nothing obliges a caller to call,
  a channel to fail, or a client to disconnect. A caller that holds an item
  puts it back: `Put` is deferred, and a publish ends with the broker's
  confirmation or with its channel. A broker that stays connected and never
  confirms would hold the item, since `dc.Wait()` has no deadline; that broker
  is outside the assumption.
* Session: weak fairness of every goroutine and of the tickers and timers;
  strong fairness of a successful dial, that is, a broker dialled again and
  again accepts at some time. No client must call and no connection must break.
* Delivery: safety only.
* Publish: weak fairness of the handler and of every reader, that is, goroutines
  that can run do, a timer expires, and `Recv` returns once the stream has ended.
  The client need neither send nor end the stream, and the broker need neither
  break nor come back.

* Consume: weak fairness of the handler and of each goroutine; `Recv` returns once
  the stream is over, `Subscribe` once its context is done. The client need not send
  or end, and the broker need not deliver or break.
* Stream consumer: weak fairness of the handler, the `AfterFunc` and the close of
  Consume's channel; no client must acknowledge.
* Stream publisher: weak fairness of the callers, strong fairness of a waiting `Get`
  as for the pool, and an answer to every message, if only the timeout of the client
  library. No caller must give up.
* Health and lifecycle: weak fairness of the monitor and of each Check, of `Serve`, its signal
  goroutine and a multiplexer whose listener is closed. No client, event or signal
  is obliged to do anything.
* Subscription: weak fairness of its goroutines, the timer of the channel's notifier
  included, and of Consume's close of `messageChannel` once its context is done; strong
  fairness of the cases of the select that are no message, taken together, because Go
  chooses among the ready ones at random, so that messages which keep coming cannot
  keep the loop from a notice. No client must take its messages, and no broker must do
  anything.
* The other parts of `MCServices`: safety only.

## 5. Proofs

`BlockingPoolProofs`, from `PoolAssumption` (finitely many goroutines, goroutines
and items disjoint, limit a natural number), for any number of goroutines and
items and any limit:

* `PoolTyped`, `PoolIsBounded`, `PoolIsExclusive`, `PutFindsRoom`,
  `CountIsExact`: the invariants `TypeOK`, `PoolBound`, `Exclusive`,
  `PutNeverFull`, `ExactCount`.

The bound is not inductive: it says nothing of goroutines between the
compare-and-swap and the end of `New`. The inductive invariant `IInv` charges
every idle item, every item in use and every such reservation to a slot and says
that there are at most `count` of them, and exactly `count - failed` until the
client disconnects (`Slots`), that program points agree with the item held
(`Points`), and that nothing is shared (`Exclusive`). The equality needs
`RoomForPut`: a full channel in `Put` would drop an item that stays counted.
After a disconnect only the bound is left, because `Put` then drops items.
Lemmas state what a receive and a release do to the set of charged slots.

* `PoolImplemented`: `ImplementsPool`. `NewItem` is allowed because its reservation is
  a charged slot that is no item (`RoomForNew`); the failing branch of `Put` maps to a
  discard after a disconnect, since the full channel is excluded by `RoomForPut`; and
  the step that retires an item maps to a discard of a broken one, which needs
  `Doomed`: what `Validate` found stale is still stale when it is retired, though the
  test and the retirement are two steps, because only its user can reopen it.

`BrokerSessionProofs`, from `SessionAssumption` (actors distinct), for any
number of callers, streams and sessions, with and without the cleaner and the
trimmer:

* `SessionTyped`, `SessionHasOneConnection`, `NoLossOverlooked`,
  `WatcherStopsForClient`, `DisconnectedNotHandedOut`, `CleanerSparesEarlierStreams`:
  the invariants `TypeOK`, `OneConnection`, `LossNoticed`, `WatcherStops`,
  `NotHandedOut`, `EarlierStreamsSpared`.

The inductive invariant relates, for each session, the watcher's program point to
the state of its connection (a watcher that dials has a closed connection; a
watcher in its retry loop has a session that is not connected), says that a
goroutine at a point that dereferences its session has one, that a session held
by a connecting RPC is not yet watched and not held by another, and that whoever
has sent the shutdown signal has set `clientDisconnect` before. One lemma per
group of actions shows that it is kept. `NotHandedOut` has an invariant of its
own on top of it, `Handed`: only a registered session can be in the map, marked,
or in the hands of a goroutine that disconnects it, so a session that is being
registered cannot have been marked before.

`EarlierStreamsSpared` needs two more. `Counted`: the streams counted in a session are
finitely many and `activeStreams` is their cardinality, so a cleaner that reads 0 sees
a session with none. `Spared`: streams are counted only in sessions that are
registered, so a session that is put into the map after the cleaner's read has none,
and whatever is counted in the session the cleaner is about to look up, or has looked
up, came after that read.

`QueueDeliveryProofs`, from `DeliveryAssumption` (kinds of acknowledgement, natural
bounds), for any messages, copies, deliveries, subscriptions, connections and
delivery cap:

* `NothingIsStranded`: `NotStranded`, with any number of racing acknowledgements of
  one delivery and with refused declarations.
* `SettledOnlyOnce`: `SettledOnce` under the hypothesis `OneRequest`, a client that
  acknowledges a delivery at most once. Two acknowledgements of one delivery both
  pass the lookup and both write a frame, so it cannot be dropped;
  `delivery_safety` has one acknowledgement, `delivery_stranded` two.
* `NothingIsLost`: `NoLoss` under the hypothesis `Reliable`, the delay queue exists
  and no declaration is refused. Both halves are needed: `delivery_retry_lost` loses
  a message through a delay queue that is only in the cache, and after a refused
  declaration `Consume` rejects the message.

The inductive invariant says that what the broker waits for belongs to an open
channel of a connection that is up, and that a connection that is not up is not
the last one (`Outstanding`: a lost connection forgives every frame that was not
written, and one can still be made); that an entry is deleted only after its
settlement was written (`Deleting`); that a copy is carried by one delivery
(`Carried`); that a delivery on its way to the client, or with a goroutine that has
not settled it, has no frame on the wire (`Once`); and that every message not
disposed of has a *safe* copy, one the broker keeps and nothing on its way will
settle for good (`SafeCopies`). The hard step is a retry that fails: `Consume` then
rejects the original. `RetryFailsLate` says that whatever makes `Retry` fail has
closed the channel of the delivery before, so that the reject cannot arrive.

`StreamConsumerProofs`, from `StreamAssumption` (a non-empty stream, a prefetch
of at least one that fits into the counter's word), for any length, prefetch,
buffer and number of subscriptions and acknowledging goroutines:

* `LatchIsExact`: `LatchExact`, so the counter is exact, never wraps, and no wake-up
  is lost.
* `WindowImplemented`: `ImplementsWindow`; the initial state maps to an empty window
  and every step to a step of `DeliveryWindow` or to a stutter. `DeliveryWindow` has
  no fairness, so this is the whole refinement.

That `Decrement` finds its delivery counted is not inductive. The invariant adds that
from the `Increment` on a delivery has one owner at a time, the handler,
`messageChannel`, the client or one goroutine (`Owned`), that deliveries are numbered
as they are dispatched (`Numbered`), and what the handler's point says of the
delivery it works on and of the counter while it sleeps (`AtHandler`).

`StreamPublisherProofs`, from `PublisherAssumption` (finitely many callers, a
positive limit):

* `KeyPublishersAreExclusive`: `PublisherExclusive`.
* `ConfirmationsAreOwn`: `OwnConfirmation`.

Pools are counted against the callers between the failed lookup and the add
(`PoolsCounted`), publishers against the first pool until a second one is made
(`MadeCounted`); what a publisher has in flight, in the library or in `pcChannel`,
is the message of the caller that awaits it (`OwnAnswers`), as long as nobody gave up.

* `PublishersShareOnePool`: `OnePool`, for every limit. With one pool its count is the
  number of publishers made (`OnlyPool`), so a new publisher is below the limit, and the
  pool that `PutPublisher` looks up has room for the one it brings: none is closed
  before the client disconnects.

`ConsumeStreamProofs`, from `ConsumeAssumption` (natural bounds, a buffer of at least
one):

* `ForwardedInOrderAlways`: `ForwardedInOrder`.
* `FailuresAreReported`: `FailureReported`.

The numbers of the messages follow the line they stand in, the client, the sender's
hands, `messageChannel`, the subscriber about to push (`InLine`); the error follows
`returnError` from the goroutine that fails to the operand of `return` (`ErrorKept`).

* `LineImplemented`: `ImplementsLine`. A delivery enters, a send to the client leaves,
  and the moves between subscriber, channel and sender keep the length of the line
  (`LineStutters`). The failure of the sender and the close of the channel cut it
  (`LineIsCut`), and nothing enters afterwards; `InLine` says that the message the
  sender holds is the one after the last sent.

`PublishStreamProofs`, from `PublishAssumption` (natural bounds):

* `PublishedInOrderAlways`: `PublishedInOrder`, also with two readers.
* `SuccessAlwaysMeansPublished`: `SuccessMeansPublished`.

Only the reader of the current round can hand over a message, and what it holds is
later than all that was published and than what the provider works on, because `msg`
never goes back (`InOrder`). While `msg` has one reader, what it received is what it
hands over and gets the result of (`OwnMessage`).

* `LogImplemented`: `ImplementsLog`, for any number of rounds. That no message is
  answered twice, not even with two readers, needs `OneOwner`: a message received
  belongs to one reader until that reader answers it, and to none afterwards.

`ServicesProofs`, about the parts of `MCServices`, each from the assumption of its
module and for its own initial states and steps
(`HealthInit /\ [][HealthNext]_healthVars`, and so on):

* `RegistrationIsSound`: `RegistrationSound`; a registration is that of the newest
  Check of its address and of a Check that has not closed its channel.
* `ProviderIsUsable`: `ProviderUsable`; a call past the add finds a provider, and until
  two calls overlapped each name has one creator and one provider.
* `StatsAreWithinStream`: `StatsWithinStream`; offsets on their way, those of the
  handler that is about to store included, are offsets the stream has.
* `KnownAddressesExist`, `BindingsAreSettled`: `KnownAddressExists`,
  `BindingsSettled`. A clean-up never removes a subject of its own declarer, so the
  subjects that all name stay once they are bound. What a declarer has sent is bound,
  on the wire, or counted as unheard (`Sent`, `WireKept`), and the exchange can go
  under its declarers only while such a bind is on the wire, which is then refused.
* `BodiesUnchanged`: `BodyUnchanged`; the invariant relates a body on the wire to
  the one written.
* `BucketsAreOwn`: `OwnBucket`; no two keys hold one limiter (`OneOwner`), a limiter
  lacks only what requests of its key took (`Share`), and a key that was never
  renewed has one limiter (`Single`).
* `StatusFollowsSamples`: `StatusFollowsWindow`, for every size of the window and any
  samples; the slots of a ring are the samples taken last, in an order that the next
  slot determines (`RingHolds`). What `GetData` and the sum compute for a ring of any
  size is an induction over the slots. The library's induction theorems take an
  operator, which the provers cannot instantiate; `CountingUp` states induction for a
  *set* of numbers instead and is proved from the least element of its complement
  (`SmallestElement`, from the library's `WFMin`).

TLC has also checked every inductive invariant, with the bounds of the runs of its
component.

The proofs corrected the model in two places. A request for the provider of a
session took any name, with which `SessionReachable` is not inductive; the code asks
for the name that `connectionMap` remembers, and `home` now holds it. And
`KnownAddressExists` was stated without `Agreed # {}`; without a common subject it is
false, which is behaviour of the code and listed in section 3. Assumptions that the
proofs needed and the code satisfies were added: a stream has room for a message, and
there are a name, a client and a declarer.

Only model-checked:

* The liveness properties, which are beyond the prover: `GetReturns`, `Recovers`,
  `StaleEntryTrimmed`, `CleanerKeepsRunning`, `EveryMessageAnswered`, `StreamEnds`,
  `HandlerReturns`, `GoroutinesEnd`, `HandlerEnds`, `PublishReturns`,
  `GoAwayDelivered`, `ServeEnds`, `SubscriptionOver`.

## 6. Not modelled

* Metrics, tracing, logging and messages: no behaviour depends on their state. (The
  stream interceptor of the metrics counts a stream twice; nothing reads it back.)
* Generated protocol code, the load tool and the examples.
* Options of `pkg/arke` that fill in fields, TLS configuration, command-line flags.
* `WaitForEmpty`, `SetMax`, `GetMax` of the latch and `GetMostRecent` of the ring
  buffer have no caller.
* The order in which the broker handles the `QueueBind` of a retry and its publish on
  another channel (`amqp091shim.go:278`; `QueueDelivery` takes the bind to arrive
  first). Binds against the clean-up are in `Declarations`.

## 7. Plan

Every safety property of the runs is a theorem. What is worth adding, in this order:
an abstract specification of what a delivery promises (kept, settled, delivered
again) implemented by `QueueDelivery`, from `SafeCopies` and `Once`; one of a session
(connected, lost, gone) implemented by `BrokerSession`, from which the RPCs could take
the outcomes of `WaitForConnect`; that `SessionReachable`, `OneBucket` and
`OwnConfirmation` fail only through the one overlap each of them names, as action
properties; step properties of `Subscription` and `ServerLifecycle`, whose liveness
stays with TLC.
