----------------------------- MODULE SourceStats -----------------------------
(***************************************************************************)
(* SourceStats and SourceStatsGroup (server.go) for a stream: the provider *)
(* (amqp091.go) asks the broker for the stored offset of the consumer      *)
(* group and for the end of the stream.  For the latter GetStreamOffset    *)
(* (streamshim.go) opens a consumer at "last" whose handler stores the     *)
(* offsets it sees under one name, the same for all callers, and reads     *)
(* the offset stored under that name at once, whoever stored it.           *)
(*                                                                         *)
(* The statistics that the management interface gives are passed on as     *)
(* they are; of those only the failure of the request is kept.             *)
(***************************************************************************)
EXTENDS Integers

CONSTANTS
    Askers,     \* calls of SourceStats
    MaxLength   \* bound: messages in the stream

ASSUME SourceStatsAssumption == MaxLength \in Nat \ {0}

VARIABLES
    length,      \* messages in the stream
    consumed,    \* stored offset of the consumer group, -1 for none
    lastStored,  \* stored offset of arkeSourceStatsConsumer, -1 for none
    asker        \* a call: point, the consumer's next offset, the statistics so far

sourceVars == <<length, consumed, lastStored, asker>>

Offsets0 == -1..(MaxLength - 1)
NoCallYet == [pc |-> "idle", at |-> 0, current |-> 0, last |-> 0, error |-> FALSE]

SourceTypeOK ==
    /\ length \in 0..MaxLength /\ consumed \in Offsets0 /\ lastStored \in Offsets0
    /\ asker \in [Askers -> [pc : {"idle", "request", "current", "open", "query", "close",
                                   "done"},
                             at : 0..MaxLength, current : 0..(MaxLength - 1),
                             last : 0..(MaxLength - 1), error : BOOLEAN]]

SourceInit ==
    /\ length = 0 /\ consumed = -1 /\ lastStored = -1
    /\ asker = [a \in Askers |-> NoCallYet]
-----------------------------------------------------------------------------
\* SourceStats: without an address, a provider, a session or a stream connection
\* the call ends with an error.
AskStats(a) ==
    /\ asker[a].pc = "idle"
    /\ \/ asker' = [asker EXCEPT ![a].pc = "request"]
       \/ asker' = [asker EXCEPT ![a].pc = "done", ![a].error = TRUE]
    /\ UNCHANGED <<length, consumed, lastStored>>

\* getStreamOrQueueStats: an answer of the management interface that cannot be read
\* ends the call; the error of a readable one is reported after the offsets.
RequestStats(a) ==
    /\ asker[a].pc = "request"
    /\ \/ \E err \in BOOLEAN :
             asker' = [asker EXCEPT ![a].pc = "current", ![a].error = err]
       \/ asker' = [asker EXCEPT ![a].pc = "done", ![a].error = TRUE]
    /\ UNCHANGED <<length, consumed, lastStored>>

\* updateCurrentOffsetStat: an error, also the one of a group that has stored
\* nothing, is ignored and leaves 0.  A single active consumer without a group is
\* an error, and the statistics go on.
updateCurrentOffsetStat(a) ==
    /\ asker[a].pc = "current"
    /\ \/ asker' = [asker EXCEPT ![a].pc = "open",
                                 ![a].current = IF consumed = -1 THEN 0 ELSE consumed]
       \/ asker' = [asker EXCEPT ![a].pc = "open", ![a].error = TRUE]
    /\ UNCHANGED <<length, consumed, lastStored>>

\* GetStreamOffset: NewConsumer at "last".
OpenAtLast(a) ==
    /\ asker[a].pc = "open"
    /\ \/ asker' = [asker EXCEPT ![a].pc = "query",
                                 ![a].at = IF length = 0 THEN 0 ELSE length - 1]
       \/ asker' = [asker EXCEPT ![a].pc = "done", ![a].error = TRUE]
    /\ UNCHANGED <<length, consumed, lastStored>>

\* Slip: the offset of the message that comes next is stored.
StoreNext(a) ==
    /\ asker[a].pc \in {"query", "close"} /\ asker[a].at < length
    /\ lastStored' = asker[a].at + 1
    /\ asker' = [asker EXCEPT ![a].at = @ + 1]
    /\ UNCHANGED <<length, consumed>>

\* Its handler, on a goroutine of the library: StoreOffset for every message.
StoreSeen(a) ==
    /\ asker[a].pc \in {"query", "close"} /\ asker[a].at < length
    /\ lastStored' = asker[a].at
    /\ asker' = [asker EXCEPT ![a].at = @ + 1]
    /\ UNCHANGED <<length, consumed>>

\* GetConsumerOffset: an error as long as nothing is stored.
QueryLast(a) ==
    /\ asker[a].pc = "query"
    /\ asker' = [asker EXCEPT ![a].pc = "close",
                              ![a].last = IF lastStored = -1 THEN 0 ELSE lastStored,
                              ![a].error = @ \/ lastStored = -1]
    /\ UNCHANGED <<length, consumed, lastStored>>

\* cons.Close(), deferred, and the answer.
CloseConsumer(a) ==
    /\ asker[a].pc = "close"
    /\ asker' = [asker EXCEPT ![a].pc = "done"]
    /\ UNCHANGED <<length, consumed, lastStored>>

\* The same client asks again, or the next source of a group follows.
AskAgain(a) ==
    /\ asker[a].pc = "done"
    /\ asker' = [asker EXCEPT ![a] = NoCallYet]
    /\ UNCHANGED <<length, consumed, lastStored>>

\* Producers and the consumer group go on meanwhile.
StreamGrows ==
    /\ length < MaxLength
    /\ length' = length + 1
    /\ UNCHANGED <<consumed, lastStored, asker>>

GroupAdvances ==
    /\ consumed < length - 1
    /\ consumed' = consumed + 1
    /\ UNCHANGED <<length, lastStored, asker>>

SourceNext ==
    \/ \E a \in Askers :
          \/ AskStats(a) \/ RequestStats(a) \/ updateCurrentOffsetStat(a) \/ OpenAtLast(a)
          \/ StoreSeen(a) \/ QueryLast(a) \/ CloseConsumer(a) \/ AskAgain(a)
    \/ StreamGrows \/ GroupAdvances
-----------------------------------------------------------------------------
\* Although callers share the name under which the end of the stream is stored and
\* overwrite each other's offsets, what SourceStats reports without an error are
\* offsets the stream has: neither runs ahead of it (GetStreamOffset).
StatsWithinStream ==
    /\ SourceTypeOK
    /\ \A a \in Askers : asker[a].pc \in {"close", "done"} /\ ~asker[a].error =>
          asker[a].last < length /\ asker[a].current < length
=============================================================================
