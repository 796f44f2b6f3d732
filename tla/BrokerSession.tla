---------------------------- MODULE BrokerSession ----------------------------
(***************************************************************************)
(* The life of one client's connection to the broker, as the gRPC server   *)
(* (internal/server/server.go) and the AMQP provider                       *)
(* (internal/provider/connectors/amqp091) keep it between them:            *)
(*                                                                         *)
(*   - connectionMap, the server's record that the client is connected;    *)
(*   - prov.connections, the provider's record of the client's             *)
(*     BrokerDetails (called a session here);                              *)
(*   - per session, the AMQP connection, the state word, clientDisconnect, *)
(*     shutdownChan, ErrorChannel and the goroutine connectionWatcher.     *)
(*                                                                         *)
(* The goroutines that touch them are the Connect and Disconnect RPCs of   *)
(* the client (Callers), its publish and consume streams (Streams), the    *)
(* provider's connectionCleaner, the server's TrimConnectionList and one   *)
(* watcher per session.  Clients share no entry of either map, so one      *)
(* client is enough.  A dial takes time: other goroutines run during it.   *)
(***************************************************************************)
EXTENDS Integers, FiniteSets

CONSTANTS
    Callers,      \* goroutines serving Connect and Disconnect RPCs
    Streams,      \* goroutines serving Publish and Consume RPCs
    Sessions,     \* BrokerDetails objects; bounds the successful Connects
    MaxRetries,   \* MAX_CONNECT_RETRIES of brokerConnect
    WithCleaner,  \* whether connectionCleaner runs in this instance
    WithTrim,     \* whether TrimConnectionList runs in this instance
    Cleaner,      \* the cleaner goroutine
    None          \* no session

ASSUME SessionAssumption ==
    /\ None \notin Sessions
    /\ Cleaner \notin Callers \cup Streams
    /\ Callers \cap Streams = {}
    /\ MaxRetries \in Nat \ {0}
    /\ WithCleaner \in BOOLEAN /\ WithTrim \in BOOLEAN

VARIABLES
    connectionMap,    \* the client has an entry in the server's map
    connections,      \* the client's entry in prov.connections
    trim,             \* program point of TrimConnectionList
    pc,               \* program point of every RPC goroutine and the cleaner
    ref,              \* the session such a goroutine holds a pointer to
    tries,            \* connectTry of brokerConnect
    link,             \* bd.Connection: "none", "open" or "closed"
    stray,            \* open connections that bd.Connection no longer names
    state,            \* bd.state
    clientDisconnect, \* bd.clientDisconnect
    shutdown,         \* bd.shutdownChan (capacity 1) holds a value
    relay,            \* the NotifyClose goroutine has yet to pass the error on
    notice,           \* bd.ErrorChannel (capacity 1) holds a value
    watcher,          \* program point of bd.connectionWatcher
    activeStreams,    \* bd.ActiveStreams
    quiet,            \* bd.lastPubSubEvent is older than cleanInterval
    counted,          \* the session a stream's deferred decrement will go to
    late              \* history: streams counted since the cleaner last looked

serverVars  == <<connectionMap, trim>>
linkVars    == <<link, stray, relay, notice, state>>
closeVars   == <<clientDisconnect, shutdown>>
streamVars  == <<activeStreams, quiet, counted, late>>
vars == <<connectionMap, connections, trim, pc, ref, tries, link, stray, state,
          clientDisconnect, shutdown, relay, notice, watcher, activeStreams,
          quiet, counted, late>>

Actors == Callers \cup Streams \cup {Cleaner}

\* Points of disconnectClientByIdentifier, shared by the RPC and the cleaner.
Disconnecting == {"lookup", "mark", "signal", "close", "forget"}

Points ==
    Disconnecting \cup
    {"idle",
     "already", "dial", "register", "record",              \* brokerConnect
     "unrecord",                                           \* brokerDisconnect
     "find", "begin", "waitConnect",                       \* WaitForConnect
     "call", "setup", "running"}                           \* Publish, Subscribe

WatcherPoints ==
    {"none", "top", "select", "exited",
     "retry", "errEnter", "errDial",      \* after a receive on ErrorChannel
     "timerEnter", "timerDial"}           \* after the 30 second fallback

TypeOK ==
    /\ connectionMap \in BOOLEAN
    /\ connections \in Sessions \cup {None}
    /\ trim \in {"idle", "listed", "delete"}
    /\ pc \in [Actors -> Points]
    /\ ref \in [Actors -> Sessions \cup {None}]
    /\ tries \in [Callers -> 0..MaxRetries]
    /\ link \in [Sessions -> {"none", "open", "closed"}]
    /\ stray \in [Sessions -> Nat]
    /\ state \in [Sessions ->
                    {"DISCONNECTED", "CONNECTED", "CONNECTING", "CLOSED"}]
    /\ clientDisconnect \in [Sessions -> BOOLEAN]
    /\ shutdown \in [Sessions -> BOOLEAN]
    /\ relay \in [Sessions -> BOOLEAN]
    /\ notice \in [Sessions -> BOOLEAN]
    /\ watcher \in [Sessions -> WatcherPoints]
    /\ activeStreams \in [Sessions -> Int]
    /\ quiet \in [Sessions -> BOOLEAN]
    /\ counted \in [Streams -> Sessions \cup {None}]
    /\ late \subseteq Streams

Init ==
    /\ connectionMap = FALSE
    /\ connections = None
    /\ trim = "idle"
    /\ pc = [a \in Actors |-> "idle"]
    /\ ref = [a \in Actors |-> None]
    /\ tries = [c \in Callers |-> 0]
    /\ link = [b \in Sessions |-> "none"]
    /\ stray = [b \in Sessions |-> 0]
    /\ state = [b \in Sessions |-> "DISCONNECTED"]
    /\ clientDisconnect = [b \in Sessions |-> FALSE]
    /\ shutdown = [b \in Sessions |-> FALSE]
    /\ relay = [b \in Sessions |-> FALSE]
    /\ notice = [b \in Sessions |-> FALSE]
    /\ watcher = [b \in Sessions |-> "none"]
    /\ activeStreams = [b \in Sessions |-> 0]
    /\ quiet = [b \in Sessions |-> FALSE]
    /\ counted = [s \in Streams |-> None]
    /\ late = {}

Goto(a, point) == pc' = [pc EXCEPT ![a] = point]
WatcherGoto(b, point) == watcher' = [watcher EXCEPT ![b] = point]
SetState(b, s) == state' = [state EXCEPT ![b] = s]

\* conn.Connect() succeeded: bd.Connection, a new ErrorChannel, CONNECTED.  A
\* notification still on its way goes to the channel that was replaced.
Establish(b) ==
    /\ link' = [link EXCEPT ![b] = "open"]
    /\ stray' = [stray EXCEPT ![b] = IF link[b] = "open" THEN @ + 1 ELSE @]
    /\ relay' = [relay EXCEPT ![b] = FALSE]
    /\ notice' = [notice EXCEPT ![b] = FALSE]
    /\ SetState(b, "CONNECTED")
-----------------------------------------------------------------------------
(* brokerConnect and the provider's Connect.                               *)

\* The Connect RPC arrives; it finds the client in connectionMap or goes on.
ConnectCheck(c) ==
    /\ pc[c] = "idle"
    /\ Goto(c, IF connectionMap THEN "already" ELSE "dial")
    /\ tries' = [tries EXCEPT ![c] = IF connectionMap THEN 0 ELSE 1]
    /\ UNCHANGED <<serverVars, connections, ref, linkVars, closeVars, watcher,
                   streamVars>>

\* "Client called Connect more than once": success without connecting.
ConnectAlready(c) ==
    /\ pc[c] = "already"
    /\ Goto(c, "idle")
    /\ UNCHANGED <<serverVars, connections, ref, tries, linkVars, closeVars,
                   watcher, streamVars>>

\* bd.connect() of a fresh BrokerDetails succeeds.
ConnectDialed(c, b) ==
    /\ pc[c] = "dial"
    /\ link[b] = "none"
    /\ Establish(b)
    /\ ref' = [ref EXCEPT ![c] = b]
    /\ quiet' = [quiet EXCEPT ![b] = FALSE]
    /\ Goto(c, "register")
    /\ UNCHANGED <<serverVars, connections, tries, closeVars, watcher,
                   activeStreams, counted, late>>

\* bd.connect() fails: the BrokerDetails is dropped and brokerConnect tries
\* again, at most MaxRetries times in all.
ConnectFailed(c) ==
    /\ pc[c] = "dial"
    /\ IF tries[c] < MaxRetries
       THEN /\ tries' = [tries EXCEPT ![c] = @ + 1]
            /\ UNCHANGED pc
       ELSE /\ tries' = [tries EXCEPT ![c] = 0]
            /\ Goto(c, "idle")
    /\ UNCHANGED <<serverVars, connections, ref, linkVars, closeVars, watcher,
                   streamVars>>

\* prov.connections.Add, and go connectionWatcher.
ConnectRegister(c) ==
    /\ pc[c] = "register"
    /\ connections' = ref[c]
    /\ WatcherGoto(ref[c], "top")
    /\ Goto(c, "record")
    /\ UNCHANGED <<serverVars, ref, tries, linkVars, closeVars, streamVars>>

\* connectionMap.Add, and the RPC returns success.
ConnectRecord(c) ==
    /\ pc[c] = "record"
    /\ connectionMap' = TRUE
    /\ ref' = [ref EXCEPT ![c] = None]
    /\ tries' = [tries EXCEPT ![c] = 0]
    /\ Goto(c, "idle")
    /\ UNCHANGED <<trim, connections, linkVars, closeVars, watcher, streamVars>>
-----------------------------------------------------------------------------
(* brokerDisconnect and disconnectClientByIdentifier.                      *)

\* The Disconnect RPC arrives; without an entry in connectionMap it returns.
DisconnectCheck(c) ==
    /\ pc[c] = "idle"
    /\ connectionMap
    /\ Goto(c, "lookup")
    /\ UNCHANGED <<serverVars, connections, ref, tries, linkVars, closeVars,
                   watcher, streamVars>>

\* Where a goroutine goes once the provider's part is over.
AfterDisconnect(a) == IF a = Cleaner THEN "idle" ELSE "unrecord"

\* prov.connections.Get
DisconnectLookup(a) ==
    /\ pc[a] = "lookup"
    /\ IF connections = None
       THEN Goto(a, AfterDisconnect(a)) /\ UNCHANGED ref
       ELSE Goto(a, "mark") /\ ref' = [ref EXCEPT ![a] = connections]
    /\ UNCHANGED <<serverVars, connections, tries, linkVars, closeVars, watcher,
                   streamVars>>

\* bd.pubChannelCancel(); bd.clientDisconnect.Store(true)
DisconnectMark(a) ==
    /\ pc[a] = "mark"
    /\ clientDisconnect' = [clientDisconnect EXCEPT ![ref[a]] = TRUE]
    /\ Goto(a, "signal")
    /\ UNCHANGED <<serverVars, connections, ref, tries, linkVars, shutdown,
                   watcher, streamVars>>

\* Slip: shutdownChan has no buffer.
SignalUnbuffered(a) ==
    /\ pc[a] = "signal"
    /\ watcher[ref[a]] = "select"
    /\ watcher' = [watcher EXCEPT ![ref[a]] = "exited"]
    /\ Goto(a, "close")
    /\ UNCHANGED <<serverVars, connections, ref, tries, linkVars, closeVars, streamVars>>

\* bd.shutdownChan <- true: blocks while the channel is full.
DisconnectSignal(a) ==
    /\ pc[a] = "signal"
    /\ ~shutdown[ref[a]]
    /\ shutdown' = [shutdown EXCEPT ![ref[a]] = TRUE]
    /\ Goto(a, "close")
    /\ UNCHANGED <<serverVars, connections, ref, tries, linkVars,
                   clientDisconnect, watcher, streamVars>>

\* Close the connection that bd.Connection names now, if it is open.
DisconnectClose(a) ==
    /\ pc[a] = "close"
    /\ IF link[ref[a]] = "open"
       THEN /\ link' = [link EXCEPT ![ref[a]] = "closed"]
            /\ relay' = [relay EXCEPT ![ref[a]] = TRUE]
       ELSE UNCHANGED <<link, relay>>
    /\ Goto(a, "forget")
    /\ UNCHANGED <<serverVars, connections, ref, tries, stray, notice, state,
                   closeVars, watcher, streamVars>>

\* Slip: the session stays in prov.connections.
DisconnectKeepsEntry(a) ==
    /\ pc[a] = "forget"
    /\ ref' = [ref EXCEPT ![a] = None]
    /\ Goto(a, AfterDisconnect(a))
    /\ UNCHANGED <<serverVars, connections, tries, linkVars, closeVars, watcher,
                   streamVars>>

\* prov.connections.Delete(clientIdentifier), whatever session is there.
DisconnectForget(a) ==
    /\ pc[a] = "forget"
    /\ connections' = None
    /\ ref' = [ref EXCEPT ![a] = None]
    /\ Goto(a, AfterDisconnect(a))
    /\ UNCHANGED <<serverVars, tries, linkVars, closeVars, watcher, streamVars>>

\* connectionMap.Delete, and the RPC returns.
DisconnectUnrecord(c) ==
    /\ pc[c] = "unrecord"
    /\ connectionMap' = FALSE
    /\ Goto(c, "idle")
    /\ UNCHANGED <<trim, connections, ref, tries, linkVars, closeVars, watcher,
                   streamVars>>
-----------------------------------------------------------------------------
(* The two periodic clean-ups.                                             *)

\* connectionCleaner: no stream and no stream event for over 30 seconds.
CleanerTick ==
    /\ WithCleaner
    /\ pc[Cleaner] = "idle"
    /\ connections # None
    /\ activeStreams[connections] < 1
    /\ quiet[connections]
    /\ Goto(Cleaner, "lookup")
    /\ late' = {}
    /\ UNCHANGED <<serverVars, connections, ref, tries, linkVars, closeVars,
                   watcher, activeStreams, quiet, counted>>

\* TrimConnectionList takes the list of the clients ...
TrimList ==
    /\ WithTrim
    /\ trim = "idle"
    /\ connectionMap
    /\ trim' = "listed"
    /\ UNCHANGED <<connectionMap, connections, pc, ref, tries, linkVars,
                   closeVars, watcher, streamVars>>

\* Slip: a client found in connectionMap is taken to exist.
TrimTrustsMap ==
    /\ trim = "listed"
    /\ trim' = IF connectionMap THEN "idle" ELSE "delete"
    /\ UNCHANGED <<connectionMap, connections, pc, ref, tries, linkVars,
                   closeVars, watcher, streamVars>>

\* ... looks the client up again and asks the provider (ClientExists) ...
TrimAsk ==
    /\ trim = "listed"
    /\ trim' = IF connectionMap /\ connections # None THEN "idle" ELSE "delete"
    /\ UNCHANGED <<connectionMap, connections, pc, ref, tries, linkVars,
                   closeVars, watcher, streamVars>>

\* ... and deletes its entry.
TrimDelete ==
    /\ trim = "delete"
    /\ trim' = "idle"
    /\ connectionMap' = FALSE
    /\ UNCHANGED <<connections, pc, ref, tries, linkVars, closeVars, watcher,
                   streamVars>>

\* Thirty seconds pass since the last stream event.  Only the session in
\* prov.connections is looked at.
TimePasses(b) ==
    /\ WithCleaner
    /\ connections = b /\ ~quiet[b]
    /\ quiet' = [quiet EXCEPT ![b] = TRUE]
    /\ UNCHANGED <<serverVars, connections, pc, ref, tries, linkVars, closeVars,
                   watcher, activeStreams, counted, late>>
-----------------------------------------------------------------------------
(* Streams.  A consume stream waits in WaitForConnect and then calls        *)
(* Subscribe; a publish stream calls Publish, and waits when that fails.    *)
(* Each of the calls looks the session up for itself, counts the stream in  *)
(* for as long as it lasts and counts it out on the session it began with.  *)

\* findProvider: the client must be in connectionMap.
StreamFind(s) ==
    /\ pc[s] = "idle"
    /\ connectionMap
    /\ \E first \in {"find", "call"} : Goto(s, first)
    /\ UNCHANGED <<serverVars, connections, ref, tries, linkVars, closeVars,
                   watcher, streamVars>>

\* getBrokerDetails at the head of each call: an error ends the stream.
\* Publish and Subscribe also note a stream event (updateLastPubSubEvent).
StreamDetails(s) ==
    /\ pc[s] \in {"find", "call"}
    /\ IF connections = None
       THEN Goto(s, "idle") /\ UNCHANGED <<ref, quiet>>
       ELSE /\ Goto(s, IF pc[s] = "find" THEN "begin" ELSE "setup")
            /\ ref' = [ref EXCEPT ![s] = connections]
            /\ quiet' = IF pc[s] = "call"
                        THEN [quiet EXCEPT ![connections] = FALSE] ELSE quiet
    /\ UNCHANGED <<serverVars, connections, tries, linkVars, closeVars, watcher,
                   activeStreams, counted, late>>

\* incrementStreamCount: at once in WaitForConnect and in Publish, after the
\* whole set-up (channel, declarations, Consume) in Subscribe.
StreamBegin(s) ==
    /\ pc[s] \in {"begin", "setup"}
    /\ activeStreams' = [activeStreams EXCEPT ![ref[s]] = @ + 1]
    /\ quiet' = [quiet EXCEPT ![ref[s]] = FALSE]
    /\ counted' = [counted EXCEPT ![s] = ref[s]]
    /\ late' = late \cup {s}
    /\ Goto(s, IF pc[s] = "begin" THEN "waitConnect" ELSE "running")
    /\ UNCHANGED <<serverVars, connections, ref, tries, linkVars, closeVars,
                   watcher>>

\* The set-up of Subscribe fails, or only declares: it was never counted.
StreamSetupEnds(s) ==
    /\ pc[s] = "setup"
    /\ ref' = [ref EXCEPT ![s] = None]
    /\ Goto(s, "idle")
    /\ UNCHANGED <<serverVars, connections, tries, linkVars, closeVars, watcher,
                   streamVars>>

\* decrementStreamCount of session b, deferred by stream s.
CountOut(s, b) ==
    /\ activeStreams' = [activeStreams EXCEPT ![b] = @ - 1]
    /\ quiet' = [quiet EXCEPT ![b] = FALSE]
    /\ counted' = [counted EXCEPT ![s] = None]
    /\ UNCHANGED late

\* The loop of WaitForConnect, not connected yet, looks the session up again;
\* the client may have a newer one by now.
StreamPoll(s) ==
    /\ pc[s] = "waitConnect"
    /\ state[ref[s]] # "CONNECTED"
    /\ connections # None
    /\ ref' = [ref EXCEPT ![s] = connections]
    /\ UNCHANGED <<serverVars, connections, pc, tries, linkVars, closeVars,
                   watcher, streamVars>>

\* Slip: the deferred call counts the stream out of the session looked up last.
CountOutOfLatest(s) ==
    /\ pc[s] = "waitConnect"
    /\ state[ref[s]] = "CONNECTED"
    /\ CountOut(s, ref[s])
    /\ ref' = [ref EXCEPT ![s] = None]
    /\ Goto(s, "call")
    /\ UNCHANGED <<serverVars, connections, tries, linkVars, closeVars, watcher>>

\* The loop of WaitForConnect sees CONNECTED: true, and Publish or Subscribe is
\* called.
StreamConnected(s) ==
    /\ pc[s] = "waitConnect"
    /\ state[ref[s]] = "CONNECTED"
    /\ CountOut(s, counted[s])
    /\ ref' = [ref EXCEPT ![s] = None]
    /\ Goto(s, "call")
    /\ UNCHANGED <<serverVars, connections, tries, linkVars, closeVars, watcher>>

\* WaitForConnect times out or finds the session gone, or Publish or Subscribe
\* returns; after an error of Publish a client that is still in connectionMap
\* waits for the connection again.
StreamEnd(s) ==
    /\ pc[s] \in {"waitConnect", "running"}
    /\ CountOut(s, counted[s])
    /\ ref' = [ref EXCEPT ![s] = None]
    /\ \/ Goto(s, "idle")
       \/ pc[s] = "running" /\ connectionMap /\ Goto(s, "find")
    /\ UNCHANGED <<serverVars, connections, tries, linkVars, closeVars, watcher>>
-----------------------------------------------------------------------------
(* connectionWatcher and the connect() it calls.                           *)

others == <<serverVars, connections, pc, ref, tries, streamVars>>

\* for !bd.clientDisconnect.Load()
WatchTop(b) ==
    /\ watcher[b] = "top"
    /\ WatcherGoto(b, IF clientDisconnect[b] THEN "exited" ELSE "select")
    /\ UNCHANGED <<others, linkVars, closeVars>>

\* case <-bd.shutdownChan
WatchShutdown(b) ==
    /\ watcher[b] = "select"
    /\ shutdown[b]
    /\ shutdown' = [shutdown EXCEPT ![b] = FALSE]
    /\ WatcherGoto(b, "exited")
    /\ UNCHANGED <<others, linkVars, clientDisconnect>>

\* case <-bd.ErrorChannel
WatchError(b) ==
    /\ watcher[b] = "select"
    /\ notice[b]
    /\ notice' = [notice EXCEPT ![b] = FALSE]
    /\ SetState(b, "DISCONNECTED")
    /\ WatcherGoto(b, "retry")
    /\ UNCHANGED <<others, link, stray, relay, closeVars>>

\* Slip: the fallback reconnects without asking IsClosed.
WatchTimerBlind(b) ==
    /\ watcher[b] = "select"
    /\ SetState(b, "DISCONNECTED")
    /\ WatcherGoto(b, "timerEnter")
    /\ UNCHANGED <<others, link, stray, relay, notice, closeVars>>

\* case <-time.After(30 * time.Second): reconnect if the connection is closed.
WatchTimer(b) ==
    /\ watcher[b] = "select"
    /\ IF link[b] = "closed"
       THEN SetState(b, "DISCONNECTED") /\ WatcherGoto(b, "timerEnter")
       ELSE WatcherGoto(b, "top") /\ UNCHANGED state
    /\ UNCHANGED <<others, link, stray, relay, notice, closeVars>>

\* The retry loop: for !bd.clientDisconnect.Load(), after a random sleep.
WatchRetry(b) ==
    /\ watcher[b] = "retry"
    /\ WatcherGoto(b, IF clientDisconnect[b] THEN "top" ELSE "errEnter")
    /\ UNCHANGED <<others, linkVars, closeVars>>

\* The head of connect(): nothing to do for a client that has disconnected or
\* a session that is connected, else CONNECTING and the dial begins.
WatchEnter(b) ==
    /\ watcher[b] \in {"errEnter", "timerEnter"}
    /\ LET retrying == watcher[b] = "errEnter" IN
       IF clientDisconnect[b] \/ state[b] = "CONNECTED"
       THEN /\ WatcherGoto(b, IF retrying /\ clientDisconnect[b]
                              THEN "retry" ELSE "top")
            /\ UNCHANGED state
       ELSE /\ SetState(b, "CONNECTING")
            /\ WatcherGoto(b, IF retrying THEN "errDial" ELSE "timerDial")
    /\ UNCHANGED <<others, link, stray, relay, notice, closeVars>>

\* The dial succeeds.
WatchDialed(b) ==
    /\ watcher[b] \in {"errDial", "timerDial"}
    /\ Establish(b)
    /\ WatcherGoto(b, "top")
    /\ UNCHANGED <<others, closeVars>>

\* Slip: one failed dial and the watcher goes back to its select.
WatchDialOnce(b) ==
    /\ watcher[b] \in {"errDial", "timerDial"}
    /\ SetState(b, "CLOSED")
    /\ WatcherGoto(b, "top")
    /\ UNCHANGED <<others, link, stray, relay, notice, closeVars>>

\* Slip: a failed dial ends the watcher.
WatchDialGivesUp(b) ==
    /\ watcher[b] \in {"errDial", "timerDial"}
    /\ SetState(b, "CLOSED")
    /\ WatcherGoto(b, "exited")
    /\ UNCHANGED <<others, link, stray, relay, notice, closeVars>>

\* The dial fails: CLOSED; the retry loop resets the state and goes round, the
\* fallback waits for the next event.
WatchDialFailed(b) ==
    /\ watcher[b] \in {"errDial", "timerDial"}
    /\ IF watcher[b] = "errDial"
       THEN SetState(b, "DISCONNECTED") /\ WatcherGoto(b, "retry")
       ELSE SetState(b, "CLOSED") /\ WatcherGoto(b, "top")
    /\ UNCHANGED <<others, link, stray, relay, notice, closeVars>>
-----------------------------------------------------------------------------
(* The broker and the AMQP library.                                        *)

\* The connection is lost.
ConnectionLost(b) ==
    /\ link[b] = "open"
    /\ link' = [link EXCEPT ![b] = "closed"]
    /\ relay' = [relay EXCEPT ![b] = TRUE]
    /\ UNCHANGED <<others, stray, notice, state, closeVars, watcher>>

\* The NotifyClose goroutine passes the error to ErrorChannel.
NotifyClose(b) ==
    /\ relay[b]
    /\ relay' = [relay EXCEPT ![b] = FALSE]
    /\ notice' = [notice EXCEPT ![b] = TRUE]
    /\ UNCHANGED <<others, link, stray, state, closeVars, watcher>>
-----------------------------------------------------------------------------
ConnectStep(c) ==
    \/ ConnectAlready(c) \/ (\E b \in Sessions : ConnectDialed(c, b))
    \/ ConnectFailed(c) \/ ConnectRegister(c) \/ ConnectRecord(c)

DisconnectStep(a) ==
    \/ DisconnectLookup(a) \/ DisconnectMark(a) \/ DisconnectSignal(a)
    \/ DisconnectClose(a) \/ DisconnectForget(a)

StreamStep(s) ==
    \/ StreamFind(s) \/ StreamDetails(s) \/ StreamBegin(s)
    \/ StreamSetupEnds(s) \/ StreamPoll(s) \/ StreamConnected(s) \/ StreamEnd(s)

WatcherStep(b) ==
    \/ WatchTop(b) \/ WatchShutdown(b) \/ WatchError(b) \/ WatchTimer(b)
    \/ WatchRetry(b) \/ WatchEnter(b) \/ WatchDialed(b) \/ WatchDialFailed(b)

Next ==
    \/ \E c \in Callers : \/ ConnectCheck(c) \/ ConnectStep(c)
                          \/ DisconnectCheck(c) \/ DisconnectUnrecord(c)
    \/ \E a \in Callers \cup {Cleaner} : DisconnectStep(a)
    \/ \E s \in Streams : StreamStep(s)
    \/ \E b \in Sessions : \/ WatcherStep(b) \/ TimePasses(b)
                           \/ ConnectionLost(b) \/ NotifyClose(b)
    \/ CleanerTick \/ TrimList \/ TrimAsk \/ TrimDelete

Spec == Init /\ [][Next]_vars

(***************************************************************************)
(* Every goroutine that can run does; the tickers of the cleaner and of    *)
(* TrimConnectionList, and the 30 second timer, fire again and again; a    *)
(* broker that is dialled again and again accepts in the end.  No client   *)
(* is obliged to call, no stream to begin or end, no connection to break.  *)
(***************************************************************************)
Fairness ==
    /\ \A c \in Callers : /\ WF_vars(ConnectStep(c))
                          /\ WF_vars(DisconnectUnrecord(c))
    /\ \A a \in Callers \cup {Cleaner} : WF_vars(DisconnectStep(a))
    /\ \A b \in Sessions : /\ WF_vars(WatcherStep(b))
                           /\ SF_vars(WatchDialed(b))
                           /\ WF_vars(NotifyClose(b))
    /\ WF_vars(CleanerTick)
    /\ WF_vars(TrimList) /\ WF_vars(TrimAsk) /\ WF_vars(TrimDelete)

FairSpec == Spec /\ Fairness
-----------------------------------------------------------------------------
\* A session never has two broker connections: every path to a dial, after an
\* error or by the fallback timer, goes through a closed connection.
OneConnection == \A b \in Sessions : stray[b] = 0

\* A lost connection is never overlooked.  Whenever the watcher of a client
\* that has not disconnected is about to wait and the connection is closed, the
\* notification is in ErrorChannel or on its way there; in particular no failed
\* dial may swallow it.
LossNoticed ==
    \A b \in Sessions :
        /\ watcher[b] \in {"top", "select"}
        /\ link[b] = "closed"
        /\ ~clientDisconnect[b]
        => relay[b] \/ notice[b]

\* The watcher of a session stops only after somebody disconnected the client:
\* no error, timeout or failed dial ends it.
WatcherStops ==
    \A b \in Sessions : watcher[b] = "exited" => clientDisconnect[b]

\* A session that is being or was disconnected is not handed out any more once
\* the goroutines disconnecting it are through.
NotHandedOut ==
    \A b \in Sessions :
        clientDisconnect[b] /\ connections = b =>
            \E a \in Actors : pc[a] \in Disconnecting /\ ref[a] = b

\* The cleaner never cuts off a stream that was there when it looked.  Every
\* stream counted in the session it is disconnecting was counted in after it had
\* read ActiveStreams, although a stream is counted in and out twice, may be
\* counted in one session while it polls another, and the cleaner looks the
\* session up again before it disconnects it (cleaner.go connectionCleaner,
\* amqp091.go WaitForConnect, Publish, Subscribe).
EarlierStreamsSpared ==
    pc[Cleaner] \in Disconnecting \ {"lookup"} =>
        {s \in Streams : counted[s] = ref[Cleaner]} \subseteq late

\* A lost connection comes back, unless the client disconnects.
Recovers ==
    \A b \in Sessions :
        (watcher[b] # "none" /\ link[b] = "closed")
            ~> (link[b] = "open" \/ clientDisconnect[b])

\* An entry of connectionMap that the cleaner left behind is removed, or the
\* client is connected again.
StaleEntryTrimmed == (connectionMap /\ connections = None)
                        ~> (~connectionMap \/ connections # None)

\* The cleaner always gets back to its ticker: "Severed client connections may
\* hang around for up to 60 seconds since we are checking every 30"
\* (cleaner.go).  The one thing that stops it is a shutdownChan that another
\* Disconnect has filled after the watcher, its only reader, had left.
CleanerKeepsRunning ==
    []<>(\/ pc[Cleaner] = "idle"
         \/ /\ pc[Cleaner] = "signal"
            /\ shutdown[ref[Cleaner]] /\ watcher[ref[Cleaner]] = "exited")
=============================================================================
