------------------------ MODULE BrokerSessionProofs ------------------------
(***************************************************************************)
(* Proofs about BrokerSession, for any number of callers, streams and      *)
(* sessions: a session never has two connections, its watcher never        *)
(* overlooks a lost one, and stops only for a client that disconnected; a  *)
(* disconnected session is not handed out, and the cleaner spares every    *)
(* stream that was there when it looked.                                   *)
(***************************************************************************)
EXTENDS BrokerSession, FiniteSetTheorems, TLAPS

\* Points at which an actor holds a pointer to a session.
Holding == {"register", "mark", "signal", "close", "forget",
            "begin", "waitConnect", "setup", "running"}

\* Points of the watcher between noticing a loss and the end of the dial.
Reconnecting == {"retry", "errEnter", "errDial", "timerEnter", "timerDial"}

RefsHeld == \A a \in Actors : pc[a] \in Holding => ref[a] \in Sessions

\* A session that a Connect has dialled and not yet registered is its own and
\* has no watcher.
Unregistered ==
    \A c \in Callers : pc[c] = "register" =>
        /\ link[ref[c]] # "none"
        /\ watcher[ref[c]] = "none"
        /\ \A d \in Callers : pc[d] = "register" /\ ref[d] = ref[c] => d = c

Marked == \A a \in Actors : pc[a] = "signal" => clientDisconnect[ref[a]]

\* A stream is counted in while it is in WaitForConnect, Publish or Subscribe.
CountedPoints ==
    \A s \in Streams : counted[s] # None <=> pc[s] \in {"waitConnect", "running"}

\* What holds of one session whatever the actors do.
SessionInv(b) ==
    /\ stray[b] = 0
    /\ watcher[b] # "none" => link[b] # "none"
    /\ relay[b] \/ notice[b] => link[b] = "closed"
    /\ watcher[b] \in Reconnecting => link[b] = "closed"
    /\ watcher[b] \in {"retry", "errEnter", "timerEnter"} => state[b] = "DISCONNECTED"
    /\ /\ watcher[b] \in {"none", "top", "select", "timerEnter", "timerDial"}
       /\ link[b] = "closed"
       /\ ~clientDisconnect[b]
       => relay[b] \/ notice[b]
    /\ watcher[b] = "exited" => clientDisconnect[b]
    /\ shutdown[b] => clientDisconnect[b]

IInv ==
    /\ TypeOK
    /\ RefsHeld
    /\ Unregistered
    /\ Marked
    /\ CountedPoints
    /\ \A b \in Sessions : SessionInv(b)
-----------------------------------------------------------------------------
\* The initial states satisfy the inductive invariant.
LEMMA InitInv == Init => IInv
<1> SUFFICES ASSUME Init
             PROVE  IInv
  OBVIOUS
<1>1. TypeOK
  <2>1. /\ connectionMap \in BOOLEAN
        /\ clientDisconnect \in [Sessions -> BOOLEAN]
        /\ shutdown \in [Sessions -> BOOLEAN]
        /\ relay \in [Sessions -> BOOLEAN]
        /\ notice \in [Sessions -> BOOLEAN]
        /\ quiet \in [Sessions -> BOOLEAN]
    BY Zenon DEF Init
  <2>2. QED
    BY <2>1, SessionAssumption
    DEF Init, TypeOK, Points, Disconnecting, WatcherPoints
<1>2. RefsHeld /\ Unregistered /\ Marked /\ CountedPoints
  BY DEF Init, RefsHeld, Unregistered, Marked, CountedPoints, Actors, Holding
<1>3. ASSUME NEW b \in Sessions
      PROVE  SessionInv(b)
  BY DEF Init, SessionInv, Reconnecting
<1>4. QED
  BY <1>1, <1>2, <1>3 DEF IInv

\* Every step of a Connect RPC keeps the invariant.
LEMMA ConnectInv ==
    ASSUME IInv, NEW c \in Callers, ConnectCheck(c) \/ ConnectStep(c)
    PROVE  IInv'
<1> USE SessionAssumption
    DEF IInv, TypeOK, Actors, Points, Disconnecting, WatcherPoints, Goto,
        WatcherGoto, SetState, serverVars, linkVars, closeVars, streamVars,
        Holding, Reconnecting, RefsHeld, Unregistered, Marked, CountedPoints, SessionInv
<1>1. CASE ConnectCheck(c)
  BY <1>1 DEF ConnectCheck
<1>2. CASE ConnectAlready(c)
  BY <1>2 DEF ConnectAlready
<1>3. CASE ConnectFailed(c)
  BY SMTT(30), <1>3 DEF ConnectFailed
<1>4. CASE ConnectRecord(c)
  BY <1>4 DEF ConnectRecord
<1>5. CASE ConnectRegister(c)
  BY <1>5 DEF ConnectRegister
<1>6. ASSUME NEW b \in Sessions, ConnectDialed(c, b)
      PROVE  IInv'
  BY <1>6 DEF ConnectDialed, Establish
<1>7. QED
  BY <1>1, <1>2, <1>3, <1>4, <1>5, <1>6 DEF ConnectStep

\* Every step of a Disconnect RPC or of the cleaner keeps the invariant.
LEMMA DisconnectInv ==
    ASSUME IInv, NEW a \in Callers \cup {Cleaner}, DisconnectStep(a)
    PROVE  IInv'
<1> USE SessionAssumption
    DEF IInv, TypeOK, Actors, Points, Disconnecting, WatcherPoints, Goto,
        serverVars, linkVars, closeVars, streamVars, AfterDisconnect,
        Holding, Reconnecting, RefsHeld, Unregistered, Marked, CountedPoints, SessionInv
<1>1. CASE DisconnectLookup(a)
  BY <1>1 DEF DisconnectLookup
<1>2. CASE DisconnectMark(a)
  BY <1>2 DEF DisconnectMark
<1>3. CASE DisconnectSignal(a)
  BY <1>3 DEF DisconnectSignal
<1>4. CASE DisconnectClose(a)
  <2>1. ref[a] \in Sessions
    BY <1>4 DEF DisconnectClose
  <2>2. CASE link[ref[a]] = "open"
    <3>1. TypeOK'
      <4>1. relay' \in [Sessions -> BOOLEAN]
        BY <1>4, <2>1, <2>2, Zenon DEF DisconnectClose
      <4>2. QED
        BY <1>4, <2>1, <2>2, <4>1 DEF DisconnectClose
    <3>2. RefsHeld' /\ Unregistered' /\ Marked' /\ CountedPoints'
      BY <1>4, <2>1, <2>2 DEF DisconnectClose
    <3>3. ASSUME NEW b \in Sessions
          PROVE  SessionInv(b)'
      BY <1>4, <2>1, <2>2 DEF DisconnectClose
    <3>4. QED
      BY <3>1, <3>2, <3>3
  <2>3. CASE link[ref[a]] # "open"
    BY <1>4, <2>1, <2>3 DEF DisconnectClose
  <2>4. QED
    BY <2>2, <2>3
<1>5. CASE DisconnectForget(a)
  BY <1>5 DEF DisconnectForget
<1>6. QED
  BY <1>1, <1>2, <1>3, <1>4, <1>5 DEF DisconnectStep

\* Every step of a stream keeps the invariant.
LEMMA StreamInv ==
    ASSUME IInv, NEW s \in Streams, StreamStep(s)
    PROVE  IInv'
<1> USE SessionAssumption
    DEF IInv, TypeOK, Actors, Points, Disconnecting, WatcherPoints, Goto,
        serverVars, linkVars, closeVars, streamVars,
        Holding, Reconnecting, RefsHeld, Unregistered, Marked, CountedPoints, SessionInv
<1>1. CASE StreamFind(s)
  BY <1>1 DEF StreamFind
<1>2. CASE StreamDetails(s)
  <2>1. CASE connections = None
    BY <1>2, <2>1 DEF StreamDetails
  <2>2. CASE connections # None
    <3>1. quiet' \in [Sessions -> BOOLEAN]
      <4>1. CASE pc[s] = "call"
        <5>1. quiet' = [quiet EXCEPT ![connections] = FALSE]
          BY <1>2, <2>2, <4>1 DEF StreamDetails
        <5> QED
          BY <5>1, Zenon
      <4>2. CASE pc[s] # "call"
        BY <1>2, <2>2, <4>2 DEF StreamDetails
      <4> QED
        BY <4>1, <4>2
    <3>2. /\ UNCHANGED <<connectionMap, trim, connections, tries, linkVars, closeVars,
                         watcher, activeStreams, counted, late>>
          /\ ref' = [ref EXCEPT ![s] = connections]
          /\ pc[s] \in {"find", "call"}
          /\ pc' = [pc EXCEPT ![s] = "begin"] \/ pc' = [pc EXCEPT ![s] = "setup"]
      BY <1>2, <2>2 DEF StreamDetails
    <3> QED
      BY <2>2, <3>1, <3>2
  <2> QED
    BY <2>1, <2>2
<1>3. CASE StreamBegin(s)
  BY <1>3 DEF StreamBegin
<1>4. CASE StreamSetupEnds(s)
  BY <1>4 DEF StreamSetupEnds
<1>5. CASE StreamPoll(s)
  BY <1>5 DEF StreamPoll
<1>6. ASSUME counted[s] \in Sessions, StreamConnected(s) \/ StreamEnd(s)
      PROVE  IInv'
  <2>1. CASE StreamConnected(s)
    BY <1>6, <2>1 DEF StreamConnected, CountOut
  <2>2. CASE StreamEnd(s)
    BY <1>6, <2>2 DEF StreamEnd, CountOut
  <2> QED
    BY <1>6, <2>1, <2>2
<1>7. pc[s] \in {"waitConnect", "running"} => counted[s] \in Sessions
  BY DEF CountedPoints
<1>8. QED
  BY <1>1, <1>2, <1>3, <1>4, <1>5, <1>6, <1>7
  DEF StreamStep, StreamConnected, StreamEnd

\* Every step of a watcher, of the broker and of NotifyClose keeps the
\* invariant: the actors' program points do not move.
LEMMA SessionStepInv ==
    ASSUME IInv, NEW b \in Sessions,
           WatcherStep(b) \/ TimePasses(b) \/ ConnectionLost(b) \/ NotifyClose(b)
    PROVE  IInv'
<1> USE SessionAssumption
    DEF IInv, TypeOK, Actors, Points, Disconnecting, WatcherPoints, others,
        WatcherGoto, SetState, serverVars, linkVars, closeVars, streamVars,
        Holding, Reconnecting, RefsHeld, Unregistered, Marked, CountedPoints, SessionInv
<1>1. CASE WatchTop(b)
  BY <1>1 DEF WatchTop
<1>2. CASE WatchShutdown(b)
  BY <1>2 DEF WatchShutdown
<1>3. CASE WatchError(b)
  BY <1>3 DEF WatchError
<1>4. CASE WatchTimer(b)
  BY <1>4 DEF WatchTimer
<1>5. CASE WatchRetry(b)
  BY <1>5 DEF WatchRetry
<1>6. CASE WatchEnter(b)
  BY <1>6 DEF WatchEnter
<1>7. CASE WatchDialed(b)
  BY <1>7 DEF WatchDialed, Establish
<1>8. CASE WatchDialFailed(b)
  BY <1>8 DEF WatchDialFailed
<1>9. CASE TimePasses(b)
  BY <1>9 DEF TimePasses
<1>10. CASE ConnectionLost(b)
  BY <1>10 DEF ConnectionLost
<1>11. CASE NotifyClose(b)
  BY <1>11 DEF NotifyClose
<1>12. QED
  BY <1>1, <1>2, <1>3, <1>4, <1>5, <1>6, <1>7, <1>8, <1>9, <1>10, <1>11
  DEF WatcherStep

\* Every step keeps the invariant.
LEMMA StepInv == IInv /\ [Next]_vars => IInv'
<1> SUFFICES ASSUME IInv, [Next]_vars
             PROVE  IInv'
  OBVIOUS
<1>1. CASE \E c \in Callers : ConnectCheck(c) \/ ConnectStep(c)
  BY <1>1, ConnectInv
<1>2. ASSUME NEW c \in Callers, DisconnectCheck(c) \/ DisconnectUnrecord(c)
      PROVE  IInv'
  <2> USE SessionAssumption
      DEF IInv, TypeOK, Actors, Points, Disconnecting, WatcherPoints, Goto,
          serverVars, linkVars, closeVars, streamVars, Holding, Reconnecting,
          RefsHeld, Unregistered, Marked, CountedPoints, SessionInv
  <2>1. CASE DisconnectCheck(c)
    BY <2>1 DEF DisconnectCheck
  <2>2. CASE DisconnectUnrecord(c)
    <3>1. connectionMap' \in BOOLEAN
      BY <2>2, Zenon DEF DisconnectUnrecord
    <3>2. QED
      BY <2>2, <3>1 DEF DisconnectUnrecord
  <2>3. QED
    BY <1>2, <2>1, <2>2
<1>3. CASE \E a \in Callers \cup {Cleaner} : DisconnectStep(a)
  BY <1>3, DisconnectInv
<1>4. CASE \E s \in Streams : StreamStep(s)
  BY <1>4, StreamInv
<1>5. CASE \E b \in Sessions : \/ WatcherStep(b) \/ TimePasses(b)
                               \/ ConnectionLost(b) \/ NotifyClose(b)
  BY <1>5, SessionStepInv
<1>6. CASE CleanerTick
  BY <1>6, SessionAssumption
  DEF CleanerTick, IInv, TypeOK, Actors, Points, Disconnecting, WatcherPoints,
      Goto, serverVars, linkVars, closeVars, streamVars, Holding, Reconnecting,
      RefsHeld, Unregistered, Marked, CountedPoints, SessionInv
<1>7. CASE TrimList \/ TrimAsk \/ TrimDelete
  <2> USE DEF IInv, TypeOK, linkVars, closeVars, streamVars, RefsHeld,
              Unregistered, Marked, CountedPoints, SessionInv
  <2>1. CASE TrimList
    BY <2>1 DEF TrimList
  <2>2. CASE TrimAsk
    BY <2>2 DEF TrimAsk
  <2>3. CASE TrimDelete
    BY ZenonT(60), <2>3 DEF TrimDelete
  <2>4. QED
    BY <1>7, <2>1, <2>2, <2>3
<1>8. CASE UNCHANGED vars
  BY <1>8 DEF vars, IInv, TypeOK, RefsHeld, Unregistered, Marked, CountedPoints, SessionInv
<1>9. QED
  BY <1>1, <1>2, <1>3, <1>4, <1>5, <1>6, <1>7, <1>8 DEF Next

\* The inductive invariant holds in every reachable state.
THEOREM SessionInductive == Spec => []IInv
  BY InitInv, StepInv, PTL DEF Spec

\* Every variable keeps its type; in particular brokerConnect dials at most
\* MaxRetries times for one RPC.
THEOREM SessionTyped == Spec => []TypeOK
<1>1. IInv => TypeOK
  BY DEF IInv
<1>2. QED
  BY <1>1, SessionInductive, PTL

\* A session never has two broker connections, whichever of the error path and
\* the fallback timer of connectionWatcher reconnects it.
THEOREM SessionHasOneConnection == Spec => []OneConnection
<1>1. IInv => OneConnection
  BY DEF IInv, SessionInv, OneConnection
<1>2. QED
  BY <1>1, SessionInductive, PTL

\* connectionWatcher never waits on a closed connection without a notification
\* in ErrorChannel or on its way there.
THEOREM NoLossOverlooked == Spec => []LossNoticed
<1>1. IInv => LossNoticed
  BY DEF IInv, SessionInv, LossNoticed
<1>2. QED
  BY <1>1, SessionInductive, PTL

\* connectionWatcher returns only when the client was disconnected.
THEOREM WatcherStopsForClient == Spec => []WatcherStops
<1>1. IInv => WatcherStops
  BY DEF IInv, SessionInv, WatcherStops
<1>2. QED
  BY <1>1, SessionInductive, PTL
-----------------------------------------------------------------------------
(* Disconnected sessions are not handed out.                               *)

\* Points of disconnectClientByIdentifier at which its session is known.
Ending == {"mark", "signal", "close", "forget"}

\* Only a session that was registered can be found in prov.connections, marked
\* or in the hands of a goroutine that disconnects it; a registered one has a
\* watcher.  A marked session that is still in the map is being disconnected.
Handed ==
    /\ connections # None => watcher[connections] # "none"
    /\ \A b \in Sessions : clientDisconnect[b] => watcher[b] # "none"
    /\ \A a \in Actors : pc[a] \in Ending => watcher[ref[a]] # "none"
    /\ \A b \in Sessions : clientDisconnect[b] /\ connections = b =>
            \E a \in Actors : pc[a] \in Ending /\ ref[a] = b

\* A step that touches neither the map nor a mark, moves nobody into or out of a
\* disconnect and takes no watcher away keeps Handed.
LEMMA HandedFrame ==
    ASSUME IInv, Handed,
           connections' = connections, clientDisconnect' = clientDisconnect,
           \A a \in Actors : pc'[a] \in Ending <=> pc[a] \in Ending,
           \A a \in Actors : pc[a] \in Ending => ref'[a] = ref[a],
           \A b \in Sessions : watcher[b] # "none" => watcher'[b] # "none"
    PROVE  Handed'
<1>1. \A a \in Actors : pc[a] \in Ending => ref[a] \in Sessions
  BY DEF IInv, RefsHeld, Ending, Holding
<1>2. connections # None => connections \in Sessions
  BY DEF IInv, TypeOK
<1> QED
  BY <1>1, <1>2 DEF Handed

\* Every step keeps Handed.
LEMMA HandedStep == IInv /\ Handed /\ [Next]_vars => Handed'
<1> SUFFICES ASSUME IInv, Handed, [Next]_vars
             PROVE  Handed'
  OBVIOUS
<1> USE SessionAssumption
<1>1. ASSUME NEW c \in Callers,
             \/ ConnectCheck(c) \/ ConnectAlready(c) \/ ConnectFailed(c)
             \/ ConnectRecord(c) \/ DisconnectCheck(c) \/ DisconnectUnrecord(c)
             \/ \E b \in Sessions : ConnectDialed(c, b)
      PROVE  Handed'
  <2>1. /\ connections' = connections /\ clientDisconnect' = clientDisconnect
        /\ watcher' = watcher
        /\ \A a \in Actors : pc'[a] \in Ending <=> pc[a] \in Ending
        /\ \A a \in Actors : pc[a] \in Ending => ref'[a] = ref[a]
    BY <1>1 DEF ConnectCheck, ConnectAlready, ConnectFailed, ConnectRecord,
       DisconnectCheck, DisconnectUnrecord, ConnectDialed, Goto, Ending, IInv,
       TypeOK, Actors, closeVars
  <2> QED
    BY <2>1, HandedFrame
<1>2. ASSUME NEW c \in Callers, ConnectRegister(c)
      PROVE  Handed'
  <2>1. /\ ref[c] \in Sessions /\ ~clientDisconnect[ref[c]]
        /\ connections' = ref[c] /\ watcher'[ref[c]] = "top"
        /\ \A b \in Sessions : watcher[b] # "none" => watcher'[b] # "none"
    BY <1>2 DEF ConnectRegister, WatcherGoto, IInv, TypeOK, RefsHeld, Holding,
       Unregistered, Handed, Actors
  <2>2. /\ clientDisconnect' = clientDisconnect /\ ref' = ref
        /\ \A a \in Actors : pc'[a] \in Ending <=> pc[a] \in Ending
    BY <1>2 DEF ConnectRegister, Goto, Ending, IInv, TypeOK, Actors, closeVars
  <2>3. \A a \in Actors : pc[a] \in Ending => ref[a] \in Sessions
    BY DEF IInv, RefsHeld, Ending, Holding
  <2> QED
    BY <2>1, <2>2, <2>3 DEF Handed
<1>3. ASSUME NEW a \in Callers \cup {Cleaner}, DisconnectLookup(a)
      PROVE  Handed'
  <2>1. CASE connections = None
    BY <1>3, <2>1, HandedFrame
    DEF DisconnectLookup, AfterDisconnect, Goto, Ending, IInv, TypeOK, Actors,
        closeVars
  <2>2. CASE connections # None
    <3>1. /\ pc' = [pc EXCEPT ![a] = "mark"] /\ pc[a] = "lookup"
          /\ ref' = [ref EXCEPT ![a] = connections]
          /\ UNCHANGED <<connections, watcher, clientDisconnect>>
          /\ a \in Actors
      BY <1>3, <2>2 DEF DisconnectLookup, Goto, closeVars, Actors
    <3> QED
      BY <2>2, <3>1 DEF Handed, Ending, IInv, TypeOK
  <2> QED
    BY <2>1, <2>2
<1>4. ASSUME NEW a \in Callers \cup {Cleaner}, DisconnectMark(a)
      PROVE  Handed'
  <2>1. /\ pc' = [pc EXCEPT ![a] = "signal"] /\ pc[a] = "mark"
        /\ clientDisconnect' = [clientDisconnect EXCEPT ![ref[a]] = TRUE]
        /\ UNCHANGED <<connections, watcher, ref>>
        /\ a \in Actors /\ ref[a] \in Sessions
    BY <1>4 DEF DisconnectMark, Goto, Actors, IInv, RefsHeld, Holding
  <2> QED
    BY <2>1 DEF Handed, Ending, IInv, TypeOK
<1>5. ASSUME NEW a \in Callers \cup {Cleaner},
             DisconnectSignal(a) \/ DisconnectClose(a)
      PROVE  Handed'
  BY <1>5, HandedFrame
  DEF DisconnectSignal, DisconnectClose, Goto, Ending, IInv, TypeOK, Actors,
      closeVars
<1>6. ASSUME NEW a \in Callers \cup {Cleaner}, DisconnectForget(a)
      PROVE  Handed'
  <2>1. /\ connections' = None /\ UNCHANGED <<watcher, clientDisconnect>>
        /\ \A d \in Actors : pc'[d] \in Ending =>
                pc[d] \in Ending /\ ref'[d] = ref[d]
    BY <1>6 DEF DisconnectForget, AfterDisconnect, Goto, Ending, IInv, TypeOK,
       Actors, closeVars
  <2> QED
    BY <2>1 DEF Handed
<1>7. ASSUME NEW s \in Streams, StreamStep(s)
      PROVE  Handed'
  BY <1>7, HandedFrame
  DEF StreamStep, StreamFind, StreamDetails, StreamBegin, StreamSetupEnds,
      StreamPoll, StreamConnected, StreamEnd, Goto, Ending, IInv, TypeOK, Actors, closeVars
<1>8. ASSUME NEW b \in Sessions,
             WatcherStep(b) \/ TimePasses(b) \/ ConnectionLost(b) \/ NotifyClose(b)
      PROVE  Handed'
  <2>1. /\ UNCHANGED <<connections, pc, ref, clientDisconnect>>
        /\ \A d \in Sessions : watcher[d] # "none" => watcher'[d] # "none"
    BY <1>8 DEF WatcherStep, WatchTop, WatchShutdown, WatchError, WatchTimer,
       WatchRetry, WatchEnter, WatchDialed, WatchDialFailed, TimePasses,
       ConnectionLost, NotifyClose, WatcherGoto, others, closeVars, IInv, TypeOK
  <2> QED
    BY <2>1, HandedFrame
<1>9. CASE CleanerTick
  BY <1>9, HandedFrame
  DEF CleanerTick, Goto, Ending, IInv, TypeOK, Actors, closeVars
<1>10. CASE TrimList \/ TrimAsk \/ TrimDelete \/ UNCHANGED vars
  BY <1>10, HandedFrame DEF TrimList, TrimAsk, TrimDelete, vars, closeVars
<1> QED
  BY <1>1, <1>2, <1>3, <1>4, <1>5, <1>6, <1>7, <1>8, <1>9, <1>10
  DEF Next, ConnectStep, DisconnectStep

\* getBrokerDetails finds a session that was marked as disconnected only while
\* a goroutine is still disconnecting it, also when the client has connected
\* again and the cleaner and several RPCs disconnect at the same time.
THEOREM DisconnectedNotHandedOut == Spec => []NotHandedOut
<1>1. Init => Handed
  BY DEF Init, Handed, Ending
<1>2. Handed => NotHandedOut
  BY DEF Handed, NotHandedOut, Ending, Disconnecting
<1> QED
  BY <1>1, <1>2, HandedStep, SessionInductive, PTL DEF Spec
-----------------------------------------------------------------------------
(* The cleaner spares the streams that were there when it looked.          *)

\* The streams between incrementStreamCount and decrementStreamCount of a session.
CountedIn(b) == {s \in Streams : counted[s] = b}

\* ActiveStreams is exact, whatever session each of the separate increments and
\* decrements of WaitForConnect, Publish and Subscribe is made on.
Counted ==
    \A b \in Sessions : /\ IsFiniteSet(CountedIn(b))
                        /\ activeStreams[b] = Cardinality(CountedIn(b))

\* A step that counts nobody keeps the counts.
LEMMA CountsKept ==
    ASSUME Counted, activeStreams' = activeStreams, counted' = counted
    PROVE  Counted'
<1>1. ASSUME NEW b \in Sessions PROVE CountedIn(b)' = CountedIn(b)
  BY DEF CountedIn
<1> QED
  BY <1>1 DEF Counted

\* Counting a stream in changes the count of its own session only.
LEMMA CountIn ==
    ASSUME IInv, Counted, NEW s \in Streams, StreamBegin(s)
    PROVE  Counted'
<1>1. /\ ref[s] \in Sessions /\ counted[s] = None
      /\ activeStreams \in [Sessions -> Int]
      /\ counted \in [Streams -> Sessions \cup {None}]
  BY DEF StreamBegin, IInv, TypeOK, RefsHeld, Holding, CountedPoints, Actors
<1>2. /\ \A b \in Sessions : activeStreams'[b] = IF b = ref[s] THEN activeStreams[b] + 1
                                                 ELSE activeStreams[b]
      /\ \A r \in Streams : counted'[r] = IF r = s THEN ref[s] ELSE counted[r]
  BY <1>1 DEF StreamBegin
<1>3. ASSUME NEW b \in Sessions
      PROVE  IsFiniteSet(CountedIn(b)') /\ activeStreams'[b] = Cardinality(CountedIn(b)')
  <2>1. IsFiniteSet(CountedIn(b)) /\ activeStreams[b] = Cardinality(CountedIn(b))
    BY DEF Counted
  <2>2. CASE b = ref[s]
    <3>1. CountedIn(b)' = CountedIn(b) \cup {s} /\ s \notin CountedIn(b)
      BY <1>1, <1>2, <2>2, SessionAssumption DEF CountedIn
    <3>2. IsFiniteSet(CountedIn(b)') /\ Cardinality(CountedIn(b)') = Cardinality(CountedIn(b)) + 1
      BY <2>1, <3>1, FS_AddElement
    <3> QED
      BY <1>2, <2>1, <2>2, <3>2
  <2>3. CASE b # ref[s]
    <3>1. CountedIn(b)' = CountedIn(b)
      BY <1>1, <1>2, <2>3, SessionAssumption DEF CountedIn
    <3> QED
      BY <1>2, <2>1, <2>3, <3>1
  <2> QED
    BY <2>2, <2>3
<1> QED
  BY <1>3 DEF Counted

\* Counting a stream out changes the count of the session it was counted in.
LEMMA CountOutOf ==
    ASSUME IInv, Counted, NEW s \in Streams, counted[s] \in Sessions,
           CountOut(s, counted[s])
    PROVE  Counted'
<1>1. /\ activeStreams \in [Sessions -> Int]
      /\ counted \in [Streams -> Sessions \cup {None}]
  BY DEF IInv, TypeOK
<1>2. /\ \A b \in Sessions : activeStreams'[b] = IF b = counted[s] THEN activeStreams[b] - 1
                                                 ELSE activeStreams[b]
      /\ \A r \in Streams : counted'[r] = IF r = s THEN None ELSE counted[r]
  BY <1>1 DEF CountOut
<1>3. ASSUME NEW b \in Sessions
      PROVE  IsFiniteSet(CountedIn(b)') /\ activeStreams'[b] = Cardinality(CountedIn(b)')
  <2>1. IsFiniteSet(CountedIn(b)) /\ activeStreams[b] = Cardinality(CountedIn(b))
    BY DEF Counted
  <2>2. CASE b = counted[s]
    <3>1. CountedIn(b)' = CountedIn(b) \ {s} /\ s \in CountedIn(b)
      BY <1>1, <1>2, <2>2, SessionAssumption DEF CountedIn
    <3>2. IsFiniteSet(CountedIn(b)') /\ Cardinality(CountedIn(b)') = Cardinality(CountedIn(b)) - 1
      BY <2>1, <3>1, FS_RemoveElement
    <3> QED
      BY <1>2, <2>1, <2>2, <3>2
  <2>3. CASE b # counted[s]
    <3>1. CountedIn(b)' = CountedIn(b)
      BY <1>1, <1>2, <2>3, SessionAssumption DEF CountedIn
    <3> QED
      BY <1>2, <2>1, <2>3, <3>1
  <2> QED
    BY <2>2, <2>3
<1> QED
  BY <1>3 DEF Counted

\* Every step keeps the counts.
LEMMA CountedStep == IInv /\ Counted /\ [Next]_vars => Counted'
<1> SUFFICES ASSUME IInv, Counted, [Next]_vars PROVE Counted'
  OBVIOUS
<1>1. ASSUME NEW s \in Streams, StreamConnected(s) \/ StreamEnd(s) PROVE Counted'
  <2>1. counted[s] \in Sessions
    BY <1>1 DEF StreamConnected, StreamEnd, IInv, TypeOK, CountedPoints
  <2>2. CountOut(s, counted[s])
    BY <1>1 DEF StreamConnected, StreamEnd
  <2> QED
    BY <2>1, <2>2, CountOutOf
<1>2. ASSUME NEW s \in Streams, StreamBegin(s) PROVE Counted'
  BY <1>2, CountIn
<1>3. CASE /\ ~ \E s \in Streams : StreamConnected(s) \/ StreamEnd(s)
           /\ ~ \E s \in Streams : StreamBegin(s)
  <2>1. activeStreams' = activeStreams /\ counted' = counted
    BY <1>3
    DEF Next, vars, ConnectCheck, ConnectStep, ConnectAlready, ConnectDialed,
        ConnectFailed, ConnectRegister, ConnectRecord, DisconnectCheck,
        DisconnectUnrecord, DisconnectStep, DisconnectLookup, DisconnectMark,
        DisconnectSignal, DisconnectClose, DisconnectForget, StreamStep,
        StreamFind, StreamDetails, StreamSetupEnds, StreamPoll, WatcherStep,
        WatchTop, WatchShutdown, WatchError, WatchTimer, WatchRetry, WatchEnter,
        WatchDialed, WatchDialFailed, TimePasses, ConnectionLost, NotifyClose,
        CleanerTick, TrimList, TrimAsk, TrimDelete, others, streamVars
  <2> QED
    BY <2>1, CountsKept
<1> QED
  BY <1>1, <1>2, <1>3

\* Streams are counted in registered sessions only, and whatever is counted in
\* the session that the cleaner is about to look up, or has looked up, came
\* after it had read ActiveStreams.
Spared ==
    /\ \A s \in Streams : /\ counted[s] # None => watcher[counted[s]] # "none"
                          /\ pc[s] \in {"begin", "setup"} => watcher[ref[s]] # "none"
    /\ pc[Cleaner] = "lookup" /\ connections # None =>
            \A s \in Streams : counted[s] = connections => s \in late
    /\ pc[Cleaner] \in Ending =>
            \A s \in Streams : counted[s] = ref[Cleaner] => s \in late

\* A step that counts nobody in, registers nothing, looks nothing up and leaves
\* the cleaner where it is keeps Spared.
LEMMA SparedFrame ==
    ASSUME IInv, Spared, late \subseteq late',
           connections' \in {connections, None},
           pc'[Cleaner] \in {"lookup"} \cup Ending =>
               pc[Cleaner] \in {"lookup"} \cup Ending /\ (pc'[Cleaner] = "lookup" <=> pc[Cleaner] = "lookup"),
           pc[Cleaner] \in Ending /\ pc'[Cleaner] \in Ending => ref'[Cleaner] = ref[Cleaner],
           \A s \in Streams : counted'[s] # None => counted'[s] = counted[s],
           \A s \in Streams : pc'[s] \in {"begin", "setup"} =>
               (pc[s] \in {"begin", "setup"} /\ ref'[s] = ref[s]),
           \A b \in Sessions : watcher[b] # "none" => watcher'[b] # "none"
    PROVE  Spared'
<1>1. /\ counted \in [Streams -> Sessions \cup {None}]
      /\ \A s \in Streams : pc[s] \in {"begin", "setup"} => ref[s] \in Sessions
      /\ pc[Cleaner] \in Ending => ref[Cleaner] \in Sessions
  BY DEF IInv, TypeOK, RefsHeld, Holding, Actors, Ending
<1>2. \A s \in Streams : /\ counted'[s] # None => watcher'[counted'[s]] # "none"
                         /\ pc'[s] \in {"begin", "setup"} => watcher'[ref'[s]] # "none"
  BY <1>1 DEF Spared
<1>3. pc'[Cleaner] = "lookup" /\ connections' # None =>
            \A s \in Streams : counted'[s] = connections' => s \in late'
  BY DEF Spared, Ending
<1>4. pc'[Cleaner] \in Ending =>
            \A s \in Streams : counted'[s] = ref'[Cleaner] => s \in late'
  BY <1>1, SessionAssumption DEF Spared, Ending
<1> QED
  BY <1>2, <1>3, <1>4 DEF Spared

\* Every step keeps Spared.
LEMMA SparedStep == IInv /\ Handed /\ Counted /\ Spared /\ [Next]_vars => Spared'
<1> SUFFICES ASSUME IInv, Handed, Counted, Spared, [Next]_vars
             PROVE  Spared'
  OBVIOUS
<1> USE SessionAssumption
<1>0. /\ pc \in [Actors -> Points] /\ ref \in [Actors -> Sessions \cup {None}]
      /\ counted \in [Streams -> Sessions \cup {None}]
      /\ watcher \in [Sessions -> WatcherPoints]
      /\ connections \in Sessions \cup {None} /\ late \subseteq Streams
      /\ Cleaner \in Actors /\ Callers \subseteq Actors /\ Streams \subseteq Actors
  BY DEF IInv, TypeOK, Actors
<1>1. ASSUME NEW c \in Callers,
             \/ ConnectCheck(c) \/ ConnectAlready(c) \/ ConnectFailed(c)
             \/ ConnectRecord(c) \/ DisconnectCheck(c) \/ DisconnectUnrecord(c)
             \/ \E b \in Sessions : ConnectDialed(c, b)
      PROVE  Spared'
  <2>1. /\ UNCHANGED <<connections, counted, late, watcher>>
        /\ \A a \in Actors : a # c => pc'[a] = pc[a] /\ ref'[a] = ref[a]
    BY <1>0, <1>1 DEF ConnectCheck, ConnectAlready, ConnectFailed, ConnectRecord,
       DisconnectCheck, DisconnectUnrecord, ConnectDialed, Goto, streamVars
  <2> QED
    BY <1>0, <2>1, SparedFrame
<1>2. ASSUME NEW c \in Callers, ConnectRegister(c)
      PROVE  Spared'
  <2>1. /\ ref[c] \in Sessions /\ watcher[ref[c]] = "none" /\ connections' = ref[c]
        /\ UNCHANGED <<ref, counted, late>>
        /\ \A a \in Actors : a # c => pc'[a] = pc[a]
        /\ \A b \in Sessions : watcher[b] # "none" => watcher'[b] # "none"
    BY <1>0, <1>2 DEF ConnectRegister, Goto, WatcherGoto, IInv, RefsHeld, Holding,
       Unregistered, streamVars
  <2>2. \A s \in Streams : counted[s] # ref[c]
    BY <2>1 DEF Spared
  <2>3. \A s \in Streams : pc[s] \in {"begin", "setup"} => ref[s] \in Sessions
    BY <1>0 DEF IInv, RefsHeld, Holding
  <2> QED
    BY <1>0, <2>1, <2>2, <2>3 DEF Spared
<1>3. ASSUME NEW a \in Callers \cup {Cleaner}, DisconnectLookup(a)
      PROVE  Spared'
  <2>1. /\ UNCHANGED <<connections, counted, late, watcher>>
        /\ \A d \in Actors : d # a => pc'[d] = pc[d] /\ ref'[d] = ref[d]
    BY <1>0, <1>3 DEF DisconnectLookup, Goto, streamVars
  <2>2. CASE a # Cleaner
    BY <1>0, <2>1, <2>2, SparedFrame
  <2>3. CASE a = Cleaner
    <3>1. /\ pc[Cleaner] = "lookup"
          /\ connections = None => pc'[Cleaner] = "idle"
          /\ connections # None => pc'[Cleaner] = "mark" /\ ref'[Cleaner] = connections
      BY <1>0, <1>3, <2>3 DEF DisconnectLookup, Goto, AfterDisconnect
    <3> QED
      BY <1>0, <2>1, <2>3, <3>1 DEF Spared, Ending
  <2> QED
    BY <2>2, <2>3
<1>4. ASSUME NEW a \in Callers \cup {Cleaner},
             \/ DisconnectMark(a) \/ DisconnectSignal(a)
             \/ DisconnectClose(a) \/ DisconnectForget(a)
      PROVE  Spared'
  <2>1. /\ UNCHANGED <<counted, late, watcher>>
        /\ connections' \in {connections, None}
        /\ \A d \in Actors : d # a => pc'[d] = pc[d] /\ ref'[d] = ref[d]
        /\ pc[a] \in Ending /\ pc'[a] # "lookup"
        /\ pc'[a] \in Ending => ref'[a] = ref[a]
    BY <1>0, <1>4 DEF DisconnectMark, DisconnectSignal, DisconnectClose,
       DisconnectForget, AfterDisconnect, Goto, Ending, streamVars
  <2> QED
    BY <1>0, <2>1, SparedFrame DEF Ending
<1>5. ASSUME NEW s \in Streams, StreamDetails(s) \/ StreamBegin(s)
      PROVE  Spared'
  <2>1. /\ UNCHANGED <<connections, watcher>>
        /\ \A d \in Actors : d # s => pc'[d] = pc[d] /\ ref'[d] = ref[d]
    BY <1>0, <1>5 DEF StreamDetails, StreamBegin, Goto
  <2>2. CASE StreamDetails(s)
    <3>1. /\ UNCHANGED <<counted, late>>
          /\ pc'[s] \in {"begin", "setup"} => connections # None /\ ref'[s] = connections
      BY <1>0, <2>2 DEF StreamDetails, Goto
    <3> QED
      BY <1>0, <2>1, <3>1 DEF Spared, Handed
  <2>3. CASE StreamBegin(s)
    <3>1. /\ late' = late \cup {s} /\ counted' = [counted EXCEPT ![s] = ref[s]]
          /\ pc[s] \in {"begin", "setup"} /\ ref[s] \in Sessions
          /\ pc'[s] \in {"waitConnect", "running"}
      BY <1>0, <2>3 DEF StreamBegin, Goto, IInv, RefsHeld, Holding
    <3> QED
      BY <1>0, <2>1, <3>1 DEF Spared
  <2> QED
    BY <1>5, <2>2, <2>3
<1>6. ASSUME NEW s \in Streams, \/ StreamFind(s) \/ StreamSetupEnds(s) \/ StreamPoll(s)
                                \/ StreamConnected(s) \/ StreamEnd(s)
      PROVE  Spared'
  <2>1. /\ UNCHANGED <<connections, watcher, late>>
        /\ \A d \in Actors : d # s => pc'[d] = pc[d] /\ ref'[d] = ref[d]
        /\ \A r \in Streams : counted'[r] # None => counted'[r] = counted[r]
        /\ pc'[s] \notin {"begin", "setup"}
    BY <1>0, <1>6 DEF StreamFind, StreamSetupEnds, StreamPoll, StreamConnected,
       StreamEnd, CountOut, Goto, streamVars
  <2> QED
    BY <1>0, <2>1, SparedFrame
<1>7. ASSUME NEW b \in Sessions,
             WatcherStep(b) \/ TimePasses(b) \/ ConnectionLost(b) \/ NotifyClose(b)
      PROVE  Spared'
  <2>1. /\ UNCHANGED <<connections, pc, ref, counted, late>>
        /\ \A d \in Sessions : watcher[d] # "none" => watcher'[d] # "none"
    BY <1>0, <1>7 DEF WatcherStep, WatchTop, WatchShutdown, WatchError, WatchTimer,
       WatchRetry, WatchEnter, WatchDialed, WatchDialFailed, TimePasses,
       ConnectionLost, NotifyClose, WatcherGoto, others, streamVars
  <2> QED
    BY <2>1, SparedFrame
<1>8. CASE CleanerTick
  <2>1. /\ UNCHANGED <<connections, ref, counted, watcher, activeStreams>>
        /\ \A d \in Actors : d # Cleaner => pc'[d] = pc[d]
        /\ pc'[Cleaner] = "lookup"
        /\ connections \in Sessions /\ activeStreams[connections] < 1
    BY <1>0, <1>8 DEF CleanerTick, Goto
  <2>2. IsFiniteSet(CountedIn(connections)) /\ Cardinality(CountedIn(connections)) < 1
    BY <2>1 DEF Counted
  <2>3. CountedIn(connections) = {}
    BY <2>2, FS_CardinalityType, FS_EmptySet
  <2>4. \A s \in Streams : counted[s] # connections
    BY <2>3 DEF CountedIn
  <2> QED
    BY <1>0, <2>1, <2>4 DEF Spared, Ending
<1>9. CASE TrimList \/ TrimAsk \/ TrimDelete \/ UNCHANGED vars
  <2>1. UNCHANGED <<connections, pc, ref, counted, late, watcher>>
    BY <1>9 DEF TrimList, TrimAsk, TrimDelete, vars, streamVars
  <2> QED
    BY <2>1, SparedFrame
<1> QED
  BY <1>1, <1>2, <1>3, <1>4, <1>5, <1>6, <1>7, <1>8, <1>9
  DEF Next, ConnectStep, DisconnectStep, StreamStep

\* The cleaner disconnects no stream that was counted in when it read
\* ActiveStreams, for any number of streams, sessions and callers: the counts of
\* WaitForConnect, Publish and Subscribe are exact on every session, and a
\* session registered between the read and the disconnect holds only streams
\* that came after the read.
THEOREM CleanerSparesEarlierStreams == Spec => []EarlierStreamsSpared
<1>1. Init => Handed /\ Counted /\ Spared
  <2> SUFFICES ASSUME Init PROVE Handed /\ Counted /\ Spared
    OBVIOUS
  <2>1. Handed /\ Spared
    BY SessionAssumption DEF Init, Handed, Spared, Ending, Actors
  <2>2. ASSUME NEW b \in Sessions
        PROVE  IsFiniteSet(CountedIn(b)) /\ activeStreams[b] = Cardinality(CountedIn(b))
    <3>1. CountedIn(b) = {} /\ activeStreams[b] = 0
      BY SessionAssumption DEF Init, CountedIn
    <3> QED
      BY <3>1, FS_EmptySet
  <2> QED
    BY <2>1, <2>2 DEF Counted
<1>2. Spared => EarlierStreamsSpared
  BY DEF Spared, EarlierStreamsSpared, Ending, Disconnecting
<1> QED
  BY <1>1, <1>2, HandedStep, CountedStep, SparedStep, SessionInductive, PTL DEF Spec
=============================================================================
