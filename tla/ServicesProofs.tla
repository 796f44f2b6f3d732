--------------------------- MODULE ServicesProofs ---------------------------
(***************************************************************************)
(* Proofs about the parts of the server around its sessions and streams:   *)
(* health stream, provider registry, declarations, source statistics,      *)
(* bodies of stream messages, rate limiter and process statistics, each    *)
(* for every value of its constants.                                       *)
(***************************************************************************)
EXTENDS HealthService, ProviderRegistry, SourceStats, Declarations, StreamBody,
        RateLimiter, ProcessStats, FiniteSetTheorems, WellFoundedInduction, TLAPS
-----------------------------------------------------------------------------
(***************************************************************************)
(* The health stream.  An address has no registration or that of its       *)
(* newest Check, and a Check is registered from its first statement to the *)
(* deferred function at most.                                              *)
(***************************************************************************)
Registered ==
    /\ \A a \in Addrs : notifiers[a] # NoCheck =>
          /\ notifiers[a] = newest[a]
          /\ check[notifiers[a]].pc \in Running \cup {"leave"}
    /\ \A a \in Addrs : newest[a] # NoCheck => AddrOf[newest[a]] = a
    /\ \A k \in closed : check[k].pc = "returned"
    /\ monitor.pc = "send" => monitor.to \in Checks

CheckRecords == [pc : Running \cup {"none", "leave", "close", "returned"}, done : BOOLEAN]

HealthInv == HealthTypeOK /\ NewestReachable /\ Registered

\* Only Checks that have returned have closed their channel.
LEMMA HealthInvImplies == HealthInv => RegistrationSound
BY HealthAssumption
DEF HealthInv, RegistrationSound, RegisteredIsOpen, Registered, HealthTypeOK, Running

\* The initial state has no registration.
LEMMA HealthInitInv == HealthInit => HealthInv
<1> SUFFICES ASSUME HealthInit PROVE HealthInv
  OBVIOUS
<1> USE HealthAssumption
<1>1. -1 \in -1..MaxReplicas /\ 0 \in 0..MaxEvents
  OBVIOUS
<1>2. check \in [Checks -> [pc : Running \cup {"none", "leave", "close", "returned"},
                           done : BOOLEAN]]
  BY DEF HealthInit
<1>3. hpa \in [pc : {"watch", "post", "returned"}, current : -1..MaxReplicas,
              new : -1..MaxReplicas]
  BY <1>1 DEF HealthInit
<1>4. HealthTypeOK
  BY <1>1, <1>2, <1>3 DEF HealthInit, HealthTypeOK
<1> QED
  BY <1>4 DEF HealthInit, HealthInv, NewestReachable, Registered

\* A Check that goes on, or a step that changes no Check, keeps the registrations.
LEMMA CheckGoesOn ==
    ASSUME HealthInv, HealthTypeOK', UNCHANGED <<notifiers, newest, closed>>,
           \A k \in Checks : /\ check'[k].pc \in Running => check[k].pc \in Running
                             /\ check[k].pc \in Running
                                   => check'[k].pc \in Running \cup {"leave"}
                             /\ check[k].pc \notin Running => check'[k].pc = check[k].pc,
           monitor'.pc = "send" => monitor'.to \in Checks
    PROVE  HealthInv'
<1> USE HealthAssumption
<1>1. NewestReachable'
  BY DEF HealthInv, NewestReachable, HealthTypeOK
<1>2. Registered'
  BY DEF HealthInv, Registered, HealthTypeOK, Running
<1> QED
  BY <1>1, <1>2 DEF HealthInv

\* Every step of the health stream keeps the invariant.
LEMMA HealthStepInv == HealthInv /\ [HealthNext]_healthVars => HealthInv'
<1> SUFFICES ASSUME HealthInv, [HealthNext]_healthVars PROVE HealthInv'
  OBVIOUS
<1> USE HealthAssumption
<1>1. ASSUME NEW k \in Checks, RegisterCheck(k) PROVE HealthInv'
  <2>1. HealthTypeOK'
    BY <1>1 DEF RegisterCheck, CheckGoes, HealthInv, HealthTypeOK, Running
  <2>2. NewestReachable'
    <3> SUFFICES ASSUME NEW a \in Addrs, newest'[a] # NoCheck, check'[newest'[a]].pc \in Running
                 PROVE  notifiers'[a] = newest'[a]
      BY DEF NewestReachable
    <3>1. CASE a = AddrOf[k]
      BY <1>1, <3>1 DEF RegisterCheck, HealthInv, HealthTypeOK
    <3>2. CASE a # AddrOf[k]
      <4>1. newest'[a] = newest[a] /\ notifiers'[a] = notifiers[a]
        BY <1>1, <3>2 DEF RegisterCheck, HealthInv, HealthTypeOK
      <4>2. newest[a] # k
        BY <4>1, <3>2 DEF HealthInv, Registered
      <4>3. newest[a] \in Checks
        BY <4>1 DEF HealthInv, HealthTypeOK
      <4>4. check'[newest[a]] = check[newest[a]]
        BY <1>1, <4>2, <4>3 DEF RegisterCheck, CheckGoes, HealthInv, HealthTypeOK
      <4> QED
        BY <4>1, <4>4 DEF HealthInv, NewestReachable
    <3> QED
      BY <3>1, <3>2
  <2>3. Registered'
    BY <1>1 DEF RegisterCheck, CheckGoes, HealthInv, HealthTypeOK, Registered, Running
  <2> QED
    BY <2>1, <2>2, <2>3 DEF HealthInv
<1>2. ASSUME NEW k \in Checks, SendInitial(k) \/ SendNotification(k) \/ LeaveLoop(k)
      PROVE  HealthInv'
  <2>1. HealthTypeOK'
    <3>1. PICK point \in Running \cup {"leave"} : CheckGoes(k, point)
      BY <1>2 DEF SendInitial, SendNotification, LeaveLoop, Running
    <3>2. UNCHANGED <<notifiers, closed, monitor, hpa, events, newest, crashed>>
      BY <1>2 DEF SendInitial, SendNotification, LeaveLoop
    <3>3. check' \in [Checks -> CheckRecords]
      BY <3>1 DEF CheckGoes, HealthInv, HealthTypeOK, CheckRecords
    <3> QED
      BY <3>2, <3>3 DEF HealthInv, HealthTypeOK, CheckRecords
  <2> QED
    BY <1>2, <2>1, CheckGoesOn
    DEF SendInitial, SendNotification, LeaveLoop, CheckGoes, HealthInv, HealthTypeOK, Registered, Running
<1>3. ASSUME NEW k \in Checks, ContextDone(k) PROVE HealthInv'
  <2>1. HealthTypeOK'
    <3>1. UNCHANGED <<notifiers, closed, monitor, hpa, events, newest, crashed>>
      BY <1>3 DEF ContextDone
    <3>2. check' \in [Checks -> CheckRecords]
      <4> DEFINE q == [check[k] EXCEPT !.done = TRUE]
      <4>1. check \in [Checks -> CheckRecords]
        BY DEF HealthInv, HealthTypeOK, CheckRecords
      <4>2. check[k] \in CheckRecords
        BY <4>1
      <4>3. q \in CheckRecords
        BY <4>2 DEF CheckRecords
      <4>4. check' = [check EXCEPT ![k] = q]
        BY <1>3 DEF ContextDone
      <4> HIDE DEF q
      <4> QED
        BY <4>1, <4>3, <4>4
    <3> QED
      BY <3>1, <3>2 DEF HealthInv, HealthTypeOK, CheckRecords
  <2> QED
    BY <1>3, <2>1, CheckGoesOn DEF ContextDone, HealthInv, HealthTypeOK, Registered, Running
<1>4. ASSUME NEW k \in Checks, DeleteIfEqual(k) PROVE HealthInv'
  <2>1. HealthTypeOK'
    BY <1>4 DEF DeleteIfEqual, CheckGoes, HealthInv, HealthTypeOK, Running
  <2>2. NewestReachable'
    BY <1>4 DEF DeleteIfEqual, CheckGoes, HealthInv, HealthTypeOK, NewestReachable, Registered, Running
  <2>3. Registered'
    BY <1>4 DEF DeleteIfEqual, CheckGoes, HealthInv, HealthTypeOK, Registered, Running
  <2> QED
    BY <2>1, <2>2, <2>3 DEF HealthInv
<1>5. ASSUME NEW k \in Checks, CloseChannel(k) PROVE HealthInv'
  <2>1. HealthTypeOK'
    BY <1>5 DEF CloseChannel, CheckGoes, HealthInv, HealthTypeOK, Running
  <2>2. NewestReachable'
    BY <1>5 DEF CloseChannel, CheckGoes, HealthInv, HealthTypeOK, NewestReachable, Running
  <2>3. Registered'
    BY <1>5 DEF CloseChannel, CheckGoes, HealthInv, HealthTypeOK, Registered, Running
  <2> QED
    BY <2>1, <2>2, <2>3 DEF HealthInv
<1>6. CASE MonitorReceive
  <2>1. HealthTypeOK'
    BY <1>6 DEF MonitorReceive, HealthInv, HealthTypeOK, Running
  <2> QED
    BY <1>6, <2>1, CheckGoesOn DEF MonitorReceive, Running
<1>7. CASE MonitorNext
  <2>1. HealthTypeOK'
    BY <1>7 DEF MonitorNext, HealthInv, HealthTypeOK, Running
  <2> QED
    BY <1>7, <2>1, CheckGoesOn DEF MonitorNext, HealthInv, HealthTypeOK, Running
<1>8. CASE MonitorSend
  <2> DEFINE k == monitor.to
  <2>1. k \in Checks /\ UNCHANGED <<notifiers, closed, hpa, events, newest>>
    BY <1>8 DEF MonitorSend, HealthInv, Registered
  <2>2. CASE /\ check[k].pc = "loop" /\ CheckGoes(k, "notify") /\ UNCHANGED crashed
             /\ monitor' = [monitor EXCEPT !.pc = "next", !.to = NoCheck]
    <3>1. HealthTypeOK'
      <4>1. check' \in [Checks -> CheckRecords]
        BY <2>1, <2>2 DEF CheckGoes, HealthInv, HealthTypeOK, CheckRecords, Running
      <4>2. monitor' \in [pc : {"range", "next", "send"}, left : SUBSET Addrs,
                          to : Checks \cup {NoCheck}]
        BY <2>2 DEF HealthInv, HealthTypeOK
      <4> QED
        BY <2>1, <2>2, <4>1, <4>2 DEF HealthInv, HealthTypeOK, CheckRecords
    <3> QED
      BY <2>1, <2>2, <3>1, CheckGoesOn DEF CheckGoes, HealthInv, HealthTypeOK, Running
  <2>3. CASE crashed' = TRUE /\ UNCHANGED <<check, monitor>>
    <3>1. HealthTypeOK'
      BY <2>1, <2>3 DEF HealthInv, HealthTypeOK
    <3> QED
      BY <2>1, <2>3, <3>1, CheckGoesOn DEF HealthInv, Registered, Running
  <2> QED
    BY <1>8, <2>2, <2>3 DEF MonitorSend
<1>9. CASE (\E n \in 0..MaxReplicas : Modified(n)) \/ WatchEnds
  <2>1. UNCHANGED <<notifiers, check, closed, monitor, newest, crashed>>
    BY <1>9 DEF Modified, WatchEnds
  <2>2. events' \in 0..MaxEvents
    <3>1. events \in 0..MaxEvents
      BY DEF HealthInv, HealthTypeOK
    <3>2. events' = events \/ (events < MaxEvents /\ events' = events + 1)
      BY <1>9 DEF Modified, WatchEnds
    <3> QED
      BY <3>1, <3>2
  <2>3. hpa' \in [pc : {"watch", "post", "returned"}, current : -1..MaxReplicas,
                 new : -1..MaxReplicas]
    <3>1. CASE WatchEnds
      <4>1. -1 \in -1..MaxReplicas
        OBVIOUS
      <4> QED
        BY <3>1, <4>1 DEF WatchEnds
    <3>2. ASSUME NEW n \in 0..MaxReplicas, Modified(n)
          PROVE  hpa' \in [pc : {"watch", "post", "returned"}, current : -1..MaxReplicas,
                          new : -1..MaxReplicas]
      <4>1. n \in -1..MaxReplicas
        OBVIOUS
      <4> QED
        BY <3>2, <4>1 DEF Modified, HealthInv, HealthTypeOK
    <3> QED
      BY <1>9, <3>1, <3>2
  <2>4. HealthTypeOK'
    BY <2>1, <2>2, <2>3 DEF HealthInv, HealthTypeOK
  <2> QED
    BY <2>1, <2>4, CheckGoesOn DEF HealthInv, Registered, Running
<1>10. CASE UNCHANGED healthVars
  BY <1>10 DEF healthVars, HealthInv, HealthTypeOK, NewestReachable, Registered
<1> QED
  BY <1>1, <1>2, <1>3, <1>4, <1>5, <1>6, <1>7, <1>8, <1>9, <1>10
  DEF HealthNext, CheckStep, MonitorStep

\* The table of the health stream has the newest Check of every address as long as
\* it runs, and open channels only (server.go Check, notifyHealth), for any number
\* of Checks and addresses.
THEOREM RegistrationIsSound ==
    HealthInit /\ [][HealthNext]_healthVars => []RegistrationSound
BY HealthInitInv, HealthStepInv, HealthInvImplies, PTL
-----------------------------------------------------------------------------
(***************************************************************************)
(* The provider registry.  A call that is past Add, or has found the name, *)
(* finds a provider.  Unless two calls have created the provider of a name *)
(* at the same time, one call at most is on its way to create it, none     *)
(* once it is registered, and a session is in the registered provider.     *)
(***************************************************************************)
Creating(g) == call[g].pc \in {"new", "add"}

CallsFind ==
    \A g \in Calls :
        /\ call[g].pc = "fetch" => registered[call[g].name] # 0
        /\ call[g].pc \in {"add", "found"} => call[g].prov # 0
        /\ call[g].pc # "panic"

OneCreator ==
    /\ \A g, h \in Calls : Creating(g) /\ Creating(h) /\ call[g].name = call[h].name => g = h
    /\ \A g \in Calls : Creating(g) => registered[call[g].name] = 0

OneProvider ==
    /\ \A g \in Calls : call[g].pc = "found" => call[g].prov = registered[call[g].name]
    /\ \A g \in Calls : home[g].prov # 0 => home[g].prov = registered[home[g].name]
    /\ \A g \in Calls : home[g].prov # 0 /\ call[g].pc # "idle" => call[g].name = home[g].name
    /\ missed = {}

RegistryInv ==
    /\ RegistryTypeOK /\ CallsFind
    /\ overlapped = {} => OneCreator /\ OneProvider

\* No name has a provider, and no client a session.
LEMMA RegistryInitInv == RegistryInit => RegistryInv
<1> SUFFICES ASSUME RegistryInit PROVE RegistryInv
  OBVIOUS
<1> USE RegistryAssumption
<1>1. AnyName \in Names /\ 0 \in 0..MaxProviders
  BY DEF AnyName
<1>2. RegistryTypeOK
  BY <1>1 DEF RegistryInit, RegistryTypeOK, NoCall, NoSession, CallPCs
<1> QED
  BY <1>2
  DEF RegistryInit, RegistryInv, CallsFind, OneCreator, OneProvider, Creating, NoCall, NoSession

\* Every step of GetProvider and its callers keeps the invariant.
LEMMA RegistryStepInv == RegistryInv /\ [RegistryNext]_registryVars => RegistryInv'
<1> SUFFICES ASSUME RegistryInv, [RegistryNext]_registryVars PROVE RegistryInv'
  OBVIOUS
<1> USE RegistryAssumption
<1>0. 0 \in 0..MaxProviders
  OBVIOUS
<1>1. ASSUME NEW n \in Names, Register(n) PROVE RegistryInv'
  BY <1>1 DEF Register, RegistryInv, RegistryTypeOK, CallsFind, OneCreator, OneProvider, Creating
<1>2. ASSUME NEW g \in Calls, NEW n \in Names, GetProvider(g, n) PROVE RegistryInv'
  <2>1. /\ UNCHANGED <<factories, registered, created, home, missed>>
        /\ call[g].pc = "idle" /\ (home[g].prov # 0 => n = home[g].name)
    BY <1>2 DEF GetProvider
  <2>2. CASE registered[n] # 0
    <3>1. /\ call' = [call EXCEPT ![g] = [pc |-> "fetch", name |-> n, prov |-> 0]]
          /\ UNCHANGED overlapped
      BY <1>2, <2>2 DEF GetProvider
    <3>2. RegistryTypeOK'
      BY <1>0, <2>1, <3>1 DEF RegistryInv, RegistryTypeOK, CallPCs
    <3>3. CallsFind'
      BY <2>1, <2>2, <3>1 DEF RegistryInv, RegistryTypeOK, CallsFind
    <3>4. overlapped = {} => OneCreator' /\ OneProvider'
      BY <2>1, <2>2, <3>1 DEF RegistryInv, RegistryTypeOK, OneCreator, OneProvider, Creating
    <3> QED
      BY <3>1, <3>2, <3>3, <3>4 DEF RegistryInv
  <2>3. CASE registered[n] = 0
    <3> DEFINE creating == {h \in Calls : call[h].name = n /\ call[h].pc \in {"new", "add"}}
    <3>1. /\ call' = [call EXCEPT ![g] = [pc |-> "new", name |-> n, prov |-> 0]]
          /\ overlapped' = IF creating = {} THEN overlapped ELSE overlapped \cup {n}
      BY <1>2, <2>3 DEF GetProvider
    <3>2. RegistryTypeOK'
      BY <1>0, <2>1, <3>1 DEF RegistryInv, RegistryTypeOK, CallPCs
    <3>3. CallsFind'
      BY <2>1, <2>3, <3>1 DEF RegistryInv, RegistryTypeOK, CallsFind
    <3>4. ASSUME overlapped' = {} PROVE OneCreator' /\ OneProvider'
      <4>1. creating = {} /\ OneCreator /\ OneProvider
        BY <3>1, <3>4 DEF RegistryInv
      <4>2. OneCreator'
        BY <2>1, <2>3, <3>1, <4>1 DEF RegistryInv, RegistryTypeOK, OneCreator, Creating
      <4>3. OneProvider'
        BY <2>1, <3>1, <4>1 DEF RegistryInv, RegistryTypeOK, OneProvider
      <4> QED
        BY <4>2, <4>3
    <3> QED
      BY <3>2, <3>3, <3>4 DEF RegistryInv
  <2> QED
    BY <2>2, <2>3
<1>3. ASSUME NEW g \in Calls, NewProvider(g) PROVE RegistryInv'
  <2>1. UNCHANGED <<factories, registered, home, overlapped, missed>> /\ call[g].pc = "new"
    BY <1>3 DEF NewProvider
  <2>2. CASE call' = [call EXCEPT ![g].pc = "error"] /\ UNCHANGED created
    <3>1. RegistryTypeOK'
      BY <2>1, <2>2 DEF RegistryInv, RegistryTypeOK, CallPCs
    <3>2. CallsFind'
      BY <2>1, <2>2 DEF RegistryInv, RegistryTypeOK, CallsFind
    <3> QED
      BY <2>1, <2>2, <3>1, <3>2
      DEF RegistryInv, RegistryTypeOK, OneCreator, OneProvider, Creating
  <2>3. CASE /\ created < MaxProviders /\ created' = created + 1
             /\ call' = [call EXCEPT ![g].prov = created + 1, ![g].pc = "add"]
    <3>1. created + 1 \in 0..MaxProviders /\ created + 1 # 0
      BY <2>3 DEF RegistryInv, RegistryTypeOK
    <3>2. RegistryTypeOK'
      BY <2>1, <2>3, <3>1 DEF RegistryInv, RegistryTypeOK, CallPCs
    <3>3. CallsFind'
      BY <2>1, <2>3, <3>1 DEF RegistryInv, RegistryTypeOK, CallsFind
    <3> QED
      BY <2>1, <2>3, <3>2, <3>3
      DEF RegistryInv, RegistryTypeOK, OneCreator, OneProvider, Creating
  <2> QED
    BY <1>3, <2>2, <2>3 DEF NewProvider
<1>4. ASSUME NEW g \in Calls, AddProvider(g) PROVE RegistryInv'
  <2>1. /\ UNCHANGED <<factories, created, home, overlapped, missed>> /\ call[g].pc = "add"
        /\ registered' = [registered EXCEPT ![call[g].name] = call[g].prov]
        /\ call' = [call EXCEPT ![g].pc = "fetch"]
    BY <1>4 DEF AddProvider
  <2>2. call[g].name \in Names /\ call[g].prov \in 0..MaxProviders /\ call[g].prov # 0
    BY <2>1 DEF RegistryInv, RegistryTypeOK, CallsFind
  <2>3. RegistryTypeOK'
    BY <2>1, <2>2 DEF RegistryInv, RegistryTypeOK, CallPCs
  <2>4. CallsFind'
    BY <2>1, <2>2 DEF RegistryInv, RegistryTypeOK, CallsFind
  <2>5. ASSUME overlapped = {} PROVE OneCreator' /\ OneProvider'
    <3>1. OneCreator /\ OneProvider /\ registered[call[g].name] = 0
      BY <2>1, <2>5 DEF RegistryInv, OneCreator, Creating
    <3>2. OneCreator'
      BY <2>1, <2>2, <3>1 DEF RegistryInv, RegistryTypeOK, OneCreator, Creating
    <3>3. OneProvider'
      BY <2>1, <2>2, <3>1 DEF RegistryInv, RegistryTypeOK, OneProvider, CallsFind
    <3> QED
      BY <3>2, <3>3
  <2> QED
    BY <2>1, <2>3, <2>4, <2>5 DEF RegistryInv
<1>5. ASSUME NEW g \in Calls, FetchProvider(g) PROVE RegistryInv'
  <2> DEFINE p == registered[call[g].name]
  <2>1. /\ UNCHANGED <<factories, registered, created, home, overlapped, missed>>
        /\ call[g].pc = "fetch" /\ p # 0 /\ p \in 0..MaxProviders
        /\ call' = [call EXCEPT ![g].prov = p, ![g].pc = "found"]
    BY <1>5 DEF FetchProvider, RegistryInv, CallsFind, RegistryTypeOK
  <2> HIDE DEF p
  <2>2. RegistryTypeOK'
    BY <2>1 DEF RegistryInv, RegistryTypeOK, CallPCs
  <2>3. CallsFind'
    BY <2>1 DEF RegistryInv, RegistryTypeOK, CallsFind
  <2>4. overlapped = {} => OneCreator' /\ OneProvider'
    BY <2>1 DEF RegistryInv, RegistryTypeOK, OneCreator, OneProvider, Creating, p
  <2> QED
    BY <2>1, <2>2, <2>3, <2>4 DEF RegistryInv
<1>6. ASSUME NEW g \in Calls, UseProvider(g) PROVE RegistryInv'
  <2>1. /\ UNCHANGED <<factories, registered, created, overlapped>>
        /\ call[g].pc \in {"found", "error"} /\ call' = [call EXCEPT ![g] = NoCall]
    BY <1>6 DEF UseProvider
  <2>2. NoCall \in [pc : CallPCs, name : Names, prov : 0..MaxProviders] /\ NoCall.pc = "idle"
    BY <1>0 DEF NoCall, AnyName, CallPCs
  <2>3. CallsFind'
    BY <2>1, <2>2 DEF RegistryInv, RegistryTypeOK, CallsFind
  <2>4. OneCreator => OneCreator'
    BY <2>1, <2>2 DEF RegistryInv, RegistryTypeOK, OneCreator, Creating
  <2>5. CASE UNCHANGED <<home, missed>>
    BY <2>1, <2>2, <2>3, <2>4, <2>5 DEF RegistryInv, RegistryTypeOK, OneProvider
  <2>6. CASE home[g].prov = 0 /\ call[g].pc = "found" /\ UNCHANGED missed
             /\ home' = [home EXCEPT ![g] = [name |-> call[g].name, prov |-> call[g].prov]]
    BY <2>1, <2>2, <2>3, <2>4, <2>6 DEF RegistryInv, RegistryTypeOK, OneProvider
  <2>7. CASE home[g].prov \notin {0, call[g].prov} /\ call[g].pc = "found"
             /\ home' = home /\ missed' = missed \cup {g}
    BY <2>1, <2>2, <2>3, <2>7 DEF RegistryInv, RegistryTypeOK, OneProvider
  <2>8. home' = home \/ home[g].prov = 0
    BY <1>6 DEF UseProvider, RegistryInv, RegistryTypeOK
  <2> QED
    BY <1>6, <2>5, <2>6, <2>7, <2>8 DEF UseProvider, RegistryInv, RegistryTypeOK
<1>7. CASE UNCHANGED registryVars
  BY <1>7
  DEF registryVars, RegistryInv, RegistryTypeOK, CallsFind, OneCreator, OneProvider, Creating
<1> QED
  BY <1>1, <1>2, <1>3, <1>4, <1>5, <1>6, <1>7 DEF RegistryNext

\* GetProvider never asserts the type of a missing provider, whatever the overlap of
\* first calls, and a request finds the provider with its client's session unless two
\* calls have created one at the same time (provider.go GetProvider, server.go
\* findProvider), for any number of clients, names and providers.
THEOREM ProviderIsUsable ==
    RegistryInit /\ [][RegistryNext]_registryVars => []ProviderUsable
<1>1. RegistryInv => ProviderUsable
  BY DEF RegistryInv, ProviderUsable, CallsFind, ProviderNeverNil, SessionReachable, OneProvider
<1> QED
  BY <1>1, RegistryInitInv, RegistryStepInv, PTL
-----------------------------------------------------------------------------
(***************************************************************************)
(* Source statistics.  Every offset that is stored or on its way is one    *)
(* the stream has, and the end of the stream is answered without an error  *)
(* only once a message has been seen.                                      *)
(***************************************************************************)
OffsetsExist ==
    /\ consumed < length /\ lastStored < length
    /\ \A a \in Askers :
          /\ asker[a].at <= length
          /\ asker[a].current = 0 \/ asker[a].current < length
          /\ asker[a].last = 0 \/ asker[a].last < length
          /\ asker[a].pc \in {"close", "done"} /\ ~asker[a].error => 0 < length

SourceInv == SourceTypeOK /\ OffsetsExist

AskerRecords ==
    [pc : {"idle", "request", "current", "open", "query", "close", "done"},
     at : 0..MaxLength, current : 0..(MaxLength - 1), last : 0..(MaxLength - 1),
     error : BOOLEAN]

AskerFits(r) ==
    /\ r.at <= length
    /\ r.current = 0 \/ r.current < length
    /\ r.last = 0 \/ r.last < length
    /\ r.pc \in {"close", "done"} /\ ~r.error => 0 < length

\* A call that goes on with numbers of the stream keeps the invariant.
LEMMA AskerGoesOn ==
    ASSUME SourceInv, NEW a \in Askers, NEW r \in AskerRecords, AskerFits(r),
           asker' = [asker EXCEPT ![a] = r], UNCHANGED <<length, consumed>>,
           lastStored' \in Offsets0, lastStored' < length
    PROVE  SourceInv'
<1>1. SourceTypeOK'
  BY DEF SourceInv, SourceTypeOK, AskerRecords
<1>2. OffsetsExist'
  BY DEF SourceInv, SourceTypeOK, OffsetsExist, AskerFits
<1> QED
  BY <1>1, <1>2 DEF SourceInv

\* Every step of SourceStats, its consumer and the stream keeps the invariant.
LEMMA SourceStepInv == SourceInv /\ [SourceNext]_sourceVars => SourceInv'
<1> SUFFICES ASSUME SourceInv, [SourceNext]_sourceVars PROVE SourceInv'
  OBVIOUS
<1> USE SourceStatsAssumption
<1>1. ASSUME NEW a \in Askers,
             \/ AskStats(a) \/ RequestStats(a) \/ updateCurrentOffsetStat(a)
             \/ OpenAtLast(a) \/ StoreSeen(a) \/ QueryLast(a) \/ CloseConsumer(a)
             \/ AskAgain(a)
      PROVE  SourceInv'
  <2> DEFINE r == asker[a]
  <2>1. /\ r \in AskerRecords /\ AskerFits(r)
        /\ length \in 0..MaxLength /\ consumed \in Offsets0 /\ lastStored \in Offsets0
        /\ consumed < length /\ lastStored < length
        /\ asker \in [Askers -> AskerRecords]
    BY DEF SourceInv, SourceTypeOK, OffsetsExist, AskerRecords, AskerFits
  <2> HIDE DEF r
  <2>2. CASE AskStats(a) \/ RequestStats(a)
    <3>1. PICK p \in {"request", "current", "done"}, e \in BOOLEAN :
             /\ asker' = [asker EXCEPT ![a] = [r EXCEPT !.pc = p, !.error = e]]
             /\ p = "done" => e
             /\ UNCHANGED <<length, consumed, lastStored>>
      <4>1. ASSUME NEW p \in {"request", "current", "done"}, NEW e \in BOOLEAN
            PROVE  /\ [asker EXCEPT ![a].pc = p, ![a].error = e]
                         = [asker EXCEPT ![a] = [r EXCEPT !.pc = p, !.error = e]]
                   /\ [asker EXCEPT ![a].pc = p]
                         = [asker EXCEPT ![a] = [r EXCEPT !.pc = p, !.error = r.error]]
        BY <2>1 DEF r, AskerRecords
      <4>2. r.error \in BOOLEAN
        BY <2>1 DEF AskerRecords
      <4>3. CASE AskStats(a)
        BY <4>1, <4>2, <4>3 DEF AskStats
      <4>4. CASE RequestStats(a)
        BY <4>1, <4>4 DEF RequestStats
      <4> QED
        BY <2>2, <4>3, <4>4
    <3>2. /\ [r EXCEPT !.pc = p, !.error = e] \in AskerRecords
          /\ AskerFits([r EXCEPT !.pc = p, !.error = e])
      BY <2>1, <3>1 DEF AskerRecords, AskerFits
    <3> QED
      BY <2>1, <3>1, <3>2, AskerGoesOn
  <2>3. CASE updateCurrentOffsetStat(a)
    <3>1. PICK c \in 0..(MaxLength - 1), e \in BOOLEAN :
             /\ asker' = [asker EXCEPT ![a] =
                              [r EXCEPT !.pc = "open", !.current = c, !.error = e]]
             /\ c = 0 \/ c < length
             /\ UNCHANGED <<length, consumed, lastStored>>
      <4>1. CASE asker' = [asker EXCEPT ![a].pc = "open",
                              ![a].current = IF consumed = -1 THEN 0 ELSE consumed]
        <5> DEFINE c0 == IF consumed = -1 THEN 0 ELSE consumed
        <5>1. c0 \in 0..(MaxLength - 1) /\ (c0 = 0 \/ c0 < length) /\ r.error \in BOOLEAN
          BY <2>1 DEF Offsets0, AskerRecords
        <5>2. asker' = [asker EXCEPT ![a] =
                           [r EXCEPT !.pc = "open", !.current = c0, !.error = r.error]]
          BY <2>1, <4>1 DEF r, AskerRecords
        <5> QED
          BY <2>3, <5>1, <5>2 DEF updateCurrentOffsetStat
      <4>2. CASE asker' = [asker EXCEPT ![a].pc = "open", ![a].error = TRUE]
        <5>1. asker' = [asker EXCEPT ![a] =
                           [r EXCEPT !.pc = "open", !.current = r.current, !.error = TRUE]]
          BY <2>1, <4>2 DEF r, AskerRecords
        <5>2. r.current \in 0..(MaxLength - 1) /\ (r.current = 0 \/ r.current < length)
          BY <2>1 DEF AskerRecords, AskerFits
        <5> QED
          BY <2>3, <5>1, <5>2 DEF updateCurrentOffsetStat
      <4> QED
        BY <2>3, <4>1, <4>2 DEF updateCurrentOffsetStat
    <3>2. /\ [r EXCEPT !.pc = "open", !.current = c, !.error = e] \in AskerRecords
          /\ AskerFits([r EXCEPT !.pc = "open", !.current = c, !.error = e])
      BY <2>1, <3>1 DEF AskerRecords, AskerFits
    <3> QED
      BY <2>1, <3>1, <3>2, AskerGoesOn
  <2>4. CASE OpenAtLast(a)
    <3>1. CASE asker' = [asker EXCEPT ![a].pc = "query",
                                      ![a].at = IF length = 0 THEN 0 ELSE length - 1]
      <4> DEFINE e == IF length = 0 THEN 0 ELSE length - 1
      <4>1. e \in 0..MaxLength /\ e <= length
        BY <2>1
      <4> HIDE DEF e
      <4>2. asker' = [asker EXCEPT ![a] = [r EXCEPT !.pc = "query", !.at = e]]
        BY <2>1, <3>1 DEF r, AskerRecords, e
      <4>3. /\ [r EXCEPT !.pc = "query", !.at = e] \in AskerRecords
            /\ AskerFits([r EXCEPT !.pc = "query", !.at = e])
        BY <2>1, <4>1 DEF AskerRecords, AskerFits
      <4> QED
        BY <2>1, <2>4, <4>2, <4>3, AskerGoesOn DEF OpenAtLast
    <3>2. CASE asker' = [asker EXCEPT ![a].pc = "done", ![a].error = TRUE]
      <4>1. asker' = [asker EXCEPT ![a] = [r EXCEPT !.pc = "done", !.error = TRUE]]
        BY <2>1, <3>2 DEF r, AskerRecords
      <4>2. /\ [r EXCEPT !.pc = "done", !.error = TRUE] \in AskerRecords
            /\ AskerFits([r EXCEPT !.pc = "done", !.error = TRUE])
        BY <2>1 DEF AskerRecords, AskerFits
      <4> QED
        BY <2>1, <2>4, <4>1, <4>2, AskerGoesOn DEF OpenAtLast
    <3> QED
      BY <2>4, <3>1, <3>2 DEF OpenAtLast
  <2>5. CASE StoreSeen(a)
    <3>1. /\ r.at < length /\ lastStored' = r.at
          /\ asker' = [asker EXCEPT ![a] = [r EXCEPT !.at = r.at + 1]]
          /\ UNCHANGED <<length, consumed>>
      BY <2>1, <2>5 DEF StoreSeen, r, AskerRecords
    <3>2. r.at + 1 \in 0..MaxLength /\ r.at + 1 <= length /\ r.at \in Offsets0
      BY <2>1, <3>1 DEF AskerRecords, Offsets0
    <3>3. [r EXCEPT !.at = r.at + 1] \in AskerRecords /\ AskerFits([r EXCEPT !.at = r.at + 1])
      BY <2>1, <3>2 DEF AskerRecords, AskerFits
    <3> QED
      BY <3>1, <3>2, <3>3, AskerGoesOn
  <2>6. CASE QueryLast(a)
    <3> DEFINE q == IF lastStored = -1 THEN 0 ELSE lastStored
    <3> DEFINE e == r.error \/ lastStored = -1
    <3>1. /\ q \in 0..(MaxLength - 1) /\ (q = 0 \/ q < length) /\ e \in BOOLEAN
          /\ ~e => 0 < length
      BY <2>1 DEF AskerRecords, Offsets0
    <3>2. /\ asker' = [asker EXCEPT ![a] = [r EXCEPT !.pc = "close", !.last = q, !.error = e]]
          /\ UNCHANGED <<length, consumed, lastStored>>
      BY <2>1, <2>6 DEF QueryLast, r, AskerRecords
    <3> HIDE DEF q, e
    <3>3. /\ [r EXCEPT !.pc = "close", !.last = q, !.error = e] \in AskerRecords
          /\ AskerFits([r EXCEPT !.pc = "close", !.last = q, !.error = e])
      BY <2>1, <3>1 DEF AskerRecords, AskerFits
    <3> QED
      BY <2>1, <3>2, <3>3, AskerGoesOn
  <2>7. CASE CloseConsumer(a)
    <3>1. /\ asker' = [asker EXCEPT ![a] = [r EXCEPT !.pc = "done"]] /\ r.pc = "close"
          /\ UNCHANGED <<length, consumed, lastStored>>
      BY <2>1, <2>7 DEF CloseConsumer, r, AskerRecords
    <3>2. [r EXCEPT !.pc = "done"] \in AskerRecords /\ AskerFits([r EXCEPT !.pc = "done"])
      BY <2>1, <3>1 DEF AskerRecords, AskerFits
    <3> QED
      BY <2>1, <3>1, <3>2, AskerGoesOn
  <2>8. CASE AskAgain(a)
    <3>1. NoCallYet \in AskerRecords /\ AskerFits(NoCallYet)
      BY <2>1 DEF NoCallYet, AskerRecords, AskerFits
    <3> QED
      BY <2>1, <2>8, <3>1, AskerGoesOn DEF AskAgain
  <2> QED
    BY <1>1, <2>2, <2>3, <2>4, <2>5, <2>6, <2>7, <2>8
<1>2. CASE StreamGrows
  <2>1. /\ length \in Nat /\ length' = length + 1 /\ length' \in 0..MaxLength
        /\ UNCHANGED <<consumed, lastStored, asker>>
    BY <1>2 DEF StreamGrows, SourceInv, SourceTypeOK
  <2>2. SourceTypeOK'
    BY <2>1 DEF SourceInv, SourceTypeOK
  <2>3. OffsetsExist'
    BY <2>1 DEF SourceInv, SourceTypeOK, OffsetsExist, Offsets0
  <2> QED
    BY <2>2, <2>3 DEF SourceInv
<1>3. CASE GroupAdvances
  <2>1. /\ consumed' \in Offsets0 /\ consumed' < length
        /\ UNCHANGED <<length, lastStored, asker>>
    BY <1>3 DEF GroupAdvances, SourceInv, SourceTypeOK, Offsets0
  <2> QED
    BY <2>1 DEF SourceInv, SourceTypeOK, OffsetsExist
<1>4. CASE UNCHANGED sourceVars
  BY <1>4 DEF sourceVars, SourceInv, SourceTypeOK, OffsetsExist
<1> QED
  BY <1>1, <1>2, <1>3, <1>4 DEF SourceNext

\* What SourceStats reports without an error are offsets the stream has, however
\* many callers overwrite each other's offset under the shared name
\* (streamshim.go GetStreamOffset), for streams of any length.
THEOREM StatsAreWithinStream ==
    SourceInit /\ [][SourceNext]_sourceVars => []StatsWithinStream
<1>1. SourceInit => SourceInv
  <2> SUFFICES ASSUME SourceInit PROVE SourceInv
    OBVIOUS
  <2>1. /\ 0 \in 0..MaxLength /\ -1 \in Offsets0 /\ NoCallYet \in AskerRecords
        /\ -1 < 0
    BY SourceStatsAssumption DEF Offsets0, NoCallYet, AskerRecords
  <2>2. SourceTypeOK
    BY <2>1 DEF SourceInit, SourceTypeOK, AskerRecords
  <2>3. OffsetsExist
    BY <2>1 DEF SourceInit, OffsetsExist, NoCallYet
  <2> QED
    BY <2>2, <2>3 DEF SourceInv
<1>2. SourceInv => StatsWithinStream
  BY DEF SourceInv, SourceTypeOK, OffsetsExist, StatsWithinStream
<1> QED
  BY <1>1, <1>2, SourceStepInv, PTL
-----------------------------------------------------------------------------
(***************************************************************************)
(* Declarations.  A declarer that met no error has sent every bind it is   *)
(* through with, and unless one was lost each is on the wire or has been   *)
(* made; what a clean-up is to remove is never a subject of its own        *)
(* declarer, so the subjects all of them name stay once they are bound.    *)
(* The exchange goes only while the bind of the one who cleans up is still *)
(* on the wire, and then the broker refuses it.                            *)
(***************************************************************************)
Named == UNION {SubjectsOf[d] : d \in Declarers}

\* The subjects of d that are on the wire.
Sent(d) == {s \in Subjects : \E i \in 1..Len(bindWire) :
                                bindWire[i].by = d /\ bindWire[i].subject = s}

DeclarerInv(d) ==
    /\ decl[d].pc = "bind" => decl[d].left \subseteq SubjectsOf[d]
    /\ decl[d].pc = "list" => decl[d].left = {}
    /\ decl[d].pc = "clean" => decl[d].left \cap SubjectsOf[d] = {}
    /\ decl[d].clean =>
          /\ decl[d].pc = "clean" => bound \ decl[d].left \subseteq Named
          /\ decl[d].pc = "done" => bound \subseteq Named
    /\ decl[d].clean /\ d \notin unheard =>
          /\ decl[d].pc = "bind" => Agreed \ decl[d].left \subseteq bound \cup Sent(d)
          /\ decl[d].pc \in {"list", "clean", "done"} => Agreed \subseteq bound \cup Sent(d)

Undisturbed == Agreed # {} /\ unheard = {} /\ \A d \in Declarers : decl[d].clean

AddressInv ==
    Undisturbed =>
        /\ Address \in knownExchanges => Address \in exchanges \/ bindWire # <<>>
        /\ loader.pc = "add" /\ Address \in loader.list
              => Address \in exchanges \/ bindWire # <<>>
        /\ \A d \in Declarers : decl[d].pc = "remember"
              => Address \in exchanges \/ bindWire # <<>>

DeclInv ==
    /\ DeclTypeOK /\ (\A d \in Declarers : DeclarerInv(d)) /\ AddressInv

DeclRecords == [pc : DeclPCs, left : SUBSET Subjects, clean : BOOLEAN]

EarlyPCs == {"declare", "remember", "parent", "parentDeclare", "parentRemember", "route",
             "queue", "failed"}

\* Nothing that was sent and is not counted as lost has left the wire.
WireKept ==
    /\ unheard \subseteq unheard'
    /\ \A e \in Declarers : e \notin unheard' => Sent(e) \subseteq Sent(e)'
    /\ unheard' = {} /\ bindWire # <<>> => bindWire' # <<>>

\* A wire nobody touches keeps what is on it.
LEMMA WireSame == ASSUME UNCHANGED wireVars PROVE WireKept
BY DEF WireKept, Sent, wireVars

\* When the channel closes, everybody with a bind on the wire has lost one.
LEMMA WireDropped ==
    ASSUME DeclTypeOK, ChannelCloses
    PROVE  WireKept /\ bindWire' \in Seq(Binds) /\ unheard' \subseteq Declarers
<1>1. bindWire' = <<>> /\ bindWire \in Seq(Binds)
  BY DEF ChannelCloses, DeclTypeOK
<1>2. \A i \in 1..Len(bindWire) : bindWire[i] \in Binds
  BY <1>1
<1>3. /\ unheard' = unheard \cup {bindWire[i].by : i \in 1..Len(bindWire)}
      /\ \A i \in 1..Len(bindWire) : bindWire[i].by \in unheard'
  BY DEF ChannelCloses
<1>4. unheard' \subseteq Declarers
  BY <1>2, <1>3 DEF Binds, DeclTypeOK
<1>5. \A e \in Declarers : e \notin unheard' => Sent(e) = {}
  BY <1>3 DEF Sent
<1>6. bindWire # <<>> => 1 \in 1..Len(bindWire)
  BY <1>1
<1>7. unheard' = {} => bindWire = <<>>
  BY <1>3, <1>6
<1>8. bindWire' \in Seq(Binds) /\ unheard \subseteq unheard'
  BY <1>1, <1>3
<1>9. \A e \in Declarers : e \notin unheard' => Sent(e) \subseteq Sent(e)'
  BY <1>5
<1>10. WireKept
  BY <1>7, <1>8, <1>9 DEF WireKept
<1> QED
  BY <1>4, <1>8, <1>10

\* A bind that is sent joins those on the wire.
LEMMA WireGrows ==
    ASSUME DeclTypeOK, NEW b \in Binds, bindWire' = Append(bindWire, b), unheard' = unheard
    PROVE  WireKept /\ bindWire' \in Seq(Binds) /\ b.subject \in Sent(b.by)'
<1>1. bindWire \in Seq(Binds) /\ b \in Binds
  BY DEF DeclTypeOK
<1>2. /\ Len(bindWire') = Len(bindWire) + 1 /\ Len(bindWire) \in Nat
      /\ \A i \in 1..Len(bindWire) : bindWire'[i] = bindWire[i]
      /\ bindWire'[Len(bindWire) + 1] = b /\ bindWire' \in Seq(Binds)
  BY <1>1
<1>3. \A i \in 1..Len(bindWire) : i \in 1..Len(bindWire')
  BY <1>2
<1>4. \A e \in Declarers : Sent(e) \subseteq Sent(e)'
  BY <1>2, <1>3 DEF Sent, Subjects
<1>5. Len(bindWire) + 1 \in 1..Len(bindWire') /\ b.subject \in Subjects
  BY <1>2 DEF Binds
<1>6. b.subject \in Sent(b.by)'
  BY <1>2, <1>5 DEF Sent, Subjects
<1>7. bindWire' # <<>>
  BY <1>2
<1> QED
  BY <1>2, <1>4, <1>6, <1>7 DEF WireKept

\* The broker takes one bind from the wire.
LEMMA WireShrinks ==
    ASSUME DeclTypeOK, bindWire # <<>>, bindWire' = Tail(bindWire)
    PROVE  /\ bindWire' \in Seq(Binds) /\ Head(bindWire) \in Binds
           /\ \A e \in Declarers : Sent(e) \subseteq Sent(e)' \cup {Head(bindWire).subject}
<1>1. bindWire \in Seq(Binds)
  BY DEF DeclTypeOK
<1>2. /\ bindWire' \in Seq(Binds) /\ Head(bindWire) \in Binds
      /\ Len(bindWire) \in Nat \ {0} /\ Len(bindWire') = Len(bindWire) - 1
      /\ Head(bindWire) = bindWire[1]
      /\ \A i \in 1..Len(bindWire') : bindWire'[i] = bindWire[i + 1]
  BY <1>1
<1>3. ASSUME NEW e \in Declarers, NEW s \in Sent(e), s # Head(bindWire).subject
      PROVE  s \in Sent(e)'
  <2>1. PICK i \in 1..Len(bindWire) : bindWire[i].by = e /\ bindWire[i].subject = s
    BY DEF Sent
  <2>2. i # 1
    BY <1>2, <1>3, <2>1
  <2>3. i - 1 \in 1..Len(bindWire') /\ (i - 1) + 1 = i
    BY <1>2, <2>2
  <2>4. bindWire'[i - 1] = bindWire[i]
    BY <1>2, <2>3
  <2> QED
    BY <2>1, <2>3, <2>4 DEF Sent, Subjects
<1> QED
  BY <1>2, <1>3

\* What a declarer may do without disturbing the others: it takes no subject that
\* all of them name and no bind from the wire, and leaves the exchange alone as long
\* as nobody met an error and nothing is on the wire.
LEMMA DeclarerSteps ==
    ASSUME DeclInv, NEW d \in Declarers, NEW r \in DeclRecords,
           decl' = [decl EXCEPT ![d] = r], UNCHANGED <<connected, loader, losses>>,
           queueExists' \in BOOLEAN, autoDelete' \in BOOLEAN,
           exchanges' \subseteq {Address, Parent}, knownExchanges' \subseteq {Address, Parent},
           bound' \subseteq Subjects, routed' \subseteq Subjects,
           bindWire' \in Seq(Binds), unheard' \subseteq Declarers, WireKept,
           Agreed \cap bound \subseteq bound', bound' \subseteq bound \cup Named,
           DeclarerInv(d)',
           r.clean => decl[d].clean,
           Undisturbed /\ r.pc = "remember" => Address \in exchanges',
           Undisturbed /\ r.clean /\ unheard' = {} /\ Address \in exchanges
              => Address \in exchanges' \/ bindWire' # <<>>,
           Undisturbed /\ Address \in knownExchanges'
              => Address \in knownExchanges \/ decl[d].pc = "remember"
    PROVE  DeclInv'
<1>1. DeclTypeOK'
  BY DEF DeclInv, DeclTypeOK, DeclRecords
<1>2. ASSUME NEW e \in Declarers, e # d PROVE DeclarerInv(e)'
  <2>1. decl'[e] = decl[e] /\ DeclarerInv(e)
    BY <1>2 DEF DeclInv, DeclTypeOK
  <2>2. e \notin unheard' => e \notin unheard /\ Sent(e) \subseteq Sent(e)'
    BY DEF WireKept
  <2> QED
    BY <2>1, <2>2 DEF DeclarerInv
<1>3. ASSUME Undisturbed' PROVE Undisturbed /\ r.clean /\ unheard' = {}
  BY <1>3 DEF Undisturbed, DeclInv, DeclTypeOK, WireKept
<1>4. ASSUME Undisturbed', Address \in exchanges \/ bindWire # <<>>
      PROVE  Address \in exchanges' \/ bindWire' # <<>>
  BY <1>3, <1>4 DEF WireKept
<1>5. \A e \in Declarers : decl'[e] = IF e = d THEN r ELSE decl[e]
  BY DEF DeclInv, DeclTypeOK
<1>6. AddressInv'
  BY <1>3, <1>4, <1>5 DEF DeclInv, AddressInv
<1> QED
  BY <1>1, <1>2, <1>6 DEF DeclInv

\* A declarer on its way to the queue, or one that gives up.
LEMMA EarlySteps ==
    ASSUME DeclInv, NEW d \in Declarers, NEW p \in EarlyPCs,
           DeclGoes(d, p) \/ DeclGoesHurt(d, p),
           UNCHANGED <<queueExists, bound, connected, loader, losses>>,
           ChannelCloses \/ UNCHANGED wireVars,
           autoDelete' \in BOOLEAN, routed' \subseteq Subjects,
           exchanges \subseteq exchanges', exchanges' \subseteq {Address, Parent},
           knownExchanges' \subseteq {Address, Parent},
           p = "remember" => Address \in exchanges',
           Address \in knownExchanges' => Address \in knownExchanges \/ decl[d].pc = "remember"
    PROVE  DeclInv'
<1>1. PICK c \in BOOLEAN :
         /\ decl' = [decl EXCEPT ![d] = [decl[d] EXCEPT !.pc = p, !.clean = c]]
         /\ c => decl[d].clean
  <2>1. decl \in [Declarers -> DeclRecords] /\ decl[d].clean \in BOOLEAN
    BY DEF DeclInv, DeclTypeOK, DeclRecords
  <2>2. CASE DeclGoes(d, p)
    <3>1. decl' = [decl EXCEPT ![d] = [decl[d] EXCEPT !.pc = p, !.clean = decl[d].clean]]
      BY <2>1, <2>2 DEF DeclGoes, DeclRecords
    <3> QED
      BY <2>1, <3>1
  <2>3. CASE DeclGoesHurt(d, p)
    <3>1. decl' = [decl EXCEPT ![d] = [decl[d] EXCEPT !.pc = p, !.clean = FALSE]]
      BY <2>1, <2>3 DEF DeclGoesHurt, DeclRecords
    <3> QED
      BY <3>1
  <2> QED
    BY <2>2, <2>3
<1> DEFINE r == [decl[d] EXCEPT !.pc = p, !.clean = c]
<1>2. r \in DeclRecords /\ r.pc = p /\ r.clean = c
  <2>1. decl[d] \in DeclRecords
    BY DEF DeclInv, DeclTypeOK, DeclRecords
  <2>2. p \in DeclPCs
    BY DEF DeclPCs, EarlyPCs
  <2> QED
    BY <2>1, <2>2 DEF DeclRecords
<1>3. decl'[d] = r /\ decl' = [decl EXCEPT ![d] = r]
  BY <1>1 DEF DeclInv, DeclTypeOK
<1> HIDE DEF r
<1>4. DeclarerInv(d)'
  BY <1>2, <1>3 DEF DeclarerInv, EarlyPCs
<1>5. bound' \subseteq Subjects /\ queueExists' \in BOOLEAN
  BY DEF DeclInv, DeclTypeOK
<1>6. WireKept /\ bindWire' \in Seq(Binds) /\ unheard' \subseteq Declarers
  <2>1. DeclTypeOK
    BY DEF DeclInv
  <2>2. CASE ChannelCloses
    BY <2>1, <2>2, WireDropped
  <2>3. CASE UNCHANGED wireVars
    BY <2>1, <2>3, WireSame DEF wireVars, DeclTypeOK
  <2> QED
    BY <2>2, <2>3
<1> QED
  BY <1>1, <1>2, <1>3, <1>4, <1>5, <1>6, DeclarerSteps

\* The steps before the queue.
LEMMA DeclareExchangeInv ==
    ASSUME DeclInv, NEW d \in Declarers,
           \/ ExchangeCheck(d) \/ ExchangeDeclare(d) \/ ExchangeRemember(d)
           \/ ParentCheck(d) \/ ParentDeclare(d) \/ ParentRemember(d) \/ RouteFromParent(d)
    PROVE  DeclInv'
<1> USE DEF brokerVars, sessionVars
<1>1. DeclTypeOK
  BY DEF DeclInv
<1>2. CASE ExchangeCheck(d)
  BY <1>1, <1>2, EarlySteps DEF ExchangeCheck, EarlyPCs, DeclTypeOK
<1>3. CASE ExchangeDeclare(d)
  <2>1. /\ UNCHANGED <<queueExists, bound, routed, connected, knownExchanges, loader, losses>>
        /\ \/ exchanges' = exchanges \cup {Address} /\ autoDelete' = (d \in AutoDelete)
           \/ UNCHANGED <<exchanges, autoDelete>>
    BY <1>3 DEF ExchangeDeclare
  <2>2. exchanges \subseteq exchanges' /\ exchanges' \subseteq {Address, Parent}
    BY <1>1, <2>1 DEF DeclTypeOK
  <2>3. autoDelete' \in BOOLEAN
    <3>1. (d \in AutoDelete) \in BOOLEAN
      OBVIOUS
    <3>2. autoDelete \in BOOLEAN
      BY <1>1 DEF DeclTypeOK
    <3> QED
      BY <2>1, <3>1, <3>2, Zenon
  <2>4. routed' \subseteq Subjects /\ knownExchanges' \subseteq {Address, Parent}
    BY <1>1, <2>1 DEF DeclTypeOK
  <2>5. \/ /\ DeclGoes(d, "remember") /\ Address \in exchanges'
           /\ ChannelCloses \/ UNCHANGED wireVars
        \/ DeclGoesHurt(d, "queue") /\ ChannelCloses
    BY <1>3 DEF ExchangeDeclare, RequestFails
  <2>6. CASE DeclGoes(d, "remember") /\ Address \in exchanges'
             /\ (ChannelCloses \/ UNCHANGED wireVars)
    BY <2>1, <2>2, <2>3, <2>4, <2>6, EarlySteps DEF EarlyPCs
  <2>7. CASE DeclGoesHurt(d, "queue") /\ ChannelCloses
    BY <2>1, <2>2, <2>3, <2>4, <2>7, EarlySteps DEF EarlyPCs
  <2> QED
    BY <2>5, <2>6, <2>7
<1>4. CASE ExchangeRemember(d)
  BY <1>1, <1>4, EarlySteps DEF ExchangeRemember, EarlyPCs, DeclTypeOK
<1>5. CASE ParentCheck(d)
  BY <1>1, <1>5, EarlySteps DEF ParentCheck, EarlyPCs, DeclTypeOK
<1>6. CASE ParentDeclare(d)
  BY <1>1, <1>6, EarlySteps DEF ParentDeclare, RequestFails, EarlyPCs, DeclTypeOK
<1>7. CASE ParentRemember(d)
  BY <1>1, <1>7, EarlySteps, DeclarationsAssumption DEF ParentRemember, EarlyPCs, DeclTypeOK
<1>8. CASE RouteFromParent(d)
  <2>1. routed' \subseteq Subjects
    BY <1>1, <1>8 DEF RouteFromParent, DeclTypeOK, Subjects
  <2> QED
    BY <1>1, <1>8, <2>1, EarlySteps DEF RouteFromParent, RequestFails, EarlyPCs, DeclTypeOK
<1> QED
  BY <1>2, <1>3, <1>4, <1>5, <1>6, <1>7, <1>8

\* The steps from the queue on.
LEMMA DeclareBindingInv ==
    ASSUME DeclInv, NEW d \in Declarers,
           DeclareQueue(d) \/ DeclareBinding(d) \/ ListBindings(d) \/ CleanupBindings(d)
    PROVE  DeclInv'
<1> USE DEF brokerVars, sessionVars
<1>1. DeclTypeOK /\ DeclarerInv(d) /\ decl \in [Declarers -> DeclRecords]
  BY DEF DeclInv, DeclTypeOK, DeclRecords
<1>2. SubjectsOf[d] \subseteq Subjects /\ SubjectsOf[d] \subseteq Named
      /\ Agreed \subseteq SubjectsOf[d] /\ Agreed \subseteq Subjects
  BY DEF Subjects, Named, Agreed
<1>3. UNCHANGED wireVars =>
         WireKept /\ bindWire' \in Seq(Binds) /\ unheard' \subseteq Declarers
                  /\ UNCHANGED <<bindWire, unheard>> /\ Sent(d)' = Sent(d)
  BY <1>1, WireSame DEF wireVars, DeclTypeOK, Sent
<1>4. CASE DeclareQueue(d)
  <2>1. /\ UNCHANGED <<exchanges, autoDelete, bound, routed, connected, knownExchanges,
                       loader, losses>>
        /\ queueExists' \in BOOLEAN
        /\ WireKept /\ bindWire' \in Seq(Binds) /\ unheard' \subseteq Declarers
    BY <1>1, <1>3, <1>4, WireDropped DEF DeclareQueue, DeclTypeOK
  <2>2. PICK p \in {"bind", "failed"}, c \in BOOLEAN :
           /\ decl' = [decl EXCEPT ![d] = [decl[d] EXCEPT !.pc = p, !.left = SubjectsOf[d],
                                                         !.clean = c]]
           /\ c => decl[d].clean
    <3>1. ASSUME NEW p \in {"bind", "failed"}, NEW c \in BOOLEAN
          PROVE  /\ [decl EXCEPT ![d].pc = p, ![d].left = SubjectsOf[d], ![d].clean = c]
                     = [decl EXCEPT ![d] = [decl[d] EXCEPT !.pc = p, !.left = SubjectsOf[d],
                                                           !.clean = c]]
                 /\ [decl EXCEPT ![d].pc = p, ![d].left = SubjectsOf[d]]
                     = [decl EXCEPT ![d] = [decl[d] EXCEPT !.pc = p, !.left = SubjectsOf[d],
                                                           !.clean = decl[d].clean]]
      BY <1>1 DEF DeclRecords
    <3>2. decl[d].clean \in BOOLEAN
      BY <1>1 DEF DeclRecords
    <3> QED
      BY <1>4, <3>1, <3>2 DEF DeclareQueue
  <2> DEFINE q == [decl[d] EXCEPT !.pc = p, !.left = SubjectsOf[d], !.clean = c]
  <2>3. /\ q \in DeclRecords /\ decl'[d] = q
        /\ q.pc = p /\ q.left = SubjectsOf[d] /\ q.clean = c
    BY <1>1, <1>2, <2>2 DEF DeclRecords, DeclPCs
  <2> HIDE DEF q
  <2>4. DeclarerInv(d)'
    BY <1>2, <2>3 DEF DeclarerInv
  <2> QED
    BY <1>1, <2>1, <2>2, <2>3, <2>4, DeclarerSteps DEF DeclTypeOK, q
<1>5. CASE DeclareBinding(d)
  <2>1. /\ UNCHANGED <<exchanges, autoDelete, queueExists, bound, routed, connected,
                       knownExchanges, loader, losses, unheard>>
        /\ decl[d].pc = "bind" /\ decl[d].left \subseteq SubjectsOf[d]
        /\ decl[d].clean /\ d \notin unheard
              => Agreed \ decl[d].left \subseteq bound \cup Sent(d)
    BY <1>1, <1>5 DEF DeclareBinding, DeclarerInv
  <2>2. ASSUME NEW s \in decl[d].left,
               bindWire' = Append(bindWire, [by |-> d, subject |-> s]),
               decl' = [decl EXCEPT ![d].left = @ \ {s}]
        PROVE  DeclInv'
    <3> DEFINE q == [decl[d] EXCEPT !.left = decl[d].left \ {s}]
               b == [by |-> d, subject |-> s]
    <3>1. /\ q \in DeclRecords /\ q.left = decl[d].left \ {s} /\ q.pc = "bind"
          /\ q.clean = decl[d].clean /\ decl' = [decl EXCEPT ![d] = q] /\ decl'[d] = q
      BY <1>1, <2>1, <2>2 DEF DeclRecords
    <3>2. b \in Binds /\ b.by = d /\ b.subject = s
      BY <1>2, <2>1, <2>2 DEF Binds
    <3> HIDE DEF q, b
    <3>3. WireKept /\ bindWire' \in Seq(Binds) /\ s \in Sent(d)'
      <4>1. bindWire' = Append(bindWire, b) /\ unheard' = unheard
        BY <2>1, <2>2 DEF b
      <4>2. WireKept /\ bindWire' \in Seq(Binds) /\ b.subject \in Sent(b.by)'
        BY <1>1, <3>2, <4>1, WireGrows
      <4> QED
        BY <3>2, <4>2
    <3>4. d \notin unheard => Sent(d) \subseteq Sent(d)'
      BY <2>1, <3>3 DEF WireKept
    <3>5. DeclarerInv(d)'
      BY <2>1, <3>1, <3>3, <3>4 DEF DeclarerInv
    <3> QED
      BY <1>1, <2>1, <3>1, <3>3, <3>5, DeclarerSteps DEF DeclTypeOK
  <2>3. ASSUME NEW s \in decl[d].left, bindWire' = bindWire,
               decl' = [decl EXCEPT ![d].left = @ \ {s}, ![d].clean = FALSE]
        PROVE  DeclInv'
    <3> DEFINE q == [decl[d] EXCEPT !.left = decl[d].left \ {s}, !.clean = FALSE]
    <3>1. /\ q \in DeclRecords /\ q.left = decl[d].left \ {s} /\ q.pc = "bind"
          /\ ~q.clean /\ decl' = [decl EXCEPT ![d] = q] /\ decl'[d] = q
      BY <1>1, <2>1, <2>3 DEF DeclRecords
    <3> HIDE DEF q
    <3>2. DeclarerInv(d)'
      BY <2>1, <2>3, <3>1 DEF DeclarerInv
    <3>3. WireKept /\ bindWire' \in Seq(Binds) /\ unheard' \subseteq Declarers
      BY <1>3, <2>1, <2>3 DEF wireVars
    <3> QED
      BY <1>1, <2>1, <3>1, <3>2, <3>3, DeclarerSteps DEF DeclTypeOK
  <2>4. CASE decl[d].left = {} /\ DeclGoes(d, "list") /\ UNCHANGED bindWire
    <3> DEFINE q == [decl[d] EXCEPT !.pc = "list"]
    <3>1. /\ q \in DeclRecords /\ q.left = {} /\ q.pc = "list"
          /\ q.clean = decl[d].clean /\ decl' = [decl EXCEPT ![d] = q] /\ decl'[d] = q
      BY <1>1, <2>4 DEF DeclRecords, DeclPCs, DeclGoes
    <3> HIDE DEF q
    <3>2. /\ WireKept /\ bindWire' \in Seq(Binds) /\ unheard' \subseteq Declarers
          /\ Sent(d)' = Sent(d)
      BY <1>3, <2>1, <2>4 DEF wireVars
    <3>3. DeclarerInv(d)'
      BY <2>1, <2>4, <3>1, <3>2 DEF DeclarerInv
    <3> QED
      BY <1>1, <2>1, <3>1, <3>2, <3>3, DeclarerSteps DEF DeclTypeOK
  <2>5. CASE DeclGoesHurt(d, "failed") /\ UNCHANGED bindWire
    BY <1>1, <2>1, <2>5, EarlySteps DEF DeclTypeOK, EarlyPCs, wireVars
  <2> QED
    BY <1>5, <2>2, <2>3, <2>4, <2>5 DEF DeclareBinding
<1>6. CASE ListBindings(d)
  <2>1. /\ UNCHANGED <<exchanges, autoDelete, queueExists, bound, routed, connected,
                       knownExchanges, loader, losses>>
        /\ UNCHANGED wireVars
        /\ decl[d].pc = "list" /\ decl[d].left = {}
        /\ decl[d].clean /\ d \notin unheard => Agreed \subseteq bound \cup Sent(d)
    BY <1>1, <1>6 DEF ListBindings, DeclarerInv
  <2>2. CASE decl' = [decl EXCEPT ![d].left = bound \ SubjectsOf[d], ![d].pc = "clean"]
    <3> DEFINE q == [decl[d] EXCEPT !.left = bound \ SubjectsOf[d], !.pc = "clean"]
    <3>1. /\ q \in DeclRecords /\ q.left = bound \ SubjectsOf[d] /\ q.pc = "clean"
          /\ q.clean = decl[d].clean /\ decl' = [decl EXCEPT ![d] = q] /\ decl'[d] = q
      BY <1>1, <2>2 DEF DeclRecords, DeclPCs, DeclTypeOK
    <3> HIDE DEF q
    <3>2. DeclarerInv(d)'
      BY <1>2, <1>3, <2>1, <3>1 DEF DeclarerInv
    <3> QED
      BY <1>1, <1>3, <2>1, <3>1, <3>2, DeclarerSteps DEF DeclTypeOK
  <2>3. CASE DeclGoesHurt(d, "clean")
    <3> DEFINE q == [decl[d] EXCEPT !.pc = "clean", !.clean = FALSE]
    <3>1. /\ q \in DeclRecords /\ q.left = {} /\ q.pc = "clean"
          /\ ~q.clean /\ decl' = [decl EXCEPT ![d] = q] /\ decl'[d] = q
      BY <1>1, <2>1, <2>3 DEF DeclRecords, DeclPCs, DeclGoesHurt
    <3> HIDE DEF q
    <3>2. DeclarerInv(d)'
      BY <3>1 DEF DeclarerInv
    <3> QED
      BY <1>1, <1>3, <2>1, <3>1, <3>2, DeclarerSteps DEF DeclTypeOK
  <2> QED
    BY <1>6, <2>2, <2>3 DEF ListBindings
<1>7. CASE CleanupBindings(d)
  <2>1. /\ UNCHANGED <<autoDelete, queueExists, connected, knownExchanges, loader, losses>>
        /\ UNCHANGED wireVars
        /\ decl[d].pc = "clean" /\ decl[d].left \cap SubjectsOf[d] = {}
        /\ decl[d].clean => bound \ decl[d].left \subseteq Named
        /\ decl[d].clean /\ d \notin unheard => Agreed \subseteq bound \cup Sent(d)
    BY <1>1, <1>7 DEF CleanupBindings, DeclarerInv
  <2>2. ASSUME NEW s \in decl[d].left, bound' = bound \ {s},
               IF autoDelete /\ bound = {s}
               THEN exchanges' = exchanges \ {Address} /\ routed' = {}
               ELSE UNCHANGED <<exchanges, routed>>,
               decl' = [decl EXCEPT ![d].left = @ \ {s}]
        PROVE  DeclInv'
    <3> DEFINE q == [decl[d] EXCEPT !.left = decl[d].left \ {s}]
    <3>1. /\ q \in DeclRecords /\ q.left = decl[d].left \ {s} /\ q.pc = "clean"
          /\ q.clean = decl[d].clean /\ decl' = [decl EXCEPT ![d] = q] /\ decl'[d] = q
      BY <1>1, <2>1, <2>2 DEF DeclRecords
    <3> HIDE DEF q
    <3>2. s \notin Agreed
      BY <1>2, <2>1, <2>2
    <3>3. DeclarerInv(d)'
      BY <1>3, <2>1, <2>2, <3>1, <3>2 DEF DeclarerInv
    <3>4. ASSUME Undisturbed, bound = {s} PROVE bindWire' # <<>>
      <4>1. PICK a \in Agreed : a \in Sent(d)
        BY <2>1, <3>2, <3>4 DEF Undisturbed
      <4>2. PICK i \in 1..Len(bindWire) : bindWire[i].by = d
        BY <4>1 DEF Sent
      <4>3. bindWire # <<>>
        BY <4>2
      <4> QED
        BY <1>3, <2>1, <4>3
    <3>5. /\ bound' \subseteq Subjects /\ exchanges' \subseteq {Address, Parent}
          /\ routed' \subseteq Subjects
          /\ Agreed \cap bound \subseteq bound' /\ bound' \subseteq bound \cup Named
      BY <1>1, <2>2, <3>2 DEF DeclTypeOK
    <3>6. Undisturbed /\ Address \in exchanges => Address \in exchanges' \/ bindWire' # <<>>
      BY <2>2, <3>4
    <3> QED
      BY <1>1, <1>3, <2>1, <3>1, <3>3, <3>5, <3>6, DeclarerSteps DEF DeclTypeOK
  <2>3. ASSUME NEW s \in decl[d].left, UNCHANGED <<bound, exchanges, routed>>,
               decl' = [decl EXCEPT ![d].left = @ \ {s}, ![d].clean = FALSE]
        PROVE  DeclInv'
    <3> DEFINE q == [decl[d] EXCEPT !.left = decl[d].left \ {s}, !.clean = FALSE]
    <3>1. /\ q \in DeclRecords /\ q.left = decl[d].left \ {s} /\ q.pc = "clean"
          /\ ~q.clean /\ decl' = [decl EXCEPT ![d] = q] /\ decl'[d] = q
      BY <1>1, <2>1, <2>3 DEF DeclRecords
    <3> HIDE DEF q
    <3>2. DeclarerInv(d)'
      BY <2>1, <2>3, <3>1 DEF DeclarerInv
    <3> QED
      BY <1>1, <1>3, <2>1, <2>3, <3>1, <3>2, DeclarerSteps DEF DeclTypeOK
  <2>4. CASE decl[d].left = {} /\ DeclGoes(d, "done") /\ UNCHANGED <<bound, exchanges, routed>>
    <3> DEFINE q == [decl[d] EXCEPT !.pc = "done"]
    <3>1. /\ q \in DeclRecords /\ q.left = {} /\ q.pc = "done"
          /\ q.clean = decl[d].clean /\ decl' = [decl EXCEPT ![d] = q] /\ decl'[d] = q
      BY <1>1, <2>4 DEF DeclRecords, DeclPCs, DeclGoes
    <3> HIDE DEF q
    <3>2. DeclarerInv(d)'
      BY <1>3, <2>1, <2>4, <3>1 DEF DeclarerInv
    <3> QED
      BY <1>1, <1>3, <2>1, <2>4, <3>1, <3>2, DeclarerSteps DEF DeclTypeOK
  <2> QED
    BY <1>7, <2>2, <2>3, <2>4 DEF CleanupBindings
<1> QED
  BY <1>4, <1>5, <1>6, <1>7

\* The broker makes a binding, or refuses one and closes the channel.
LEMMA BrokerBindsInv == ASSUME DeclInv, BrokerBinds PROVE DeclInv'
<1> USE DEF sessionVars
<1>1. /\ DeclTypeOK /\ bindWire # <<>>
      /\ UNCHANGED <<exchanges, autoDelete, queueExists, routed, connected, knownExchanges,
                     loader, losses, decl>>
  BY DEF DeclInv, BrokerBinds
<1>2. CASE ~(queueExists /\ Address \in exchanges) /\ ChannelCloses /\ UNCHANGED bound
  <2>1. WireKept /\ bindWire' \in Seq(Binds) /\ unheard' \subseteq Declarers
    BY <1>1, <1>2, WireDropped
  <2>2. DeclTypeOK'
    BY <1>1, <1>2, <2>1 DEF DeclTypeOK
  <2>3. \A d \in Declarers : DeclarerInv(d)'
    BY <1>1, <1>2, <2>1 DEF DeclInv, DeclarerInv, WireKept
  <2>4. unheard' # {}
    BY <1>1, <1>2, <2>1 DEF WireKept, ChannelCloses
  <2>5. AddressInv'
    BY <2>4 DEF AddressInv, Undisturbed
  <2> QED
    BY <2>2, <2>3, <2>5 DEF DeclInv
<1>3. CASE /\ queueExists /\ Address \in exchanges
           /\ bound' = bound \cup {Head(bindWire).subject}
           /\ bindWire' = Tail(bindWire) /\ UNCHANGED unheard
  <2> DEFINE s == Head(bindWire).subject
  <2>1. /\ bindWire' \in Seq(Binds) /\ Head(bindWire) \in Binds
        /\ \A e \in Declarers : Sent(e) \subseteq Sent(e)' \cup {s}
    BY <1>1, <1>3, WireShrinks
  <2>2. s \in Subjects /\ s \in Named
    BY <2>1 DEF Binds, Named
  <2>3. bound' = bound \cup {s}
    BY <1>3
  <2> HIDE DEF s
  <2>4. DeclTypeOK'
    BY <1>1, <1>3, <2>1, <2>2, <2>3 DEF DeclTypeOK
  <2>5. ASSUME NEW d \in Declarers PROVE DeclarerInv(d)'
    <3>1. DeclarerInv(d) /\ Sent(d) \subseteq Sent(d)' \cup {s}
      BY <2>1 DEF DeclInv
    <3> QED
      BY <1>1, <1>3, <2>2, <2>3, <3>1 DEF DeclarerInv
  <2>6. AddressInv'
    BY <1>1, <1>3 DEF AddressInv
  <2> QED
    BY <2>4, <2>5, <2>6 DEF DeclInv
<1> QED
  BY <1>2, <1>3 DEF BrokerBinds

\* Every step of the declarers, the broker, the connection and loadExchanges keeps
\* the invariant.
LEMMA DeclStepInv == DeclInv /\ [DeclNext]_declVars => DeclInv'
<1> SUFFICES ASSUME DeclInv, [DeclNext]_declVars PROVE DeclInv'
  OBVIOUS
<1> USE DeclarationsAssumption DEF brokerVars, wireVars
<1>1. ASSUME NEW d \in Declarers, DeclareStep(d) PROVE DeclInv'
  BY <1>1, DeclareExchangeInv, DeclareBindingInv DEF DeclareStep
<1>2. ASSUME UNCHANGED <<bound, decl, bindWire, unheard>>
      PROVE \A d \in Declarers : DeclarerInv(d)'
  BY <1>2 DEF DeclInv, DeclarerInv, Sent
<1>3. CASE ConnectionLoss
  <2>1. losses' \in 0..MaxLosses
    BY <1>3 DEF ConnectionLoss, DeclInv, DeclTypeOK
  <2>2. WireKept /\ bindWire' \in Seq(Binds) /\ unheard' \subseteq Declarers
    BY <1>3, WireDropped DEF ConnectionLoss, DeclInv
  <2>3. DeclTypeOK'
    BY <1>3, <2>1, <2>2 DEF ConnectionLoss, DeclInv, DeclTypeOK
  <2>4. \A d \in Declarers : DeclarerInv(d)'
    BY <1>3, <2>2 DEF ConnectionLoss, DeclInv, DeclarerInv, WireKept
  <2>5. AddressInv'
    <3>1. Undisturbed' => Undisturbed /\ (bindWire # <<>> => bindWire' # <<>>)
      BY <1>3, <2>2 DEF ConnectionLoss, Undisturbed, WireKept
    <3> QED
      BY <1>3, <3>1 DEF ConnectionLoss, DeclInv, AddressInv
  <2> QED
    BY <2>3, <2>4, <2>5 DEF DeclInv
<1>4. CASE Reconnect
  <2>1. DeclTypeOK'
    BY <1>4 DEF Reconnect, DeclInv, DeclTypeOK
  <2>2. loader'.list = loader.list /\ (loader'.pc = "add" => loader.pc = "add")
    BY <1>4 DEF Reconnect, DeclInv, DeclTypeOK
  <2>3. AddressInv'
    BY <1>4, <2>2 DEF Reconnect, DeclInv, AddressInv, Undisturbed
  <2> QED
    BY <1>2, <1>4, <2>1, <2>3 DEF Reconnect, DeclInv
<1>5. CASE LoadGet
  <2>1. DeclTypeOK'
    BY <1>5 DEF LoadGet, DeclInv, DeclTypeOK
  <2>2. AddressInv'
    BY <1>5 DEF LoadGet, DeclInv, AddressInv, Undisturbed
  <2> QED
    BY <1>2, <1>5, <2>1, <2>2 DEF LoadGet, DeclInv
<1>6. CASE LoadAdd
  <2>1. DeclTypeOK'
    BY <1>6 DEF LoadAdd, DeclInv, DeclTypeOK
  <2>2. AddressInv'
    BY <1>6 DEF LoadAdd, DeclInv, AddressInv, Undisturbed
  <2> QED
    BY <1>2, <1>6, <2>1, <2>2 DEF LoadAdd, DeclInv
<1>7. CASE UNCHANGED declVars
  <2>1. DeclTypeOK'
    BY <1>7 DEF declVars, DeclInv, DeclTypeOK
  <2>2. AddressInv'
    BY <1>7 DEF declVars, DeclInv, AddressInv, Undisturbed
  <2> QED
    BY <1>2, <1>7, <2>1, <2>2 DEF declVars, DeclInv
<1> QED
  BY <1>1, <1>3, <1>4, <1>5, <1>6, <1>7, BrokerBindsInv DEF DeclNext

\* Before anybody declares, the cache is empty and nobody has met an error.
LEMMA DeclInitInv == DeclInit => DeclInv
<1> SUFFICES ASSUME DeclInit PROVE DeclInv
  OBVIOUS
<1> USE DeclarationsAssumption
<1>1. decl \in [Declarers -> DeclRecords]
  BY DEF DeclInit, DeclRecords, DeclPCs
<1>2. bindWire \in Seq(Binds) /\ unheard \subseteq Declarers
  BY DEF DeclInit
<1>3. DeclTypeOK
  <2>1. /\ exchanges \subseteq {Address, Parent} /\ knownExchanges \subseteq {Address, Parent}
        /\ bound \subseteq Subjects /\ routed \subseteq Subjects
    BY DEF DeclInit, Subjects
  <2>2. autoDelete \in BOOLEAN /\ queueExists \in BOOLEAN /\ connected \in BOOLEAN
    BY DEF DeclInit
  <2>3. loader \in [pc : {"idle", "get", "add"}, list : SUBSET {Address, Parent}]
    BY DEF DeclInit
  <2>4. losses \in 0..MaxLosses
    BY DeclarationsAssumption DEF DeclInit
  <2> QED
    BY <1>1, <1>2, <2>1, <2>2, <2>3, <2>4 DEF DeclTypeOK, DeclRecords
<1>4. \A d \in Declarers : DeclarerInv(d)
  BY DEF DeclInit, DeclarerInv
<1>5. AddressInv
  BY DEF DeclInit, AddressInv
<1> QED
  BY <1>3, <1>4, <1>5 DEF DeclInv

\* The cache of addresses names none that the broker lacks, as long as nothing failed,
\* no bind is under way or was lost, and the declarers have a subject in common
\* (amqp091.go declareExchange, cleanupBindings; amqp091shim.go QueueBind), for any
\* number of declarers and subjects.
THEOREM KnownAddressesExist == DeclInit /\ [][DeclNext]_declVars => []KnownAddressExists
<1>1. DeclInv => KnownAddressExists
  BY DEF DeclInv, AddressInv, Undisturbed, KnownAddressExists, AllHeard
<1> QED
  BY <1>1, DeclInitInv, DeclStepInv, PTL

\* Overlapping declarations of one queue that all went well leave none bound that
\* nobody names and, once the broker has come to every bind and lost none, all that
\* the declarers agree on (amqp091.go declareBinding, cleanupBindings; amqp091shim.go
\* QueueBind), for any number of declarers and subjects.
THEOREM BindingsAreSettled == DeclInit /\ [][DeclNext]_declVars => []BindingsSettled
<1>1. DeclInv => BindingsSettled
  <2> SUFFICES ASSUME DeclInv PROVE BindingsSettled
    OBVIOUS
  <2>1. PICK d \in Declarers : TRUE
    BY DeclarationsAssumption
  <2>2. bindWire = <<>> => Sent(d) = {}
    BY DEF Sent
  <2>3. SharedSubjectsBound
    BY <2>2 DEF DeclInv, DeclarerInv, SharedSubjectsBound, AllWell, AllHeard
  <2>4. OldSubjectsGone
    BY <2>1 DEF DeclInv, DeclarerInv, OldSubjectsGone, AllWell, Named
  <2> QED
    BY <2>3, <2>4 DEF DeclInv, BindingsSettled
<1> QED
  BY <1>1, DeclInitInv, DeclStepInv, PTL
-----------------------------------------------------------------------------
(***************************************************************************)
(* Bodies of stream messages.  What the stream holds is the message that   *)
(* was written, or that message with one layer of gzip and the mark, and   *)
(* the handler takes exactly that layer off.                               *)
(***************************************************************************)
WireFits(m, w) ==
    \/ w = m
    \/ w.mark = "gzip" /\ \E size \in BodySizes : w.body = Append(m.body, size)

BodyInv ==
    /\ BodyTypeOK
    /\ \A i \in 1..Len(wire) : WireFits(written[i], wire[i])
    /\ BodyUnchanged

\* What appending to a sequence gives.
LEMMA AppendFacts ==
    ASSUME NEW S, NEW q \in Seq(S), NEW e \in S
    PROVE  /\ Append(q, e) \in Seq(S) /\ Len(Append(q, e)) = Len(q) + 1
           /\ Append(q, e)[Len(q) + 1] = e
           /\ \A j \in 1..Len(q) : Append(q, e)[j] = q[j]
OBVIOUS

\* The last element of a sequence can be taken off again.
LEMMA FrontOfAppend ==
    ASSUME NEW S, NEW b \in Seq(S), NEW x \in S
    PROVE  SubSeq(Append(b, x), 1, Len(Append(b, x)) - 1) = b
<1> DEFINE t == Append(b, x)
<1>1. Len(t) - 1 = Len(b) /\ t \in Seq(S) /\ Len(b) \in Nat
  OBVIOUS
<1>2. \A i \in 1..Len(b) : t[i] = b[i]
  OBVIOUS
<1>3. SubSeq(t, 1, Len(b)) \in Seq(S) /\ Len(SubSeq(t, 1, Len(b))) = Len(b)
  BY <1>1
<1>4. \A i \in 1..Len(b) : SubSeq(t, 1, Len(b))[i] = t[i]
  BY <1>1
<1> QED
  BY <1>1, <1>2, <1>3, <1>4

\* Bodies are sequences of sizes.
LEMMA BodiesAreSequences ==
    /\ \A b \in Bodies : b \in Seq(BodySizes) /\ Len(b) \in 1..3
    /\ \A b \in Seq(BodySizes) : Len(b) \in 1..3 => b \in Bodies
<1>1. ASSUME NEW b \in Bodies PROVE b \in Seq(BodySizes) /\ Len(b) \in 1..3
  <2>1. PICK n \in 1..3 : b \in [1..n -> BodySizes]
    BY DEF Bodies
  <2> QED
    BY <2>1
<1>2. ASSUME NEW b \in Seq(BodySizes), Len(b) \in 1..3 PROVE b \in Bodies
  BY <1>2 DEF Bodies
<1> QED
  BY <1>1, <1>2

\* compressMessage leaves a message alone or puts one layer around it.
LEMMA CompressFits ==
    ASSUME NEW m \in StreamMessages, NEW size \in BodySizes, Len(m.body) < 3
    PROVE  compressMessage(m, size) \in StreamMessages /\ WireFits(m, compressMessage(m, size))
<1>1. m.body \in Seq(BodySizes) /\ Len(m.body) \in 1..3
  BY BodiesAreSequences DEF StreamMessages
<1>2. Append(m.body, size) \in Seq(BodySizes) /\ Len(Append(m.body, size)) \in 1..3
  BY <1>1
<1>3. Append(m.body, size) \in Bodies
  BY <1>2, BodiesAreSequences
<1> DEFINE w == [body |-> Append(m.body, size), mark |-> "gzip"]
<1>4. w \in StreamMessages /\ WireFits(m, w)
  BY <1>3 DEF StreamMessages, Marks, WireFits
<1>5. WireFits(m, m)
  BY DEF WireFits
<1> QED
  BY <1>4, <1>5 DEF compressMessage

\* What the handler passes on is what was written, if the writer did not mark it.
LEMMA DecompressFits ==
    ASSUME NEW m \in StreamMessages, NEW w \in StreamMessages, WireFits(m, w)
    PROVE  decompressBody(w) \in StreamMessages /\ (m.mark = "" => decompressBody(w) = m)
<1>1. m.body \in Seq(BodySizes) /\ w.body \in Seq(BodySizes) /\ Len(w.body) \in 1..3
      /\ Len(m.body) \in 1..3
  BY BodiesAreSequences DEF StreamMessages
<1> DEFINE front == SubSeq(w.body, 1, Len(w.body) - 1)
<1>2. ASSUME Len(w.body) > 1 PROVE [body |-> front, mark |-> ""] \in StreamMessages
  <2>1. front \in Seq(BodySizes) /\ Len(front) \in 1..3
    <3> DEFINE b == w.body
    <3> DEFINE n == Len(b) - 1
    <3>1. b \in Seq(BodySizes) /\ n \in 1..3 /\ n <= Len(b)
      BY <1>1, <1>2
    <3> HIDE DEF b, n
    <3>2. SubSeq(b, 1, n) \in Seq(BodySizes) /\ Len(SubSeq(b, 1, n)) = n
      BY <3>1
    <3> QED
      BY <3>1, <3>2 DEF b, n
  <2> QED
    BY <2>1, BodiesAreSequences DEF StreamMessages, Marks
<1>3. decompressBody(w) \in StreamMessages
  BY <1>2 DEF decompressBody
<1>4. ASSUME m.mark = "" PROVE decompressBody(w) = m
  <2>1. CASE w = m
    BY <1>4, <2>1 DEF decompressBody
  <2>2. ASSUME w.mark = "gzip", NEW size \in BodySizes, w.body = Append(m.body, size)
        PROVE  decompressBody(w) = m
    <3>1. front = m.body /\ Len(w.body) > 1
      BY <1>1, <2>2, FrontOfAppend
    <3>2. m = [body |-> m.body, mark |-> ""]
      BY <1>4 DEF StreamMessages
    <3> QED
      BY <2>2, <3>1, <3>2 DEF decompressBody
  <2> QED
    BY <2>1, <2>2 DEF WireFits
<1> QED
  BY <1>3, <1>4

\* What a consumer reads is what was written, whatever its size and however well it
\* compresses, unless the writer has marked it as gzip itself (compression.go
\* compressMessage, the handler of streamSubscribe), for any sizes and any limit.
THEOREM BodiesUnchanged == BodyInit /\ [][BodyNext]_bodyVars => []BodyUnchanged
<1> USE BodyAssumption
<1>1. BodyInit => BodyInv
  BY DEF BodyInit, BodyInv, BodyTypeOK, BodyUnchanged
<1>2. BodyInv /\ [BodyNext]_bodyVars => BodyInv'
  <2> SUFFICES ASSUME BodyInv, [BodyNext]_bodyVars PROVE BodyInv'
    OBVIOUS
  <2>1. ASSUME NEW m \in StreamMessages, NEW size \in BodySizes, Len(m.body) < 3,
               PublishBody(m, size)
        PROVE  BodyInv'
    <3> DEFINE w == compressMessage(m, size)
    <3>1. w \in StreamMessages /\ WireFits(m, w)
      BY <2>1, CompressFits
    <3> HIDE DEF w
    <3>2. /\ Len(wire) < MaxPublished /\ written' = Append(written, m)
          /\ wire' = Append(wire, w) /\ UNCHANGED read
      BY <2>1 DEF PublishBody, w
    <3>3. BodyTypeOK'
      BY <3>1, <3>2 DEF BodyInv, BodyTypeOK
    <3>4. \A i \in 1..Len(wire') : WireFits(written'[i], wire'[i])
      BY <3>1, <3>2 DEF BodyInv, BodyTypeOK
    <3>5. BodyUnchanged'
      <4>1. /\ read \in Seq(StreamMessages) /\ written \in Seq(StreamMessages)
            /\ Len(read) <= Len(written)
        BY DEF BodyInv, BodyTypeOK
      <4>2. \A i \in 1..Len(read) : written'[i] = written[i]
        BY <3>2, <4>1
      <4> QED
        BY <3>2, <4>2 DEF BodyInv, BodyUnchanged
    <3> QED
      BY <3>3, <3>4, <3>5 DEF BodyInv, WireFits
  <2>2. CASE ReadBody
    <3> DEFINE i == Len(read) + 1
    <3> DEFINE x == decompressBody(wire[i])
    <3>1. /\ i \in 1..Len(wire) /\ written[i] \in StreamMessages /\ wire[i] \in StreamMessages
          /\ WireFits(written[i], wire[i])
      BY <2>2 DEF ReadBody, BodyInv, BodyTypeOK
    <3>2. x \in StreamMessages /\ (written[i].mark = "" => x = written[i])
      BY <3>1, DecompressFits
    <3> HIDE DEF x
    <3>3. read' = Append(read, x) /\ UNCHANGED <<written, wire>>
      BY <2>2 DEF ReadBody, x
    <3>4. BodyTypeOK'
      <4>1. read' \in Seq(StreamMessages) /\ Len(read') = i
        BY <3>2, <3>3, AppendFacts DEF BodyInv, BodyTypeOK
      <4> QED
        BY <3>1, <3>3, <4>1 DEF BodyInv, BodyTypeOK
    <3>5. BodyUnchanged'
      <4>1. read \in Seq(StreamMessages) /\ Len(read) \in Nat
        BY DEF BodyInv, BodyTypeOK
      <4>2. /\ Len(read') = i /\ read'[i] = x
            /\ \A j \in 1..Len(read) : read'[j] = read[j]
        BY ZenonT(60), <3>2, <3>3, <4>1, AppendFacts
      <4>3. ASSUME NEW j \in 1..Len(read'), written'[j].mark = "" PROVE read'[j] = written'[j]
        <5>1. CASE j = i
          BY <3>2, <3>3, <4>2, <4>3, <5>1
        <5>2. CASE j # i
          <6>1. j \in 1..Len(read)
            BY <4>1, <4>2, <5>2
          <6> QED
            BY <3>3, <4>2, <4>3, <6>1 DEF BodyInv, BodyUnchanged
        <5> QED
          BY <5>1, <5>2
      <4> QED
        BY <4>3 DEF BodyUnchanged
    <3> QED
      BY <3>3, <3>4, <3>5 DEF BodyInv, WireFits
  <2>3. CASE UNCHANGED bodyVars
    BY <2>3 DEF bodyVars, BodyInv, BodyTypeOK, BodyUnchanged, WireFits
  <2> QED
    BY <2>1, <2>2, <2>3 DEF BodyNext
<1> QED
  BY <1>1, <1>2, PTL DEF BodyInv
-----------------------------------------------------------------------------
(***************************************************************************)
(* The rate limiter.  A limiter is held by a key: it is the key's entry,   *)
(* or a request of the key carries it.  No two keys hold one limiter, so   *)
(* the tokens missing from it were taken by requests of that key alone;    *)
(* and a key that was neither renewed nor culled has one limiter, which    *)
(* hands out what it held and what the ticks put back.  Limiters and       *)
(* tokens are counted by the requests that are still to take one.          *)
(***************************************************************************)
AtLimit == {"lookup", "add", "stamp", "allow"}
Carrying == {"add", "stamp", "allow"}

RequestRecords == [pc : RequestPCs, client : Clients, key : Keys,
                   lim : Limiters \cup {0}, method : Methods]

LimiterTypes ==
    /\ limited \in BOOLEAN /\ enforced \in BOOLEAN
    /\ identified \subseteq Clients
    /\ clients \in [Keys -> 0..Len(tokens)]
    /\ request \in [Requests -> RequestRecords]
    /\ cull \in [pc : {"wait", "next", "delete"}, left : SUBSET Keys, key : Keys,
                waited : 0..MaxAge]
    /\ ticks \in 0..MaxTicks /\ calls \in 0..MaxCalls
    /\ passed \in [Clients -> Nat]
    /\ renewed \subseteq Keys
    /\ tokens \in Seq(0..BucketSize) /\ age \in Seq(0..(MaxAge + 1))
    /\ Len(age) = Len(tokens)

AtLookup == {r \in Requests : request[r].pc = "lookup"}
Taking(c) == {r \in Requests : request[r].pc \in AtLimit /\ request[r].client = c}

Counted ==
    /\ IsFiniteSet(AtLookup) /\ Len(tokens) + Cardinality(AtLookup) <= calls
    /\ \A c \in Clients : /\ IsFiniteSet(Taking(c))
                          /\ passed[c] + Cardinality(Taking(c)) <= calls

Carries(r, k, l) == request[r].pc \in Carrying /\ request[r].key = k /\ request[r].lim = l
Holds(k, l) == clients[k] = l \/ \E r \in Requests : Carries(r, k, l)

OneOwner ==
    /\ \A r \in Requests : request[r].pc \in Carrying => request[r].lim \in 1..Len(tokens)
    /\ \A k, j \in Keys, l \in 1..Len(tokens) : Holds(k, l) /\ Holds(j, l) => k = j

OwnKey ==
    \A r \in Requests : enforced /\ request[r].pc \in AtLimit
                          => request[r].key = request[r].client

Share ==
    enforced => \A c \in Clients, l \in 1..Len(tokens) :
                    Holds(c, l) => tokens[l] + passed[c] >= BucketSize

Single ==
    enforced => \A c \in Clients \ renewed :
        /\ clients[c] = 0 => passed[c] = 0
        /\ clients[c] # 0 => passed[c] + tokens[clients[c]] <= BucketSize + ticks
        /\ \A r \in Requests :
              request[r].pc \in {"stamp", "allow"} /\ request[r].key = c
                  => clients[c] # 0 /\ request[r].lim = clients[c]

LimiterInv ==
    /\ LimiterTypes /\ Counted /\ OneOwner /\ OwnKey /\ Share /\ Single
    /\ RefusedHadItsShare

\* The size of a set when one element may have joined or left it.
LEMMA CountChange ==
    ASSUME NEW S, IsFiniteSet(S), NEW T, NEW x, \A y : y # x => (y \in T <=> y \in S)
    PROVE  /\ IsFiniteSet(T) /\ Cardinality(T) \in Nat /\ Cardinality(S) \in Nat
           /\ Cardinality(T) + (IF x \in S THEN 1 ELSE 0)
                = Cardinality(S) + (IF x \in T THEN 1 ELSE 0)
<1>1. Cardinality(S) \in Nat
  BY FS_CardinalityType
<1>2. CASE x \in S <=> x \in T
  <2>1. T = S
    BY <1>2
  <2> QED
    BY <1>1, <2>1
<1>3. CASE x \in S /\ x \notin T
  <2>1. T = S \ {x}
    BY <1>3
  <2>2. IsFiniteSet(T) /\ Cardinality(T) = Cardinality(S) - 1
    BY <1>3, <2>1, FS_RemoveElement
  <2> QED
    BY <1>1, <1>3, <2>2, FS_CardinalityType
<1>4. CASE x \notin S /\ x \in T
  <2>1. T = S \cup {x}
    BY <1>4
  <2>2. IsFiniteSet(T) /\ Cardinality(T) = Cardinality(S) + 1
    BY <1>4, <2>1, FS_AddElement
  <2> QED
    BY <1>1, <1>4, <2>2, FS_CardinalityType
<1> QED
  BY <1>2, <1>3, <1>4

\* The arithmetic of such a count.
LEMMA CountArithmetic ==
    ASSUME NEW p \in Nat, NEW n \in Nat, NEW k \in Nat, p + n <= k,
           NEW p2 \in Nat, NEW n2 \in Nat, NEW k2 \in Nat, NEW v \in Nat, NEW w \in Nat,
           n2 + v = n + w, p2 + w + k <= p + v + k2
    PROVE  p2 + n2 <= k2
OBVIOUS

\* An element of a sequence.
LEMMA ElementOf == ASSUME NEW S, NEW s \in Seq(S), NEW i \in 1..Len(s) PROVE s[i] \in S
OBVIOUS

\* A sequence with one element replaced.
LEMMA ReplaceElement ==
    ASSUME NEW S, NEW s \in Seq(S), NEW i, NEW e \in S
    PROVE  /\ [s EXCEPT ![i] = e] \in Seq(S) /\ Len([s EXCEPT ![i] = e]) = Len(s)
           /\ \A j \in 1..Len(s) : [s EXCEPT ![i] = e][j] = IF j = i THEN e ELSE s[j]
<1> DEFINE t == [s EXCEPT ![i] = e]
<1>1. s \in [1..Len(s) -> S] /\ Len(s) \in Nat
  OBVIOUS
<1>2. t \in [1..Len(s) -> S]
  BY <1>1
<1>3. t \in Seq(S) /\ Len(t) = Len(s)
  BY <1>1, <1>2
<1> QED
  BY <1>1, <1>3

Weight(q, c) == IF q.pc \in AtLimit /\ q.client = c THEN 1 ELSE 0
LookupWeight(q) == IF q.pc = "lookup" THEN 1 ELSE 0

\* A request that goes on is counted where it was and where it is.
LEMMA Recount ==
    ASSUME LimiterInv, LimiterTypes', NEW r \in Requests, NEW q \in RequestRecords,
           request' = [request EXCEPT ![r] = q],
           Len(tokens') + LookupWeight(q) + calls
              <= Len(tokens) + LookupWeight(request[r]) + calls',
           \A c \in Clients : passed'[c] + Weight(q, c) + calls
              <= passed[c] + Weight(request[r], c) + calls'
    PROVE  Counted'
<1>1. /\ Counted /\ calls \in Nat /\ calls' \in Nat /\ Len(tokens) \in Nat /\ Len(tokens') \in Nat
      /\ request'[r] = q /\ \A x \in Requests \ {r} : request'[x] = request[x]
  BY DEF LimiterInv, LimiterTypes
<1>2. IsFiniteSet(AtLookup') /\ Len(tokens') + Cardinality(AtLookup') <= calls'
  <2>1. /\ IsFiniteSet(AtLookup)
        /\ \A y : y # r => (y \in AtLookup' <=> y \in AtLookup)
    BY <1>1 DEF Counted, AtLookup
  <2>2. /\ IsFiniteSet(AtLookup') /\ Cardinality(AtLookup') \in Nat
        /\ Cardinality(AtLookup) \in Nat
        /\ Cardinality(AtLookup') + (IF r \in AtLookup THEN 1 ELSE 0)
             = Cardinality(AtLookup) + (IF r \in AtLookup' THEN 1 ELSE 0)
    BY <2>1, CountChange
  <2>3. Cardinality(AtLookup') + LookupWeight(request[r]) = Cardinality(AtLookup) + LookupWeight(q)
    BY <1>1, <2>2 DEF AtLookup, LookupWeight
  <2>4. LookupWeight(q) \in Nat /\ LookupWeight(request[r]) \in Nat
    BY DEF LookupWeight
  <2>5. Len(tokens) + Cardinality(AtLookup) <= calls
    BY <1>1 DEF Counted
  <2> QED
    BY SMTT(30), <1>1, <2>2, <2>3, <2>4, <2>5
<1>3. ASSUME NEW c \in Clients
      PROVE  IsFiniteSet(Taking(c)') /\ passed'[c] + Cardinality(Taking(c)') <= calls'
  <2>1. /\ IsFiniteSet(Taking(c)) /\ passed[c] + Cardinality(Taking(c)) <= calls
        /\ \A y : y # r => (y \in Taking(c)' <=> y \in Taking(c))
    BY <1>1 DEF Counted, Taking
  <2>2. /\ IsFiniteSet(Taking(c)') /\ Cardinality(Taking(c)') \in Nat
        /\ Cardinality(Taking(c)) \in Nat
        /\ Cardinality(Taking(c)') + (IF r \in Taking(c) THEN 1 ELSE 0)
             = Cardinality(Taking(c)) + (IF r \in Taking(c)' THEN 1 ELSE 0)
    BY <2>1, CountChange
  <2>3. Cardinality(Taking(c)') + Weight(request[r], c) = Cardinality(Taking(c)) + Weight(q, c)
    BY <1>1, <2>2 DEF Taking, Weight
  <2>4. Weight(q, c) \in Nat /\ Weight(request[r], c) \in Nat
        /\ passed[c] \in Nat /\ passed'[c] \in Nat
    BY DEF Weight, LimiterInv, LimiterTypes
  <2>5. passed'[c] + Weight(q, c) + calls <= passed[c] + Weight(request[r], c) + calls'
    OBVIOUS
  <2> DEFINE n == Cardinality(Taking(c))
  <2> DEFINE m == Cardinality(Taking(c)')
  <2> DEFINE v == Weight(request[r], c)
  <2> DEFINE w == Weight(q, c)
  <2> DEFINE p == passed[c]
  <2> DEFINE p2 == passed'[c]
  <2> DEFINE k == calls
  <2> DEFINE k2 == calls'
  <2>6. /\ n \in Nat /\ m \in Nat /\ v \in Nat /\ w \in Nat
        /\ p \in Nat /\ p2 \in Nat /\ k \in Nat /\ k2 \in Nat
    BY <1>1, <2>2, <2>4
  <2>7. p + n <= k /\ m + v = n + w /\ p2 + w + k <= p + v + k2
    BY <2>1, <2>3, <2>5
  <2> HIDE DEF n, m, v, w, p, p2, k, k2
  <2>8. p2 + m <= k2
    BY <2>6, <2>7, CountArithmetic
  <2> QED
    BY <2>2, <2>8 DEF m, p2, k2
<1> QED
  BY <1>2, <1>3 DEF Counted

\* A step that lets no key hold a limiter it did not hold, and no limiter lose a token
\* that no request of its key has taken.
LEMMA HoldersKept ==
    ASSUME LimiterInv, LimiterTypes', UNCHANGED enforced, Len(tokens') = Len(tokens),
           \A k \in Keys, l \in 1..Len(tokens) : Holds(k, l)' => Holds(k, l),
           \A x \in Requests : request'[x].pc \in Carrying
              => request'[x].lim \in 1..Len(tokens),
           enforced => \A c \in Clients, l \in 1..Len(tokens) :
                          Holds(c, l) => tokens'[l] + passed'[c] >= tokens[l] + passed[c]
    PROVE  OneOwner' /\ Share'
<1>1. OneOwner'
  BY DEF LimiterInv, OneOwner
<1>2. Share'
  <2> SUFFICES ASSUME enforced, NEW c \in Clients, NEW l \in 1..Len(tokens), Holds(c, l)'
               PROVE  tokens'[l] + passed'[c] >= BucketSize
    BY DEF Share
  <2>1. Holds(c, l)
    BY DEF Keys
  <2>2. tokens[l] + passed[c] >= BucketSize /\ tokens'[l] + passed'[c] >= tokens[l] + passed[c]
    BY <2>1 DEF LimiterInv, Share
  <2>3. /\ tokens[l] \in Nat /\ passed[c] \in Nat /\ tokens'[l] \in Nat /\ passed'[c] \in Nat
        /\ BucketSize \in Nat
    <3>1. tokens[l] \in 0..BucketSize /\ tokens'[l] \in 0..BucketSize
      <4>1. /\ tokens \in Seq(0..BucketSize) /\ tokens' \in Seq(0..BucketSize)
            /\ l \in 1..Len(tokens) /\ l \in 1..Len(tokens')
        BY DEF LimiterInv, LimiterTypes
      <4> QED
        BY <4>1, ElementOf
    <3>2. passed[c] \in Nat /\ passed'[c] \in Nat
      BY DEF LimiterInv, LimiterTypes
    <3> QED
      BY <3>1, <3>2, RateLimiterAssumption
  <2> QED
    BY <2>2, <2>3
<1> QED
  BY <1>1, <1>2

\* Which limiters are held after a request has gone on.
LEMMA HoldersOfStep ==
    ASSUME LimiterInv, NEW r \in Requests, NEW q \in RequestRecords,
           request' = [request EXCEPT ![r] = q],
           q.pc \in Carrying => Holds(q.key, q.lim) /\ q.lim \in 1..Len(tokens),
           \A k \in Keys : clients'[k] = clients[k] \/ clients'[k] = 0 \/ Holds(k, clients'[k])
    PROVE  /\ \A k \in Keys, l \in 1..Len(tokens) : Holds(k, l)' => Holds(k, l)
           /\ \A x \in Requests : request'[x].pc \in Carrying
                 => request'[x].lim \in 1..Len(tokens)
<1>1. request'[r] = q /\ \A x \in Requests \ {r} : request'[x] = request[x]
  BY DEF LimiterInv, LimiterTypes
<1>2. ASSUME NEW k \in Keys, NEW l \in 1..Len(tokens), Holds(k, l)' PROVE Holds(k, l)
  <2>1. CASE clients'[k] = l
    BY <2>1 DEF Holds
  <2>2. ASSUME NEW x \in Requests, Carries(x, k, l)' PROVE Holds(k, l)
    <3>1. CASE x = r
      BY <1>1, <2>2, <3>1 DEF Carries
    <3>2. CASE x # r
      BY <1>1, <2>2, <3>2 DEF Carries, Holds
    <3> QED
      BY <3>1, <3>2
  <2> QED
    BY <1>2, <2>1, <2>2 DEF Holds
<1>3. ASSUME NEW x \in Requests, request'[x].pc \in Carrying
      PROVE  request'[x].lim \in 1..Len(tokens)
  BY <1>1, <1>3 DEF LimiterInv, OneOwner
<1> QED
  BY <1>2, <1>3

\* Nobody is known, and there are no limiters and no requests.
LEMMA LimiterInitInv == RateLimiterInit => LimiterInv
<1> SUFFICES ASSUME RateLimiterInit PROVE LimiterInv
  OBVIOUS
<1> USE RateLimiterAssumption
<1>1. NoRequest \in RequestRecords /\ NoRequest.pc = "idle"
  BY DEF NoRequest, RequestRecords, RequestPCs, Keys, Methods
<1>2. request \in [Requests -> RequestRecords] /\ \A r \in Requests : request[r].pc = "idle"
  BY <1>1 DEF RateLimiterInit
<1>3. tokens = << >> /\ age = << >> /\ Len(tokens) = 0 /\ Len(age) = 0
  BY DEF RateLimiterInit
<1>4. cull \in [pc : {"wait", "next", "delete"}, left : SUBSET Keys, key : Keys,
               waited : 0..MaxAge]
  BY DEF RateLimiterInit, Keys
<1>5. LimiterTypes
  <2>1. limited \in BOOLEAN
    BY DEF RateLimiterInit, WithRateLimit
  <2>2. tokens \in Seq(0..BucketSize) /\ age \in Seq(0..(MaxAge + 1))
    BY <1>3
  <2>3. 0 \in 0..Len(tokens) /\ 0 \in 0..MaxTicks /\ 0 \in 0..MaxCalls /\ 0 \in Nat
    BY <1>3
  <2> QED
    BY <1>2, <1>3, <1>4, <2>1, <2>2, <2>3 DEF RateLimiterInit, LimiterTypes
<1>6. Counted
  <2>1. AtLookup = {} /\ \A c \in Clients : Taking(c) = {} /\ passed[c] = 0
    BY <1>2 DEF AtLookup, Taking, AtLimit, RateLimiterInit
  <2> QED
    <3>1. calls = 0 /\ IsFiniteSet({}) /\ Cardinality({}) = 0
      BY FS_EmptySet DEF RateLimiterInit
    <3>2. IsFiniteSet(AtLookup) /\ Len(tokens) + Cardinality(AtLookup) <= calls
      BY <1>3, <2>1, <3>1
    <3>3. ASSUME NEW c \in Clients
          PROVE  IsFiniteSet(Taking(c)) /\ passed[c] + Cardinality(Taking(c)) <= calls
      BY <2>1, <3>1
    <3> QED
      BY <3>2, <3>3 DEF Counted
<1>7. OneOwner /\ OwnKey /\ Share /\ RefusedHadItsShare
  BY <1>2, <1>3 DEF OneOwner, OwnKey, Share, RefusedHadItsShare, Carrying, AtLimit
<1>8. Single
  BY <1>2 DEF Single, RateLimiterInit, Keys
<1> QED
  BY <1>5, <1>6, <1>7, <1>8 DEF LimiterInv

\* A request arrives.
LEMMA ArriveInv == ASSUME LimiterInv, NEW r \in Requests, Arrive(r) PROVE LimiterInv'
<1> USE RateLimiterAssumption
<1>1. PICK c \in Clients, m \in Methods :
         request' = [request EXCEPT ![r] =
            [pc |-> Entry(c, m), client |-> c,
             key |-> IF c \in identified THEN c ELSE Anonymous,
             lim |-> 0, method |-> m]]
  BY DEF Arrive
<1> DEFINE q == [pc |-> Entry(c, m), client |-> c,
                 key |-> IF c \in identified THEN c ELSE Anonymous,
                 lim |-> 0, method |-> m]
<1>2. /\ request[r].pc = "idle" /\ calls < MaxCalls /\ calls' = calls + 1
      /\ UNCHANGED <<limited, enforced, identified, clients, tokens, age, cull,
                     ticks, passed, renewed>>
  BY DEF Arrive
<1>3. /\ q \in RequestRecords /\ q.pc \in {"lookup", "admitted"} /\ q.client = c
      /\ enforced /\ q.pc = "lookup" => q.key = q.client
  BY DEF RequestRecords, RequestPCs, Entry, Keys
<1>4. request' = [request EXCEPT ![r] = q]
  BY <1>1
<1> HIDE DEF q
<1>5. request'[r] = q /\ \A x \in Requests \ {r} : request'[x] = request[x]
  BY <1>4 DEF LimiterInv, LimiterTypes
<1>6. LimiterTypes'
  <2>1. calls' \in 0..MaxCalls
    BY <1>2 DEF LimiterInv, LimiterTypes
  <2>2. request' \in [Requests -> RequestRecords]
    BY <1>3, <1>4 DEF LimiterInv, LimiterTypes
  <2> QED
    BY <1>2, <2>1, <2>2 DEF LimiterInv, LimiterTypes
<1>7. Counted'
  <2>1. LookupWeight(q) \in 0..1 /\ LookupWeight(request[r]) = 0
    BY <1>2 DEF LookupWeight
  <2>2. \A d \in Clients : Weight(q, d) \in 0..1 /\ Weight(request[r], d) = 0 /\ passed[d] \in Nat
    BY <1>2 DEF Weight, AtLimit, LimiterInv, LimiterTypes
  <2>3. calls \in Nat /\ Len(tokens) \in Nat
    BY DEF LimiterInv, LimiterTypes
  <2>4. Len(tokens') + LookupWeight(q) + calls <= Len(tokens) + LookupWeight(request[r]) + calls'
    BY <1>2, <2>1, <2>3
  <2>5. \A d \in Clients : passed'[d] + Weight(q, d) + calls
                               <= passed[d] + Weight(request[r], d) + calls'
    BY <1>2, <2>2, <2>3
  <2> QED
    BY <1>3, <1>4, <1>6, <2>4, <2>5, Recount
<1>8. OneOwner' /\ Share'
  <2>1. q.pc \notin Carrying
    BY <1>3 DEF Carrying
  <2>2. /\ \A k \in Keys, l \in 1..Len(tokens) : Holds(k, l)' => Holds(k, l)
        /\ \A x \in Requests : request'[x].pc \in Carrying
              => request'[x].lim \in 1..Len(tokens)
    BY <1>2, <1>3, <1>4, <2>1, HoldersOfStep
  <2>3. \A d \in Clients, l \in 1..Len(tokens) : tokens[l] + passed[d] >= tokens[l] + passed[d]
    BY DEF LimiterInv, LimiterTypes
  <2> QED
    BY <1>2, <1>6, <2>2, <2>3, HoldersKept
<1>9. OwnKey'
  BY <1>2, <1>3, <1>5 DEF LimiterInv, OwnKey, AtLimit
<1>10. Single'
  BY <1>2, <1>3, <1>5 DEF LimiterInv, Single
<1>11. RefusedHadItsShare'
  BY <1>2, <1>3, <1>5 DEF LimiterInv, RefusedHadItsShare
<1> QED
  BY <1>6, <1>7, <1>8, <1>9, <1>10, <1>11 DEF LimiterInv

\* A request goes on and changes no bucket.
LEMMA QuietStep ==
    ASSUME LimiterInv, NEW r \in Requests, NEW q \in RequestRecords,
           request' = [request EXCEPT ![r] = q],
           UNCHANGED <<limited, enforced, clients, tokens, cull, ticks, calls, passed, renewed>>,
           identified' \subseteq Clients,
           age' \in Seq(0..(MaxAge + 1)) /\ Len(age') = Len(age),
           q.pc = "lookup" => request[r].pc = "lookup",
           q.pc \in AtLimit => request[r].pc \in AtLimit /\ q.client = request[r].client,
           q.pc \in Carrying => Holds(q.key, q.lim) /\ q.lim \in 1..Len(tokens),
           enforced /\ q.pc \in AtLimit => q.key = q.client,
           enforced /\ q.pc \in {"stamp", "allow"} /\ q.key \in Clients \ renewed
              => clients[q.key] # 0 /\ q.lim = clients[q.key],
           q.pc = "refused" => passed[q.client] >= BucketSize
    PROVE  LimiterInv'
<1>1. request'[r] = q /\ \A x \in Requests \ {r} : request'[x] = request[x]
  BY DEF LimiterInv, LimiterTypes
<1>2. LimiterTypes'
  <2>1. request' \in [Requests -> RequestRecords]
    BY DEF LimiterInv, LimiterTypes
  <2> QED
    BY <2>1 DEF LimiterInv, LimiterTypes
<1>3. Counted'
  <2>1. LookupWeight(q) <= LookupWeight(request[r])
        /\ LookupWeight(q) \in Nat /\ LookupWeight(request[r]) \in Nat
    BY DEF LookupWeight
  <2>2. ASSUME NEW c \in Clients
        PROVE  /\ Weight(q, c) <= Weight(request[r], c) /\ passed[c] \in Nat
               /\ Weight(q, c) \in Nat /\ Weight(request[r], c) \in Nat
    BY DEF Weight, LimiterInv, LimiterTypes
  <2>3. calls \in Nat /\ Len(tokens) \in Nat
    BY DEF LimiterInv, LimiterTypes
  <2>4. Len(tokens') + LookupWeight(q) + calls <= Len(tokens) + LookupWeight(request[r]) + calls'
    BY <2>1, <2>3
  <2>5. \A c \in Clients : passed'[c] + Weight(q, c) + calls
                               <= passed[c] + Weight(request[r], c) + calls'
    BY <2>2, <2>3
  <2> QED
    BY <1>2, <2>4, <2>5, Recount
<1>4. OneOwner' /\ Share'
  <2>1. /\ \A k \in Keys, l \in 1..Len(tokens) : Holds(k, l)' => Holds(k, l)
        /\ \A x \in Requests : request'[x].pc \in Carrying
              => request'[x].lim \in 1..Len(tokens)
    BY HoldersOfStep
  <2>2. ASSUME NEW c \in Clients, NEW l \in 1..Len(tokens)
        PROVE  tokens'[l] + passed'[c] >= tokens[l] + passed[c]
    <3>1. passed[c] \in Nat /\ tokens[l] \in 0..BucketSize
      BY ElementOf DEF LimiterInv, LimiterTypes
    <3> QED
      BY <3>1, RateLimiterAssumption
  <2> QED
    BY <1>2, <2>1, <2>2, HoldersKept
<1>5. OwnKey'
  BY <1>1 DEF LimiterInv, OwnKey
<1>6. Single'
  <2> SUFFICES ASSUME enforced, NEW c \in Clients \ renewed
               PROVE  \A x \in Requests :
                         request'[x].pc \in {"stamp", "allow"} /\ request'[x].key = c
                            => clients[c] # 0 /\ request'[x].lim = clients[c]
    BY DEF LimiterInv, Single
  <2> QED
    BY <1>1 DEF LimiterInv, Single
<1>7. RefusedHadItsShare'
  BY <1>1 DEF LimiterInv, RefusedHadItsShare
<1> QED
  BY <1>2, <1>3, <1>4, <1>5, <1>6, <1>7 DEF LimiterInv

\* A request that finds the limiter of its key.
LEMMA LookupFoundInv ==
    ASSUME LimiterInv, NEW r \in Requests, LookupLimiter(r), clients[request[r].key] # 0
    PROVE  LimiterInv'
<1> DEFINE l == clients[request[r].key]
<1> DEFINE q == [request[r] EXCEPT !.lim = l, !.pc = "stamp"]
<1>1. /\ request[r].pc = "lookup" /\ request[r] \in RequestRecords
      /\ request' = [request EXCEPT ![r].lim = l, ![r].pc = "stamp"]
      /\ UNCHANGED <<limited, enforced, identified, clients, tokens, age, cull, ticks,
                     calls, passed, renewed>>
  BY DEF LookupLimiter, LimiterInv, LimiterTypes
<1>2. request[r].key \in Keys /\ l \in 1..Len(tokens) /\ l \in Limiters
  <2>1. request[r].key \in Keys /\ l \in 0..Len(tokens)
    BY <1>1 DEF LimiterInv, LimiterTypes, RequestRecords
  <2>2. Len(tokens) <= MaxCalls /\ Len(tokens) \in Nat
    <3>1. IsFiniteSet(AtLookup) /\ Len(tokens) + Cardinality(AtLookup) <= calls
          /\ calls \in 0..MaxCalls /\ Len(tokens) \in Nat
      BY DEF LimiterInv, LimiterTypes, Counted
    <3>2. Cardinality(AtLookup) \in Nat
      BY <3>1, FS_CardinalityType
    <3> QED
      BY <3>1, <3>2, RateLimiterAssumption
  <2>3. l # 0
    OBVIOUS
  <2> HIDE DEF l
  <2>4. l \in 1..Len(tokens) /\ l \in 1..MaxCalls
    BY <2>1, <2>2, <2>3, RateLimiterAssumption
  <2> QED
    BY <2>1, <2>4 DEF Limiters
<1>3. /\ q \in RequestRecords /\ q.pc = "stamp" /\ q.lim = l /\ q.key = request[r].key
      /\ q.client = request[r].client
  BY <1>1, <1>2 DEF RequestRecords, RequestPCs
<1>4. request' = [request EXCEPT ![r] = q]
  BY <1>1 DEF LimiterInv, LimiterTypes
<1>5. Holds(q.key, q.lim)
  BY <1>3 DEF Holds
<1> HIDE DEF q
<1>6. enforced => q.key = q.client
  BY <1>1, <1>3 DEF LimiterInv, OwnKey, AtLimit
<1>7. identified' \subseteq Clients /\ age' \in Seq(0..(MaxAge + 1)) /\ Len(age') = Len(age)
  BY <1>1 DEF LimiterInv, LimiterTypes
<1> QED
  BY ZenonT(60), <1>1, <1>2, <1>3, <1>4, <1>5, <1>6, <1>7, QuietStep DEF AtLimit

\* The time stamp.
LEMMA StampInv == ASSUME LimiterInv, NEW r \in Requests, StampLimiter(r) PROVE LimiterInv'
<1> DEFINE q == [request[r] EXCEPT !.pc = "allow"]
<1>1. /\ request[r].pc = "stamp" /\ request[r] \in RequestRecords
      /\ request' = [request EXCEPT ![r] = q]
      /\ age' = [age EXCEPT ![request[r].lim] = 0]
      /\ UNCHANGED <<limited, enforced, identified, clients, tokens, cull, ticks, calls,
                     passed, renewed>>
  BY DEF StampLimiter, RequestGoes, LimiterInv, LimiterTypes
<1>2. /\ q \in RequestRecords /\ q.pc = "allow" /\ q.lim = request[r].lim
      /\ q.key = request[r].key /\ q.client = request[r].client
  BY <1>1 DEF RequestRecords, RequestPCs
<1> HIDE DEF q
<1>3. q.lim \in 1..Len(tokens) /\ Holds(q.key, q.lim)
  BY <1>1, <1>2 DEF LimiterInv, OneOwner, Holds, Carries, Carrying
<1>4. enforced => q.key = q.client
  BY <1>1, <1>2 DEF LimiterInv, OwnKey, AtLimit
<1>5. enforced /\ q.key \in Clients \ renewed => clients[q.key] # 0 /\ q.lim = clients[q.key]
  BY <1>1, <1>2 DEF LimiterInv, Single
<1>6. age' \in Seq(0..(MaxAge + 1)) /\ Len(age') = Len(age)
  <2>1. age \in Seq(0..(MaxAge + 1)) /\ 0 \in 0..(MaxAge + 1)
    BY RateLimiterAssumption DEF LimiterInv, LimiterTypes
  <2> DEFINE i == request[r].lim
  <2> DEFINE S == 0..(MaxAge + 1)
  <2>2. age' = [age EXCEPT ![i] = 0] /\ age \in Seq(S) /\ 0 \in S
    BY <1>1, <2>1
  <2> HIDE DEF i, S
  <2>3. age' \in Seq(S) /\ Len(age') = Len(age)
    BY <2>2, ReplaceElement
  <2> QED
    BY <2>3 DEF S
<1>7. identified' \subseteq Clients
  BY <1>1 DEF LimiterInv, LimiterTypes
<1> QED
  BY <1>1, <1>2, <1>3, <1>4, <1>5, <1>6, <1>7, QuietStep DEF AtLimit

\* The end of a request.
LEMMA RequestDoneInv == ASSUME LimiterInv, NEW r \in Requests, RequestDone(r) PROVE LimiterInv'
<1>1. NoRequest \in RequestRecords /\ NoRequest.pc = "idle"
  BY RateLimiterAssumption DEF NoRequest, RequestRecords, RequestPCs, Keys, Methods
<1>2. identified' \subseteq Clients
  BY DEF RequestDone, LimiterInv, LimiterTypes, RequestRecords
<1>3. age' \in Seq(0..(MaxAge + 1)) /\ Len(age') = Len(age)
  BY DEF RequestDone, LimiterInv, LimiterTypes
<1> QED
  BY <1>1, <1>2, <1>3, QuietStep DEF RequestDone, AtLimit, Carrying

\* A request of a key without a limiter makes one with a full bucket.
LEMMA LookupFreshInv ==
    ASSUME LimiterInv, NEW r \in Requests, LookupLimiter(r), clients[request[r].key] = 0
    PROVE  LimiterInv'
<1> DEFINE n == Len(tokens)
<1> DEFINE q == [request[r] EXCEPT !.lim = n + 1, !.pc = "add"]
<1>1. /\ tokens \in Seq(0..BucketSize) /\ age \in Seq(0..(MaxAge + 1)) /\ n \in Nat
      /\ Len(age) = n /\ request[r] \in RequestRecords
  BY DEF LimiterInv, LimiterTypes
<1>2. Cardinality(DOMAIN tokens) = n
  <2>1. DOMAIN tokens = 1..n
    BY <1>1
  <2>2. Cardinality(1..n) = IF 1 > n THEN 0 ELSE n - 1 + 1
    <3>1. 1 \in Int /\ n \in Int
      BY <1>1
    <3> HIDE DEF n
    <3> QED
      BY <3>1, FS_Interval
  <2> QED
    BY <1>1, <2>1, <2>2
<1>3. /\ request[r].pc = "lookup"
      /\ request' = [request EXCEPT ![r].lim = n + 1, ![r].pc = "add"]
      /\ tokens' = Append(tokens, BucketSize) /\ age' = Append(age, MaxAge + 1)
      /\ UNCHANGED <<limited, enforced, identified, clients, cull, ticks, calls, passed, renewed>>
  BY <1>2 DEF LookupLimiter
<1>4. /\ tokens' \in Seq(0..BucketSize) /\ Len(tokens') = n + 1 /\ tokens'[n + 1] = BucketSize
      /\ \A l \in 1..n : tokens'[l] = tokens[l]
  BY <1>1, <1>3, AppendFacts, RateLimiterAssumption
<1>5. age' \in Seq(0..(MaxAge + 1)) /\ Len(age') = n + 1
  <2>1. MaxAge + 1 \in 0..(MaxAge + 1)
    BY RateLimiterAssumption
  <2> QED
    BY <1>1, <1>3, <2>1, AppendFacts
<1>6. n + 1 \in Limiters
  <2>1. IsFiniteSet(AtLookup) /\ n + Cardinality(AtLookup) <= calls /\ r \in AtLookup
        /\ calls \in 0..MaxCalls
    BY <1>3 DEF LimiterInv, LimiterTypes, Counted, AtLookup
  <2>2. Cardinality(AtLookup) \in Nat /\ Cardinality(AtLookup) # 0
    BY <2>1, FS_CardinalityType, FS_EmptySet
  <2> HIDE DEF n
  <2> QED
    BY <1>1, <2>1, <2>2, RateLimiterAssumption DEF Limiters
<1>7. /\ q \in RequestRecords /\ q.pc = "add" /\ q.lim = n + 1 /\ q.key = request[r].key
      /\ q.client = request[r].client /\ q.key \in Keys
  BY <1>1, <1>6 DEF RequestRecords, RequestPCs
<1>8. request' = [request EXCEPT ![r] = q]
  BY <1>3 DEF LimiterInv, LimiterTypes
<1> HIDE DEF q
<1>9. request'[r] = q /\ \A x \in Requests \ {r} : request'[x] = request[x]
  BY <1>8 DEF LimiterInv, LimiterTypes
<1>10. LimiterTypes'
  <2>1. request' \in [Requests -> RequestRecords]
    BY <1>7, <1>8 DEF LimiterInv, LimiterTypes
  <2>2. clients' \in [Keys -> 0..Len(tokens')]
    <3>1. 0..n \subseteq 0..(n + 1) /\ clients \in [Keys -> 0..n]
      BY <1>1 DEF LimiterInv, LimiterTypes
    <3> QED
      BY <1>3, <1>4, <3>1
  <2> QED
    BY <1>3, <1>4, <1>5, <2>1, <2>2 DEF LimiterInv, LimiterTypes
<1>11. Counted'
  <2>1. LookupWeight(q) = 0 /\ LookupWeight(request[r]) = 1 /\ calls \in Nat
    BY <1>3, <1>7 DEF LookupWeight, LimiterInv, LimiterTypes
  <2>2. ASSUME NEW c \in Clients
        PROVE  Weight(q, c) = Weight(request[r], c) /\ passed[c] \in Nat /\ Weight(q, c) \in Nat
    BY <1>3, <1>7 DEF Weight, AtLimit, LimiterInv, LimiterTypes
  <2>3. Len(tokens') + LookupWeight(q) + calls <= Len(tokens) + LookupWeight(request[r]) + calls'
    BY <1>1, <1>3, <1>4, <2>1
  <2>4. \A c \in Clients : passed'[c] + Weight(q, c) + calls
                               <= passed[c] + Weight(request[r], c) + calls'
    BY <1>3, <2>1, <2>2
  <2> QED
    BY <1>7, <1>8, <1>10, <2>3, <2>4, Recount
<1>12. ASSUME NEW k \in Keys, NEW l \in 1..(n + 1), Holds(k, l)'
       PROVE  IF l = n + 1 THEN k = q.key ELSE Holds(k, l)
  <2>1. CASE clients'[k] = l
    <3>1. clients[k] = l /\ clients[k] \in 0..n
      BY <1>3, <2>1 DEF LimiterInv, LimiterTypes
    <3>2. l # n + 1
      BY <1>1, <3>1
    <3> QED
      BY <3>1, <3>2 DEF Holds
  <2>2. ASSUME NEW x \in Requests, Carries(x, k, l)' PROVE IF l = n + 1 THEN k = q.key ELSE Holds(k, l)
    <3>1. CASE x = r
      BY <1>7, <1>9, <2>2, <3>1 DEF Carries
    <3>2. CASE x # r
      <4>1. Carries(x, k, l)
        BY <1>9, <2>2, <3>2 DEF Carries
      <4>2. l \in 1..n
        BY <4>1 DEF Carries, LimiterInv, OneOwner
      <4>3. l # n + 1
        BY <1>1, <4>2
      <4> QED
        BY <4>1, <4>3 DEF Holds
    <3> QED
      BY <3>1, <3>2
  <2> QED
    BY <1>12, <2>1, <2>2 DEF Holds
<1>13. OneOwner'
  <2>1. \A x \in Requests : request'[x].pc \in Carrying => request'[x].lim \in 1..(n + 1)
    <3>1. 1..n \subseteq 1..(n + 1) /\ n + 1 \in 1..(n + 1)
      BY <1>1
    <3> QED
      BY <1>7, <1>9, <3>1 DEF LimiterInv, OneOwner
  <2>2. ASSUME NEW k \in Keys, NEW j \in Keys, NEW l \in 1..(n + 1), Holds(k, l)', Holds(j, l)'
        PROVE  k = j
    <3>1. CASE l = n + 1
      BY <1>12, <2>2, <3>1
    <3>2. CASE l \in 1..n
      <4>1. l # n + 1
        BY <1>1, <3>2
      <4> QED
        BY <1>12, <2>2, <3>2, <4>1 DEF LimiterInv, OneOwner
    <3> QED
      BY <1>1, <3>1, <3>2
  <2> QED
    BY <1>4, <2>1, <2>2 DEF OneOwner
<1>14. Share'
  <2> SUFFICES ASSUME enforced, NEW c \in Clients, NEW l \in 1..(n + 1), Holds(c, l)'
               PROVE  tokens'[l] + passed[c] >= BucketSize
    BY <1>3, <1>4 DEF Share
  <2>1. c \in Keys /\ passed[c] \in Nat
    BY DEF Keys, LimiterInv, LimiterTypes
  <2>2. CASE l = n + 1
    BY <1>4, <2>1, <2>2, RateLimiterAssumption
  <2>3. CASE l \in 1..n
    <3>1. l # n + 1
      BY <1>1, <2>3
    <3>2. Holds(c, l) /\ tokens'[l] = tokens[l]
      BY <1>4, <1>12, <2>1, <2>3, <3>1
    <3> QED
      BY <2>3, <3>2 DEF LimiterInv, Share
  <2> QED
    BY <1>1, <2>2, <2>3
<1>15. OwnKey'
  BY ZenonT(60), <1>3, <1>7, <1>9 DEF LimiterInv, OwnKey, AtLimit
<1>16. Single'
  <2> SUFFICES ASSUME enforced, NEW c \in Clients \ renewed
               PROVE  /\ clients[c] = 0 => passed[c] = 0
                      /\ clients[c] # 0 => passed[c] + tokens'[clients[c]] <= BucketSize + ticks
                      /\ \A x \in Requests :
                            request'[x].pc \in {"stamp", "allow"} /\ request'[x].key = c
                               => clients[c] # 0 /\ request'[x].lim = clients[c]
    <3>1. /\ clients' = clients /\ passed' = passed /\ enforced' = enforced
          /\ renewed' = renewed /\ ticks' = ticks
      BY <1>3
    <3> QED
      BY <3>1 DEF Single
  <2>1. clients[c] # 0 => tokens'[clients[c]] = tokens[clients[c]]
    <3>1. clients[c] \in 0..n
      BY DEF LimiterInv, LimiterTypes, Keys
    <3> QED
      BY <1>1, <1>4, <3>1
  <2> QED
    BY <1>7, <1>9, <2>1 DEF LimiterInv, Single
<1>17. RefusedHadItsShare'
  BY <1>3, <1>7, <1>9 DEF LimiterInv, RefusedHadItsShare
<1> QED
  BY <1>10, <1>11, <1>13, <1>14, <1>15, <1>16, <1>17 DEF LimiterInv

\* The new limiter becomes the key's entry.
LEMMA AddInv == ASSUME LimiterInv, NEW r \in Requests, AddLimiter(r) PROVE LimiterInv'
<1> DEFINE k0 == request[r].key
<1> DEFINE l0 == request[r].lim
<1> DEFINE q == [request[r] EXCEPT !.pc = "stamp"]
<1>1. /\ request[r].pc = "add" /\ request[r] \in RequestRecords
      /\ request' = [request EXCEPT ![r] = q]
      /\ clients' = [clients EXCEPT ![k0] = l0]
      /\ renewed' = IF clients[k0] # 0 THEN renewed \cup {k0} ELSE renewed
      /\ UNCHANGED <<limited, enforced, identified, tokens, age, cull, ticks, calls, passed>>
  BY DEF AddLimiter, RequestGoes, LimiterInv, LimiterTypes
<1>2. /\ q \in RequestRecords /\ q.pc = "stamp" /\ q.lim = l0 /\ q.key = k0
      /\ q.client = request[r].client /\ k0 \in Keys
  BY <1>1 DEF RequestRecords, RequestPCs
<1>3. l0 \in 1..Len(tokens) /\ Holds(k0, l0)
  BY <1>1 DEF LimiterInv, OneOwner, Holds, Carries, Carrying
<1> HIDE DEF q
<1>4. request'[r] = q /\ \A x \in Requests \ {r} : request'[x] = request[x]
  BY <1>1 DEF LimiterInv, LimiterTypes
<1>5. \A k \in Keys : clients'[k] = IF k = k0 THEN l0 ELSE clients[k]
  BY <1>1 DEF LimiterInv, LimiterTypes
<1>6. LimiterTypes'
  <2>1. request' \in [Requests -> RequestRecords]
    BY <1>1, <1>2 DEF LimiterInv, LimiterTypes
  <2>2. clients' \in [Keys -> 0..Len(tokens)]
    <3>1. l0 \in 0..Len(tokens) /\ clients \in [Keys -> 0..Len(tokens)]
      BY <1>3 DEF LimiterInv, LimiterTypes
    <3> HIDE DEF l0, k0
    <3> QED
      BY <1>1, <3>1
  <2>3. renewed' \subseteq Keys
    BY <1>1, <1>2 DEF LimiterInv, LimiterTypes
  <2> QED
    BY <1>1, <2>1, <2>2, <2>3 DEF LimiterInv, LimiterTypes
<1>7. Counted'
  <2>1. LookupWeight(q) = 0 /\ LookupWeight(request[r]) = 0 /\ calls \in Nat /\ Len(tokens) \in Nat
    BY <1>1, <1>2 DEF LookupWeight, LimiterInv, LimiterTypes
  <2>2. ASSUME NEW c \in Clients
        PROVE  Weight(q, c) = Weight(request[r], c) /\ passed[c] \in Nat /\ Weight(q, c) \in Nat
    BY <1>1, <1>2 DEF Weight, AtLimit, LimiterInv, LimiterTypes
  <2>3. Len(tokens') + LookupWeight(q) + calls <= Len(tokens) + LookupWeight(request[r]) + calls'
    BY <1>1, <2>1
  <2>4. \A c \in Clients : passed'[c] + Weight(q, c) + calls
                               <= passed[c] + Weight(request[r], c) + calls'
    BY <1>1, <2>1, <2>2
  <2> QED
    BY <1>1, <1>2, <1>6, <2>3, <2>4, Recount
<1>8. OneOwner' /\ Share'
  <2>1. \A k \in Keys : clients'[k] = clients[k] \/ clients'[k] = 0 \/ Holds(k, clients'[k])
    BY <1>3, <1>5
  <2>2. /\ \A k \in Keys, l \in 1..Len(tokens) : Holds(k, l)' => Holds(k, l)
        /\ \A x \in Requests : request'[x].pc \in Carrying
              => request'[x].lim \in 1..Len(tokens)
    BY <1>1, <1>2, <1>3, <2>1, HoldersOfStep
  <2>3. ASSUME NEW c \in Clients, NEW l \in 1..Len(tokens)
        PROVE  tokens'[l] + passed'[c] >= tokens[l] + passed[c]
    <3>1. passed[c] \in Nat /\ tokens[l] \in 0..BucketSize
      BY ElementOf DEF LimiterInv, LimiterTypes
    <3> QED
      BY <1>1, <3>1, RateLimiterAssumption
  <2> QED
    BY <1>1, <1>6, <2>2, <2>3, HoldersKept
<1>9. OwnKey'
  BY <1>1, <1>2, <1>4 DEF LimiterInv, OwnKey, AtLimit
<1>10. Single'
  <2> SUFFICES ASSUME enforced, NEW c \in Clients, c \notin renewed'
               PROVE  /\ clients'[c] = 0 => passed[c] = 0
                      /\ clients'[c] # 0 => passed[c] + tokens[clients'[c]] <= BucketSize + ticks
                      /\ \A x \in Requests :
                            request'[x].pc \in {"stamp", "allow"} /\ request'[x].key = c
                               => clients'[c] # 0 /\ request'[x].lim = clients'[c]
    <3>1. passed' = passed /\ enforced' = enforced /\ tokens' = tokens /\ ticks' = ticks
      BY <1>1
    <3> QED
      BY <3>1 DEF Single
  <2>1. c \in Clients \ renewed /\ c \in Keys
    BY <1>1 DEF Keys
  <2>2. CASE c = k0
    <3>1. clients[c] = 0 /\ clients'[c] = l0
      BY <1>1, <1>5, <2>1, <2>2
    <3>2. passed[c] = 0 /\ \A x \in Requests :
             ~(request[x].pc \in {"stamp", "allow"} /\ request[x].key = c)
      BY <2>1, <3>1 DEF LimiterInv, Single
    <3>3. tokens[l0] \in 0..BucketSize /\ ticks \in Nat /\ BucketSize \in Nat /\ l0 # 0
      <4>1. tokens[l0] \in 0..BucketSize
        BY <1>3, ElementOf DEF LimiterInv, LimiterTypes
      <4>2. ticks \in Nat
        BY DEF LimiterInv, LimiterTypes
      <4> QED
        BY <1>3, <4>1, <4>2, RateLimiterAssumption
    <3>4. passed[c] + tokens[l0] <= BucketSize + ticks
      BY <3>2, <3>3
    <3> QED
      BY <1>2, <1>4, <3>1, <3>2, <3>3, <3>4
  <2>3. CASE c # k0
    BY <1>2, <1>4, <1>5, <2>1, <2>3 DEF LimiterInv, Single
  <2> QED
    BY <2>2, <2>3
<1>11. RefusedHadItsShare'
  BY <1>1, <1>2, <1>4 DEF LimiterInv, RefusedHadItsShare
<1> QED
  BY <1>6, <1>7, <1>8, <1>9, <1>10, <1>11 DEF LimiterInv

\* A request without a token is refused if the limit is enforced; its client has
\* taken a whole bucket then.
LEMMA AllowEmptyInv ==
    ASSUME LimiterInv, NEW r \in Requests, Allow(r), ~(tokens[request[r].lim] > 0)
    PROVE  LimiterInv'
<1> DEFINE p == IF enforced THEN "refused" ELSE "admitted"
<1> DEFINE q == [request[r] EXCEPT !.pc = p]
<1>1. /\ request[r].pc = "allow" /\ request[r] \in RequestRecords
      /\ request' = [request EXCEPT ![r] = q]
      /\ UNCHANGED <<limited, enforced, identified, clients, age, cull, ticks, calls, renewed,
                     tokens, passed>>
  BY DEF Allow, RequestGoes, LimiterInv, LimiterTypes
<1>2. /\ q \in RequestRecords /\ q.pc \in {"refused", "admitted"}
      /\ q.pc = "refused" => enforced
      /\ q.client = request[r].client /\ q.client \in Clients
  BY <1>1 DEF RequestRecords, RequestPCs
<1> HIDE DEF q
<1>3. q.pc = "refused" => passed[q.client] >= BucketSize
  <2> SUFFICES ASSUME enforced PROVE passed[q.client] >= BucketSize
    BY <1>2
  <2> DEFINE l == request[r].lim
  <2>1. l \in 1..Len(tokens) /\ Holds(q.client, l)
    BY <1>1, <1>2 DEF LimiterInv, OneOwner, OwnKey, Holds, Carries, Carrying, AtLimit
  <2>2. tokens[l] \in 0..BucketSize
    BY <2>1, ElementOf DEF LimiterInv, LimiterTypes
  <2>3. tokens[l] = 0
    BY <2>2, RateLimiterAssumption
  <2>4. tokens[l] + passed[q.client] >= BucketSize /\ passed[q.client] \in Nat
    BY <1>2, <2>1 DEF LimiterInv, LimiterTypes, Share
  <2> QED
    BY <2>3, <2>4, RateLimiterAssumption
<1>4. identified' \subseteq Clients /\ age' \in Seq(0..(MaxAge + 1)) /\ Len(age') = Len(age)
  BY <1>1 DEF LimiterInv, LimiterTypes
<1> QED
  BY <1>1, <1>2, <1>3, <1>4, QuietStep DEF AtLimit, Carrying

\* A request takes a token of its own key's limiter.
LEMMA AllowTakesInv ==
    ASSUME LimiterInv, NEW r \in Requests, Allow(r), tokens[request[r].lim] > 0
    PROVE  LimiterInv'
<1> DEFINE k0 == request[r].key
<1> DEFINE l0 == request[r].lim
<1> DEFINE c0 == request[r].client
<1> DEFINE q == [request[r] EXCEPT !.pc = "admitted"]
<1>1. /\ request[r].pc = "allow" /\ request[r] \in RequestRecords
      /\ request' = [request EXCEPT ![r] = q]
      /\ tokens' = [tokens EXCEPT ![l0] = tokens[l0] - 1]
      /\ passed' = [passed EXCEPT ![c0] = passed[c0] + 1]
      /\ UNCHANGED <<limited, enforced, identified, clients, age, cull, ticks, calls, renewed>>
  BY DEF Allow, RequestGoes, LimiterInv, LimiterTypes
<1>2. /\ q \in RequestRecords /\ q.pc = "admitted" /\ q.client = c0 /\ k0 \in Keys
      /\ c0 \in Clients
  BY <1>1 DEF RequestRecords, RequestPCs
<1>3. l0 \in 1..Len(tokens) /\ Holds(k0, l0) /\ (enforced => k0 = c0)
  BY <1>1 DEF LimiterInv, OneOwner, Holds, Carries, Carrying, OwnKey, AtLimit
<1>4. tokens[l0] \in 0..BucketSize /\ tokens[l0] > 0 /\ tokens[l0] - 1 \in 0..BucketSize
  <2>1. tokens[l0] \in 0..BucketSize
    BY <1>3, ElementOf DEF LimiterInv, LimiterTypes
  <2> QED
    BY <2>1, RateLimiterAssumption
<1>5. /\ tokens' \in Seq(0..BucketSize) /\ Len(tokens') = Len(tokens)
      /\ \A j \in 1..Len(tokens) : tokens'[j] = IF j = l0 THEN tokens[l0] - 1 ELSE tokens[j]
  <2> DEFINE S == 0..BucketSize
  <2> DEFINE e == tokens[l0] - 1
  <2>1. tokens \in Seq(S) /\ e \in S /\ tokens' = [tokens EXCEPT ![l0] = e]
    BY <1>1, <1>4 DEF LimiterInv, LimiterTypes
  <2> HIDE DEF S, e, l0
  <2>2. /\ tokens' \in Seq(S) /\ Len(tokens') = Len(tokens)
        /\ \A j \in 1..Len(tokens) : tokens'[j] = IF j = l0 THEN e ELSE tokens[j]
    BY <2>1, ReplaceElement
  <2> QED
    BY <2>2 DEF S, e
<1>6. /\ passed \in [Clients -> Nat] /\ passed' \in [Clients -> Nat]
      /\ passed'[c0] = passed[c0] + 1 /\ \A c \in Clients : c # c0 => passed'[c] = passed[c]
  BY <1>1, <1>2 DEF LimiterInv, LimiterTypes
<1>7. /\ request'[r] = q /\ \A x \in Requests \ {r} : request'[x] = request[x]
      /\ request' \in [Requests -> RequestRecords]
  BY <1>1, <1>2 DEF LimiterInv, LimiterTypes
<1> HIDE DEF q
<1>8. LimiterTypes'
  BY <1>1, <1>5, <1>6, <1>7 DEF LimiterInv, LimiterTypes
<1>9. Counted'
  <2>1. LookupWeight(q) = 0 /\ LookupWeight(request[r]) = 0 /\ calls \in Nat /\ Len(tokens) \in Nat
    BY <1>1, <1>2 DEF LookupWeight, LimiterInv, LimiterTypes
  <2>2. ASSUME NEW c \in Clients
        PROVE  /\ Weight(q, c) = 0 /\ Weight(request[r], c) = (IF c = c0 THEN 1 ELSE 0)
               /\ passed[c] \in Nat
               /\ passed'[c] = passed[c] + (IF c = c0 THEN 1 ELSE 0)
    BY <1>1, <1>2, <1>6 DEF Weight, AtLimit
  <2>3. Len(tokens') + LookupWeight(q) + calls <= Len(tokens) + LookupWeight(request[r]) + calls'
    BY <1>1, <1>5, <2>1
  <2>4. ASSUME NEW c \in Clients
        PROVE passed'[c] + Weight(q, c) + calls <= passed[c] + Weight(request[r], c) + calls'
    BY <1>1, <2>1, <2>2
  <2> QED
    BY <1>1, <1>2, <1>8, <2>3, <2>4, Recount
<1>10. OneOwner' /\ Share'
  <2>1. /\ \A k \in Keys, l \in 1..Len(tokens) : Holds(k, l)' => Holds(k, l)
        /\ \A x \in Requests : request'[x].pc \in Carrying
              => request'[x].lim \in 1..Len(tokens)
    BY <1>1, <1>2, HoldersOfStep DEF Carrying
  <2>2. ASSUME enforced, NEW c \in Clients, NEW l \in 1..Len(tokens), Holds(c, l)
        PROVE  tokens'[l] + passed'[c] >= tokens[l] + passed[c]
    <3>1. tokens[l] \in 0..BucketSize /\ passed[c] \in Nat /\ passed'[c] \in Nat
          /\ passed'[c] >= passed[c]
      <4>1. tokens[l] \in 0..BucketSize
        BY ElementOf DEF LimiterInv, LimiterTypes
      <4>2. passed[c] \in Nat /\ (passed'[c] = passed[c] \/ passed'[c] = passed[c] + 1)
        BY <1>6
      <4> QED
        BY <4>1, <4>2
    <3>2. CASE l = l0
      <4>1. c = c0
        BY <1>2, <1>3, <2>2, <3>2 DEF LimiterInv, OneOwner, Keys
      <4>2. tokens'[l] = tokens[l] - 1 /\ passed'[c] = passed[c] + 1
        BY <1>5, <1>6, <3>2, <4>1
      <4>3. tokens[l] \in Int /\ passed[c] \in Int
        BY <3>1
      <4> QED
        BY <4>2, <4>3
    <3>3. CASE l # l0
      <4>1. tokens'[l] = tokens[l]
        BY <1>5, <3>3
      <4> QED
        BY <3>1, <4>1, RateLimiterAssumption
    <3> QED
      BY <3>2, <3>3
  <2>3. enforced' = enforced
    BY <1>1
  <2> QED
    BY <1>5, <1>8, <2>1, <2>2, <2>3, HoldersKept
<1>11. OwnKey'
  BY <1>1, <1>2, <1>7 DEF LimiterInv, OwnKey, AtLimit
<1>12. Single'
  <2> SUFFICES ASSUME enforced, NEW c \in Clients, c \notin renewed
               PROVE  /\ clients[c] = 0 => passed'[c] = 0
                      /\ clients[c] # 0 => passed'[c] + tokens'[clients[c]] <= BucketSize + ticks
                      /\ \A x \in Requests :
                            request'[x].pc \in {"stamp", "allow"} /\ request'[x].key = c
                               => clients[c] # 0 /\ request'[x].lim = clients[c]
    <3>1. /\ clients' = clients /\ enforced' = enforced /\ renewed' = renewed
          /\ ticks' = ticks
      BY <1>1
    <3> QED
      BY <3>1 DEF Single
  <2>1. /\ clients[c] = 0 => passed[c] = 0
        /\ clients[c] # 0 => passed[c] + tokens[clients[c]] <= BucketSize + ticks
        /\ \A x \in Requests : request[x].pc \in {"stamp", "allow"} /\ request[x].key = c
              => clients[c] # 0 /\ request[x].lim = clients[c]
    BY DEF LimiterInv, Single
  <2>2. c \in Keys /\ clients[c] \in 0..Len(tokens) /\ passed[c] \in Nat
    BY DEF LimiterInv, LimiterTypes, Keys
  <2>3. CASE c = c0
    <3>1. clients[c] = l0 /\ l0 # 0
      BY <1>1, <1>3, <2>1, <2>3
    <3>2. passed[c] + tokens[l0] <= BucketSize + ticks /\ tokens'[l0] = tokens[l0] - 1
      BY <1>3, <1>5, <2>1, <3>1
    <3>3. passed'[c] + tokens'[l0] = passed[c] + tokens[l0]
      <4>1. tokens'[l0] = tokens[l0] - 1 /\ passed'[c] = passed[c] + 1
        BY <1>6, <2>3, <3>2
      <4>2. tokens[l0] \in Int /\ passed[c] \in Int
        BY <1>4, <2>2
      <4> QED
        BY <4>1, <4>2
    <3> QED
      BY <1>2, <1>7, <2>1, <3>1, <3>2, <3>3
  <2>4. CASE c # c0
    <3>1. passed'[c] = passed[c]
      BY <1>6, <2>4
    <3>2. ASSUME clients[c] # 0 PROVE tokens'[clients[c]] = tokens[clients[c]]
      <4>1. clients[c] \in 1..Len(tokens) /\ Holds(c, clients[c])
        BY <2>2, <3>2 DEF Holds
      <4>2. clients[c] # l0
        BY <1>2, <1>3, <2>2, <2>4, <4>1 DEF LimiterInv, OneOwner
      <4> QED
        BY <1>5, <4>1, <4>2
    <3> QED
      BY <1>2, <1>7, <2>1, <3>1, <3>2
  <2> QED
    BY <2>3, <2>4
<1>13. RefusedHadItsShare'
  <2> SUFFICES ASSUME NEW x \in Requests, request'[x].pc = "refused"
               PROVE  passed'[request'[x].client] >= BucketSize
    BY DEF RefusedHadItsShare
  <2>1. x # r /\ request'[x] = request[x]
    BY <1>2, <1>7
  <2>2. passed[request[x].client] >= BucketSize /\ request[x].client \in Clients
    BY <2>1 DEF LimiterInv, LimiterTypes, RequestRecords, RefusedHadItsShare
  <2>3. passed'[request[x].client] >= passed[request[x].client]
        /\ passed'[request[x].client] \in Nat /\ passed[request[x].client] \in Nat
    BY <1>6, <2>2
  <2> QED
    BY <2>1, <2>2, <2>3, RateLimiterAssumption
<1> QED
  BY <1>8, <1>9, <1>10, <1>11, <1>12, <1>13 DEF LimiterInv

\* A step of the culling goroutine, or a tick: no request goes on.
LEMMA ClockStep ==
    ASSUME LimiterInv, LimiterTypes', UNCHANGED <<enforced, request, calls, passed>>,
           Len(tokens') = Len(tokens),
           \A l \in 1..Len(tokens) : tokens'[l] >= tokens[l],
           \A k \in Keys : clients'[k] = clients[k] \/ clients'[k] = 0,
           enforced => \A c \in Clients \ renewed' :
              /\ c \notin renewed /\ clients'[c] = clients[c]
              /\ clients[c] # 0 => passed[c] + tokens'[clients[c]] <= BucketSize + ticks'
    PROVE  LimiterInv'
<1>1. Counted'
  BY DEF LimiterInv, Counted, AtLookup, Taking
<1>2. OneOwner' /\ Share'
  <2>1. \A k \in Keys, l \in 1..Len(tokens) : Holds(k, l)' => Holds(k, l)
    BY DEF Holds, Carries
  <2>2. \A x \in Requests : request'[x].pc \in Carrying => request'[x].lim \in 1..Len(tokens)
    BY DEF LimiterInv, OneOwner
  <2>3. ASSUME NEW c \in Clients, NEW l \in 1..Len(tokens)
        PROVE  tokens'[l] + passed'[c] >= tokens[l] + passed[c]
    <3>1. tokens[l] \in 0..BucketSize /\ tokens'[l] \in 0..BucketSize
      BY ElementOf DEF LimiterInv, LimiterTypes
    <3>2. tokens[l] \in Int /\ tokens'[l] \in Int /\ passed[c] \in Int /\ passed'[c] = passed[c]
          /\ tokens'[l] >= tokens[l]
      BY <3>1 DEF LimiterInv, LimiterTypes
    <3> QED
      BY <3>2
  <2> QED
    BY <2>1, <2>2, <2>3, HoldersKept
<1>3. OwnKey' /\ RefusedHadItsShare'
  BY DEF LimiterInv, OwnKey, RefusedHadItsShare
<1>4. Single'
  <2> SUFFICES ASSUME enforced, NEW c \in Clients \ renewed'
               PROVE  /\ clients'[c] = 0 => passed[c] = 0
                      /\ clients'[c] # 0 => passed[c] + tokens'[clients'[c]] <= BucketSize + ticks'
                      /\ \A x \in Requests :
                            request[x].pc \in {"stamp", "allow"} /\ request[x].key = c
                               => clients'[c] # 0 /\ request[x].lim = clients'[c]
    BY DEF Single
  <2>1. clients'[c] = clients[c] /\ c \in Clients \ renewed
    OBVIOUS
  <2> QED
    BY <2>1 DEF LimiterInv, Single
<1> QED
  BY <1>1, <1>2, <1>3, <1>4 DEF LimiterInv

CullRecords == [pc : {"wait", "next", "delete"}, left : SUBSET Keys, key : Keys,
                waited : 0..MaxAge]

\* The culling goroutine.
LEMMA CullInv == ASSUME LimiterInv, CullStep PROVE LimiterInv'
<1> USE RateLimiterAssumption
<1>1. LimiterTypes /\ cull \in CullRecords /\ Anonymous \in Keys
  BY DEF LimiterInv, LimiterTypes, CullRecords, Keys
<1>2. UNCHANGED <<limited, enforced, identified, tokens, age, request, ticks, calls, passed>>
  BY DEF CullStep, CullBegin, CullGet, CullDelete
<1>3. \A l \in 1..Len(tokens) : tokens'[l] >= tokens[l]
  <2>1. \A l \in 1..Len(tokens) : tokens[l] \in 0..BucketSize
    BY <1>1, ElementOf DEF LimiterTypes
  <2> QED
    BY <1>2, <2>1
<1>4. CASE CullBegin \/ CullGet
  <2>1. UNCHANGED <<clients, renewed>>
    BY <1>4 DEF CullBegin, CullGet
  <2>2. cull' \in CullRecords
    <3>1. CASE CullBegin
      <4> DEFINE listed == {k \in Keys : clients[k] # 0}
      <4>1. listed \in SUBSET Keys /\ 0 \in 0..MaxAge
        OBVIOUS
      <4>2. cull' = [cull EXCEPT !.left = listed, !.pc = "next", !.waited = 0]
        BY <3>1 DEF CullBegin
      <4> HIDE DEF listed
      <4> QED
        BY <1>1, <4>1, <4>2 DEF CullRecords
    <3>2. CASE CullGet
      BY ZenonT(60), <1>1, <3>2 DEF CullGet, CullRecords
    <3> QED
      BY <1>4, <3>1, <3>2
  <2>3. LimiterTypes'
    BY <1>1, <1>2, <2>1, <2>2 DEF LimiterTypes, CullRecords
  <2>4. enforced => \A c \in Clients \ renewed :
           clients[c] # 0 => passed[c] + tokens[clients[c]] <= BucketSize + ticks
    BY DEF LimiterInv, Single
  <2> QED
    BY <1>2, <1>3, <2>1, <2>3, <2>4, ClockStep
<1>5. CASE CullDelete
  <2>1. /\ clients' = [clients EXCEPT ![cull.key] = 0] /\ renewed' = renewed \cup {cull.key}
        /\ cull' = [cull EXCEPT !.pc = "next", !.key = Anonymous] /\ cull.key \in Keys
    BY <1>1, <1>5 DEF CullDelete, CullRecords
  <2>2. \A k \in Keys : clients'[k] = IF k = cull.key THEN 0 ELSE clients[k]
    BY <1>1, <2>1 DEF LimiterTypes
  <2>3. clients' \in [Keys -> 0..Len(tokens)] /\ renewed' \subseteq Keys
    <3>1. 0 \in 0..Len(tokens) /\ clients \in [Keys -> 0..Len(tokens)] /\ renewed \subseteq Keys
      BY <1>1 DEF LimiterTypes
    <3> QED
      BY <2>1, <3>1
  <2>4. cull' \in CullRecords
    BY <1>1, <2>1 DEF CullRecords
  <2>5. LimiterTypes'
    BY <1>1, <1>2, <2>3, <2>4 DEF LimiterTypes, CullRecords
  <2>6. ASSUME enforced, NEW c \in Clients \ renewed'
        PROVE  /\ c \notin renewed /\ clients'[c] = clients[c]
               /\ clients[c] # 0 => passed[c] + tokens[clients[c]] <= BucketSize + ticks
    BY <2>1, <2>2, <2>6 DEF LimiterInv, Single, Keys
  <2> QED
    BY <1>2, <1>3, <2>2, <2>5, <2>6, ClockStep
<1> QED
  BY <1>4, <1>5 DEF CullStep

\* A tick: every bucket gets at most one token back.
LEMMA TickInv == ASSUME LimiterInv, TickPasses PROVE LimiterInv'
<1> USE RateLimiterAssumption
<1>1. /\ LimiterTypes /\ ticks \in Nat /\ ticks' = ticks + 1 /\ ticks' \in 0..MaxTicks
      /\ UNCHANGED <<limited, enforced, identified, clients, request, calls, passed, renewed>>
  BY SMTT(30) DEF TickPasses, LimiterInv, LimiterTypes
<1>2. /\ tokens' \in Seq(0..BucketSize) /\ Len(tokens') = Len(tokens)
      /\ \A l \in 1..Len(tokens) : /\ tokens[l] \in Int /\ tokens'[l] \in Int
                                    /\ tokens'[l] >= tokens[l] /\ tokens'[l] <= tokens[l] + 1
  <2>1. tokens \in Seq(0..BucketSize) /\ \A l \in 1..Len(tokens) : tokens[l] \in 0..BucketSize
    BY <1>1, ElementOf DEF LimiterTypes
  <2>2. DOMAIN tokens = 1..Len(tokens) /\ Len(tokens) \in Nat
    BY <2>1
  <2>3. tokens' = [l \in 1..Len(tokens) |->
                      IF tokens[l] < BucketSize THEN tokens[l] + 1 ELSE tokens[l]]
    BY <2>2 DEF TickPasses
  <2>4. \A l \in 1..Len(tokens) : /\ tokens'[l] \in 0..BucketSize /\ tokens[l] \in Int
                                  /\ tokens'[l] >= tokens[l] /\ tokens'[l] <= tokens[l] + 1
    BY <2>1, <2>3
  <2>5. tokens' \in [1..Len(tokens) -> 0..BucketSize]
    BY <2>3, <2>4
  <2>6. tokens' \in Seq(0..BucketSize) /\ Len(tokens') = Len(tokens)
    BY <2>2, <2>5
  <2> QED
    BY <2>4, <2>6
<1>3. age' \in Seq(0..(MaxAge + 1)) /\ Len(age') = Len(age)
  <2>1. age \in Seq(0..(MaxAge + 1)) /\ \A l \in 1..Len(age) : age[l] \in 0..(MaxAge + 1)
    BY <1>1, ElementOf DEF LimiterTypes
  <2>2. DOMAIN age = 1..Len(age) /\ Len(age) \in Nat
    BY <2>1
  <2>3. age' = [l \in 1..Len(age) |-> IF age[l] > MaxAge THEN age[l] ELSE age[l] + 1]
    BY <2>2 DEF TickPasses
  <2>4. \A l \in 1..Len(age) : age'[l] \in 0..(MaxAge + 1)
    BY <2>1, <2>3
  <2>5. age' \in [1..Len(age) -> 0..(MaxAge + 1)]
    BY <2>3, <2>4
  <2> QED
    BY <2>2, <2>5
<1>4. cull' \in CullRecords
  <2>1. cull \in CullRecords
    BY <1>1 DEF LimiterTypes, CullRecords
  <2>2. PICK w \in 0..MaxAge : cull' = [cull EXCEPT !.waited = w]
    <3> DEFINE w == IF cull.pc = "wait" /\ cull.waited < MaxAge THEN cull.waited + 1
                    ELSE cull.waited
    <3>1. cull.waited \in 0..MaxAge
      BY <2>1 DEF CullRecords
    <3>2. w \in 0..MaxAge /\ cull' = [cull EXCEPT !.waited = w]
      BY <3>1 DEF TickPasses
    <3> QED
      BY <3>2
  <2> QED
    BY <2>1, <2>2 DEF CullRecords
<1>5. LimiterTypes'
  BY <1>1, <1>2, <1>3, <1>4 DEF LimiterTypes, CullRecords
<1>6. ASSUME enforced, NEW c \in Clients \ renewed, clients[c] # 0
      PROVE  passed[c] + tokens'[clients[c]] <= BucketSize + ticks'
  <2> DEFINE l == clients[c]
  <2>1. l \in 1..Len(tokens) /\ passed[c] \in Nat
    BY <1>1, <1>6 DEF LimiterTypes, Keys
  <2>2. passed[c] + tokens[l] <= BucketSize + ticks
    BY <1>6 DEF LimiterInv, Single
  <2>3. tokens'[l] <= tokens[l] + 1 /\ tokens[l] \in Int /\ tokens'[l] \in Int
    BY <1>2, <2>1
  <2> HIDE DEF l
  <2>4. passed[c] + tokens'[l] <= BucketSize + ticks'
    BY <1>1, <2>1, <2>2, <2>3
  <2> QED
    BY <2>4 DEF l
<1> QED
  BY <1>1, <1>2, <1>5, <1>6, ClockStep

\* Every step of requests, culling and clock keeps the invariant.
LEMMA LimiterStepInv == LimiterInv /\ [RateLimiterNext]_limiterVars => LimiterInv'
<1> SUFFICES ASSUME LimiterInv, [RateLimiterNext]_limiterVars PROVE LimiterInv'
  OBVIOUS
<1>1. ASSUME NEW r \in Requests, Arrive(r) \/ LimitStep(r) PROVE LimiterInv'
  BY <1>1, ArriveInv, LookupFoundInv, LookupFreshInv, AddInv, StampInv, AllowEmptyInv,
     AllowTakesInv, RequestDoneInv
  DEF LimitStep
<1>2. CASE UNCHANGED limiterVars
  BY <1>2
  DEF limiterVars, LimiterInv, LimiterTypes, Counted, AtLookup, Taking, OneOwner, Holds, Carries,
      OwnKey, Share, Single, RefusedHadItsShare
<1> QED
  BY <1>1, <1>2, CullInv, TickInv DEF RateLimiterNext

\* Every client has a bucket of its own: a request is refused only if its client has
\* taken a whole bucket, and a client whose limiter was neither replaced nor culled is
\* given no more than its bucket and what the ticks put back (ratelimiter.go Limit,
\* cullStaleClients), for any number of clients and requests and any size of bucket.
THEOREM BucketsAreOwn == RateLimiterInit /\ [][RateLimiterNext]_limiterVars => []OwnBucket
<1>1. LimiterInv => OwnBucket
  <2> SUFFICES ASSUME LimiterInv PROVE OwnBucket
    OBVIOUS
  <2> USE RateLimiterAssumption
  <2>1. Len(tokens) \in Nat /\ Len(tokens) <= MaxCalls /\ calls \in 0..MaxCalls
    <3>1. IsFiniteSet(AtLookup) /\ Len(tokens) + Cardinality(AtLookup) <= calls
          /\ calls \in 0..MaxCalls /\ Len(tokens) \in Nat
      BY DEF LimiterInv, LimiterTypes, Counted
    <3>2. Cardinality(AtLookup) \in Nat
      BY <3>1, FS_CardinalityType
    <3> QED
      BY <3>1, <3>2
  <2>2. ASSUME NEW c \in Clients PROVE passed[c] \in 0..MaxCalls
    <3>1. IsFiniteSet(Taking(c)) /\ passed[c] + Cardinality(Taking(c)) <= calls
          /\ passed[c] \in Nat
      BY DEF LimiterInv, LimiterTypes, Counted
    <3>2. Cardinality(Taking(c)) \in Nat
      BY <3>1, FS_CardinalityType
    <3> QED
      BY <2>1, <3>1, <3>2
  <2>3. passed \in [Clients -> 0..MaxCalls]
    BY <2>2 DEF LimiterInv, LimiterTypes
  <2>4. /\ DOMAIN tokens \subseteq Limiters /\ DOMAIN age = DOMAIN tokens
        /\ \A l \in DOMAIN tokens : tokens[l] \in 0..BucketSize /\ age[l] \in 0..(MaxAge + 1)
    <3>1. tokens \in Seq(0..BucketSize) /\ age \in Seq(0..(MaxAge + 1)) /\ Len(age) = Len(tokens)
      BY DEF LimiterInv, LimiterTypes
    <3>2. DOMAIN tokens = 1..Len(tokens) /\ DOMAIN age = 1..Len(tokens)
      BY <3>1
    <3>3. 1..Len(tokens) \subseteq Limiters
      BY <2>1 DEF Limiters
    <3> QED
      BY <3>1, <3>2, <3>3, ElementOf
  <2>5. clients \in [Keys -> Limiters \cup {0}]
    <3>1. 0..Len(tokens) \subseteq Limiters \cup {0}
      BY <2>1 DEF Limiters
    <3> QED
      BY <3>1 DEF LimiterInv, LimiterTypes
  <2>6. RateLimiterTypeOK
    BY <2>3, <2>4, <2>5 DEF LimiterInv, LimiterTypes, RateLimiterTypeOK, RequestRecords
  <2>7. OneBucket
    <3> SUFFICES ASSUME NEW c \in Clients, enforced, c \notin renewed
                 PROVE  passed[c] <= BucketSize + ticks
      BY DEF OneBucket
    <3>1. passed[c] \in Nat /\ ticks \in Nat /\ clients[c] \in 0..Len(tokens)
      BY DEF LimiterInv, LimiterTypes, Keys
    <3>2. CASE clients[c] = 0
      <4>1. passed[c] = 0
        BY <3>2 DEF LimiterInv, Single
      <4> QED
        BY <3>1, <4>1
    <3>3. CASE clients[c] # 0
      <4>1. passed[c] + tokens[clients[c]] <= BucketSize + ticks
        BY <3>3 DEF LimiterInv, Single
      <4>2. clients[c] \in 1..Len(tokens)
        BY <2>1, <3>1, <3>3
      <4>3. tokens[clients[c]] \in 0..BucketSize
        BY <4>2, ElementOf DEF LimiterInv, LimiterTypes
      <4> QED
        BY <3>1, <4>1, <4>3
    <3> QED
      BY <3>2, <3>3
  <2> QED
    BY <2>6, <2>7 DEF LimiterInv, OwnBucket
<1> QED
  BY <1>1, LimiterInitInv, LimiterStepInv, PTL
-----------------------------------------------------------------------------
(***************************************************************************)
(* Process statistics.  A ring holds the samples taken last, the newest    *)
(* before its current slot; what GetData and the totals compute from it is *)
(* proved by induction over the passes of their loops, stated for sets of  *)
(* numbers.                                                                *)
(***************************************************************************)
\* A nonempty set of natural numbers has a smallest one.
LEMMA SmallestElement ==
    ASSUME NEW T, T \subseteq Nat, T # {}
    PROVE  \E x \in T : \A y \in T : x <= y
<1> DEFINE Less == {p \in Nat \X Nat : p[1] < p[2]}
<1>1. IsWellFoundedOn(Less, Nat)
  <2>1. OpToRel(<, Nat) = Less
    BY DEF OpToRel
  <2> QED
    BY <2>1, NatLessThanWellFounded
<1>2. \E x \in T : \A y \in T : <<y, x>> \notin Less
  <2> HIDE DEF Less
  <2> QED
    BY <1>1, WFMin
<1>3. ASSUME NEW x \in Nat, NEW y \in Nat, <<y, x>> \notin Less PROVE x <= y
  BY <1>3
<1> QED
  BY <1>2, <1>3

\* Induction over 0..n, for a set of numbers.
LEMMA CountingUp ==
    ASSUME NEW n \in Nat, NEW P, 0 \in P, \A i \in 1..n : i - 1 \in P => i \in P
    PROVE  \A i \in 0..n : i \in P
<1> DEFINE T == {i \in 0..n : i \notin P}
<1> SUFFICES ASSUME T # {} PROVE FALSE
  OBVIOUS
<1>1. PICK x \in T : \A y \in T : x <= y
  <2>1. T \subseteq Nat
    OBVIOUS
  <2> QED
    BY <2>1, SmallestElement
<1>2. x \in 1..n /\ x - 1 \in 0..n /\ ~(x <= x - 1)
  BY <1>1
<1>3. x - 1 \in P
  BY <1>1, <1>2
<1> QED
  BY <1>1, <1>2, <1>3

\* f holds the values of a loop of n passes that starts with first.
Iterates(f, n, first, step) ==
    f[0] = first /\ \A i \in 1..n : f[i] = step[i][f[i - 1]]

\* Every such loop has its values: a recursive function over 0..n exists.
LEMMA Iteration ==
    ASSUME NEW D, NEW n \in Nat, NEW first \in D, NEW step \in [1..n -> [D -> D]]
    PROVE  \E f \in [0..n -> D] : Iterates(f, n, first, step)
<1> DEFINE Upto(k, f) == Iterates(f, k, first, step)
<1> USE DEF Iterates
<1> DEFINE P == {k \in 0..n : \E f \in [0..k -> D] : Upto(k, f)}
<1>1. 0 \in P
  <2>1. [i \in 0..0 |-> first] \in [0..0 -> D] /\ Upto(0, [i \in 0..0 |-> first])
    OBVIOUS
  <2>2. 0 \in 0..n /\ \E f \in [0..0 -> D] : Upto(0, f)
    <3> HIDE DEF Iterates
    <3> QED
      BY <2>1
  <2> QED
    BY <2>2
<1>2. ASSUME NEW k \in 1..n, k - 1 \in P PROVE k \in P
  <2>1. PICK f \in [0..(k - 1) -> D] : Upto(k - 1, f)
    BY <1>2
  <2> DEFINE g == [i \in 0..k |-> IF i = k THEN step[k][f[k - 1]] ELSE f[i]]
  <2>2. step[k][f[k - 1]] \in D
    OBVIOUS
  <2>3. g \in [0..k -> D]
    BY <2>2
  <2>4. Upto(k, g)
    BY <2>1
  <2>5. k \in 0..n /\ \E h \in [0..k -> D] : Upto(k, h)
    <3> HIDE DEF Iterates, g
    <3> QED
      BY <2>3, <2>4
  <2> QED
    BY <2>5
<1>3. n \in P
  <2> HIDE DEF P
  <2>1. \A i \in 0..n : i \in P
    BY <1>1, <1>2, CountingUp
  <2> QED
    BY <2>1
<1> QED
  BY <1>3

\* The total is the last value of the loop that adds up the samples.
LEMMA TotalAdds ==
    ASSUME NEW s \in Seq(Nat)
    PROVE  \E f \in [0..Len(s) -> Nat] : /\ f[0] = 0
                                         /\ \A i \in 1..Len(s) : f[i] = f[i - 1] + s[i]
                                         /\ Total(s) = f[Len(s)]
<1> DEFINE n == Len(s)
<1> DEFINE Sums(f) == f = [i \in 0..n |-> IF i = 0 THEN 0 ELSE f[i - 1] + s[i]]
<1>0. n \in Nat /\ \A i \in 1..n : s[i] \in Nat
  OBVIOUS
<1>1. \E f : Sums(f)
  <2> DEFINE step == [i \in 1..n |-> [x \in Nat |-> x + s[i]]]
  <2>1. step \in [1..n -> [Nat -> Nat]]
    BY <1>0
  <2>2. PICK f \in [0..n -> Nat] : Iterates(f, n, 0, step)
    <3>1. 0 \in Nat
      OBVIOUS
    <3> HIDE DEF step, n
    <3> QED
      BY <1>0, <2>1, <3>1, Iteration
  <2>3. ASSUME NEW i \in 1..n PROVE f[i] = f[i - 1] + s[i]
    <3>1. f[i - 1] \in Nat /\ f[i] = step[i][f[i - 1]]
      <4> HIDE DEF step, n
      <4>1. i - 1 \in 0..n
        BY <1>0
      <4> QED
        BY <2>2, <4>1 DEF Iterates
    <3> QED
      BY <3>1
  <2>4. Sums(f)
    <3>1. \A i \in 0..n : f[i] = IF i = 0 THEN 0 ELSE f[i - 1] + s[i]
      BY <1>0, <2>2, <2>3 DEF Iterates
    <3> HIDE DEF n
    <3> QED
      BY <3>1
  <2> QED
    BY <2>4
<1> DEFINE t == CHOOSE f : Sums(f)
<1>2. Sums(t)
  <2> HIDE DEF Sums
  <2> QED
    BY <1>1
<1>3. Total(s) = t[n]
  BY DEF Total
<1> HIDE DEF t
<1>4. t[0] = 0 /\ \A i \in 1..n : t[i] = t[i - 1] + s[i]
  <2>1. \A i \in 0..n : t[i] = IF i = 0 THEN 0 ELSE t[i - 1] + s[i]
    BY <1>2
  <2> HIDE DEF Sums
  <2> QED
    BY <1>0, <2>1
<1>5. t \in [0..n -> Nat]
  <2> DEFINE P == {i \in 0..n : t[i] \in Nat}
  <2>1. 0 \in P
    BY <1>0, <1>4
  <2>2. ASSUME NEW i \in 1..n, i - 1 \in P PROVE i \in P
    BY SMTT(30), <1>0, <1>4, <2>2
  <2>3. \A i \in 0..n : i \in P
    <3> HIDE DEF P, n, Sums
    <3> QED
      BY <1>0, <2>1, <2>2, CountingUp
  <2>4. DOMAIN t = 0..n /\ t = [i \in DOMAIN t |-> t[i]]
    BY <1>2
  <2> HIDE DEF Sums
  <2> QED
    BY <2>3, <2>4
<1> QED
  BY <1>3, <1>4, <1>5

\* One more sample at most nine tenths of the limit (c is nine times the limit).
LEMMA OneMoreAtMost ==
    ASSUME NEW c \in Nat, NEW i \in Nat, NEW x \in Nat, NEW v \in Nat,
           10 * v <= c, 10 * x <= c * (i - 1)
    PROVE  10 * (x + v) <= c * i
<1>1. c * i = c * (i - 1) + c /\ c * (i - 1) \in Int /\ c * i \in Int
  OBVIOUS
<1> QED
  BY <1>1

\* One more sample above it.
LEMMA OneMoreAbove ==
    ASSUME NEW c \in Nat, NEW i \in Nat, NEW x \in Nat, NEW v \in Nat,
           10 * v > c, 10 * x >= c * (i - 1) + (i - 1)
    PROVE  10 * (x + v) >= c * i + i
<1>1. c * i = c * (i - 1) + c /\ c * (i - 1) \in Int /\ c * i \in Int
  OBVIOUS
<1> QED
  BY <1>1

\* Samples at most nine tenths of the limit have such an average.
LEMMA TotalAtMost ==
    ASSUME NEW s \in Seq(Nat), NEW c \in Nat, \A i \in 1..Len(s) : 10 * s[i] <= c
    PROVE  10 * Total(s) <= c * Len(s)
<1>1. PICK f \in [0..Len(s) -> Nat] : /\ f[0] = 0
                                      /\ \A i \in 1..Len(s) : f[i] = f[i - 1] + s[i]
                                      /\ Total(s) = f[Len(s)]
  BY TotalAdds
<1> DEFINE P == {i \in 0..Len(s) : 10 * f[i] <= c * i}
<1>2. 0 \in P
  BY <1>1
<1>3. ASSUME NEW i \in 1..Len(s), i - 1 \in P PROVE i \in P
  <2>0. i \in 0..Len(s) /\ i - 1 \in 0..Len(s) /\ i \in Nat
    OBVIOUS
  <2>1. f[i - 1] \in Nat /\ s[i] \in Nat /\ f[i] = f[i - 1] + s[i] /\ 10 * s[i] <= c
    <3> HIDE DEF P
    <3>1. f[i - 1] \in Nat
      BY <2>0
    <3>2. s[i] \in Nat
      OBVIOUS
    <3>3. f[i] = f[i - 1] + s[i]
      BY <1>1
    <3> QED
      BY <3>1, <3>2, <3>3
  <2>4. 10 * f[i - 1] <= c * (i - 1)
    BY <1>3
  <2>3. 10 * f[i] <= c * i
    <3> HIDE DEF P
    <3> QED
      BY <2>0, <2>1, <2>4, OneMoreAtMost
  <2> QED
    BY <2>0, <2>3
<1>4. Len(s) \in Nat
  OBVIOUS
<1>5. \A i \in 0..Len(s) : i \in P
  <2> HIDE DEF P
  <2> QED
    BY <1>2, <1>3, <1>4, CountingUp
<1>6. Len(s) \in P
  BY <1>4, <1>5
<1> QED
  BY <1>1, <1>6

\* So have samples above it.
LEMMA TotalAbove ==
    ASSUME NEW s \in Seq(Nat), s # << >>, NEW c \in Nat, \A i \in 1..Len(s) : 10 * s[i] > c
    PROVE  10 * Total(s) > c * Len(s)
<1>1. PICK f \in [0..Len(s) -> Nat] : /\ f[0] = 0
                                      /\ \A i \in 1..Len(s) : f[i] = f[i - 1] + s[i]
                                      /\ Total(s) = f[Len(s)]
  BY TotalAdds
<1> DEFINE P == {i \in 0..Len(s) : 10 * f[i] >= c * i + i}
<1>2. 0 \in P
  BY <1>1
<1>3. ASSUME NEW i \in 1..Len(s), i - 1 \in P PROVE i \in P
  <2>0. i \in 0..Len(s) /\ i - 1 \in 0..Len(s) /\ i \in Nat
    OBVIOUS
  <2>1. f[i - 1] \in Nat /\ s[i] \in Nat /\ f[i] = f[i - 1] + s[i] /\ 10 * s[i] > c
    <3> HIDE DEF P
    <3>1. f[i - 1] \in Nat
      BY <2>0
    <3>2. s[i] \in Nat
      OBVIOUS
    <3>3. f[i] = f[i - 1] + s[i]
      BY <1>1
    <3> QED
      BY <3>1, <3>2, <3>3
  <2>4. 10 * f[i - 1] >= c * (i - 1) + (i - 1)
    BY <1>3
  <2>3. 10 * f[i] >= c * i + i
    <3> HIDE DEF P
    <3> QED
      BY <2>0, <2>1, <2>4, OneMoreAbove
  <2> QED
    BY <2>0, <2>3
<1>4. Len(s) \in Nat /\ Len(s) > 0
  OBVIOUS
<1>5. \A i \in 0..Len(s) : i \in P
  <2> HIDE DEF P
  <2> QED
    BY <1>2, <1>3, <1>4, CountingUp
<1>6. Len(s) \in P
  BY <1>4, <1>5
<1>7. 10 * f[Len(s)] >= c * Len(s) + Len(s) /\ c * Len(s) \in Int /\ f[Len(s)] \in Nat
  BY <1>4, <1>6
<1> QED
  BY <1>1, <1>4, <1>7

\* A ring without an empty slot gives all of them.
LEMMA FullRing ==
    ASSUME NEW r, r.slot \in [0..(Window - 1) -> Nat], r.at \in 0..(Window - 1)
    PROVE  /\ GetData(r) \in Seq(Nat) /\ Len(GetData(r)) = Window
           /\ \A i \in 1..Window : \E j \in 0..(Window - 1) : GetData(r)[i] = r.slot[j]
<1> DEFINE n == Window
<1> DEFINE entry(i) == r.slot[(r.at + i - 1) % Window]
<1> DEFINE Slices(f) == f = [i \in 0..n |-> IF i = 0 THEN << >>
                                            ELSE IF entry(i) = Nil THEN f[i - 1]
                                            ELSE Append(f[i - 1], entry(i))]
<1>0. /\ n \in Nat
      /\ \A i \in 1..n : /\ (r.at + i - 1) % Window \in 0..(Window - 1)
                         /\ entry(i) \in Nat /\ entry(i) # Nil
  BY SMTT(30), StatsAssumption DEF Nil
<1>1. \E f : Slices(f)
  <2> DEFINE step == [i \in 1..n |-> [x \in Seq(Nat) |-> Append(x, entry(i))]]
  <2>1. step \in [1..n -> [Seq(Nat) -> Seq(Nat)]]
    BY <1>0
  <2>2. PICK f \in [0..n -> Seq(Nat)] : Iterates(f, n, << >>, step)
    <3>1. << >> \in Seq(Nat)
      OBVIOUS
    <3> HIDE DEF step, n
    <3> QED
      BY <1>0, <2>1, <3>1, Iteration
  <2>3. ASSUME NEW i \in 1..n PROVE f[i] = Append(f[i - 1], entry(i))
    <3>1. f[i - 1] \in Seq(Nat) /\ f[i] = step[i][f[i - 1]]
      <4> HIDE DEF step, n
      <4>1. i - 1 \in 0..n
        BY <1>0
      <4> QED
        BY <2>2, <4>1 DEF Iterates
    <3> QED
      BY <3>1
  <2>4. Slices(f)
    <3>1. \A i \in 0..n : f[i] = IF i = 0 THEN << >>
                                 ELSE IF entry(i) = Nil THEN f[i - 1]
                                 ELSE Append(f[i - 1], entry(i))
      <4>1. f[0] = << >>
        BY <2>2 DEF Iterates
      <4>2. \A i \in 0..n : i = 0 \/ i \in 1..n
        BY <1>0
      <4> HIDE DEF n, entry
      <4> QED
        BY <1>0, <2>3, <4>1, <4>2
    <3> HIDE DEF n, entry
    <3> QED
      BY <3>1
  <2> QED
    BY <2>4
<1> DEFINE t == CHOOSE f : Slices(f)
<1>2. Slices(t)
  <2> HIDE DEF Slices
  <2> QED
    BY <1>1
<1>3. GetData(r) = t[n]
  BY DEF GetData
<1> HIDE DEF t
<1>4. t[0] = << >> /\ \A i \in 1..n : t[i] = Append(t[i - 1], entry(i))
  <2> HIDE DEF entry
  <2>1. \A i \in 0..n : t[i] = IF i = 0 THEN << >>
                               ELSE IF entry(i) = Nil THEN t[i - 1]
                               ELSE Append(t[i - 1], entry(i))
    BY <1>2
  <2> HIDE DEF Slices, n
  <2>2. \A i \in 1..n : i \in 0..n /\ i # 0
    BY <1>0
  <2>3. 0 \in 0..n
    BY <1>0
  <2> QED
    BY <1>0, <2>1, <2>2, <2>3
<1> HIDE DEF Slices
<1> DEFINE Good(i) == /\ t[i] \in Seq(Nat) /\ Len(t[i]) = i
                      /\ \A k \in 1..i : \E j \in 0..(Window - 1) : t[i][k] = r.slot[j]
<1> DEFINE P == {i \in 0..n : Good(i)}
<1>5. 0 \in P
  <2>1. 0 \in 0..n /\ t[0] \in Seq(Nat) /\ Len(t[0]) = 0
    <3> HIDE DEF n, entry
    <3> QED
      BY <1>0, <1>4
  <2> QED
    BY <2>1
<1>6. ASSUME NEW i \in 1..n, i - 1 \in P PROVE i \in P
  <2>0. i \in 0..n /\ Good(i - 1)
    <3> HIDE DEF n, Good
    <3> QED
      BY <1>0, <1>6
  <2>1. /\ t[i - 1] \in Seq(Nat) /\ Len(t[i - 1]) = i - 1
        /\ \A k \in 1..(i - 1) : \E j \in 0..(Window - 1) : t[i - 1][k] = r.slot[j]
        /\ i \in 0..n
    BY <2>0
  <2>2. entry(i) \in Nat /\ \E j \in 0..(Window - 1) : entry(i) = r.slot[j]
    BY <1>0
  <2>3. t[i] = Append(t[i - 1], entry(i))
    BY <1>4
  <2> HIDE DEF entry, n
  <2>4. /\ t[i] \in Seq(Nat) /\ Len(t[i]) = i /\ t[i][i] = entry(i)
        /\ \A k \in 1..(i - 1) : t[i][k] = t[i - 1][k]
    BY <2>1, <2>2, <2>3
  <2>5. \A k \in 1..i : k = i \/ k \in 1..(i - 1)
    OBVIOUS
  <2> QED
    BY <2>1, <2>2, <2>4, <2>5
<1>7. \A i \in 0..n : i \in P
  <2> HIDE DEF P, n
  <2> QED
    BY <1>0, <1>5, <1>6, CountingUp
<1>8. n \in P
  <2> HIDE DEF P
  <2> QED
    BY <1>0, <1>7
<1> QED
  BY <1>3, <1>8

\* The slots hold the last samples, the newest before the current slot.
RingHolds(r, taken) ==
    /\ r.at <= Len(taken)
    /\ Len(taken) < Window => r.at = Len(taken)
    /\ \A j \in 0..(Window - 1) :
          /\ j < r.at => r.slot[j] = taken[Len(taken) - r.at + j + 1]
          /\ j >= r.at /\ Len(taken) >= Window
                => r.slot[j] = taken[Len(taken) - r.at - Window + j + 1]

\* The slot after slot a of n.
LEMMA NextSlot ==
    ASSUME NEW n \in Nat \ {0}, NEW a \in 0..(n - 1)
    PROVE  (a + 1) % n = IF a + 1 = n THEN 0 ELSE a + 1
<1>1. CASE a + 1 = n
  <2>1. n % n = 0
    OBVIOUS
  <2> QED
    BY <1>1, <2>1
<1>2. CASE a + 1 # n
  <2>1. \A b \in 0..(n - 1) : b % n = b
    OBVIOUS
  <2> QED
    BY <1>2, <2>1
<1> QED
  BY <1>1, <1>2

\* The place of a sample between the first and the last.
LEMMA Between ==
    ASSUME NEW n \in Nat, NEW at \in Nat, at <= n, NEW j \in Nat, j < at
    PROVE  n - at + j + 1 \in 1..n
OBVIOUS

\* One sample more, and the next slot moves on or back to the first: the newest
\* sample, and the place of the others, counted from the new end.
LEMMA NewestPlace ==
    ASSUME NEW n \in Nat, NEW x \in Nat, NEW w \in Nat
    PROVE  /\ (n + 1) - (x + 1) + x + 1 = n + 1
           /\ x + 1 = w => (n + 1) - 0 - w + x + 1 = n + 1
OBVIOUS

LEMMA OlderPlace ==
    ASSUME NEW n \in Nat, NEW x \in Nat, NEW w \in Nat, NEW j \in Nat
    PROVE  /\ x + 1 = w => (n + 1) - 0 - w + j + 1 = n - x + j + 1
           /\ (n + 1) - (x + 1) - w + j + 1 = n - x - w + j + 1
           /\ j > x /\ j < w /\ n >= w => n - x - w + j + 1 \in 1..n
OBVIOUS

\* Add overwrites the oldest sample with the new one.
LEMMA AddHolds ==
    ASSUME NEW r \in Rings, NEW q \in Seq(Usages \cup {0}), RingHolds(r, q),
           NEW v \in Usages \cup {0}
    PROVE  Add(r, v) \in Rings /\ RingHolds(Add(r, v), Append(q, v))
<1> DEFINE a == Add(r, v)
<1> DEFINE p == Append(q, v)
<1>1. /\ Window \in Nat \ {0} /\ r.at \in 0..(Window - 1)
      /\ r.slot \in [0..(Window - 1) -> Usages \cup {0, Nil}]
  BY StatsAssumption DEF Rings
<1>2. (r.at + 1) % Window = IF r.at + 1 = Window THEN 0 ELSE r.at + 1
  BY <1>1, NextSlot
<1>3. /\ a.at = (IF r.at + 1 = Window THEN 0 ELSE r.at + 1)
      /\ a.slot = [r.slot EXCEPT ![r.at] = v]
  BY <1>2 DEF Add
<1>4. a \in Rings
  BY <1>1, <1>3 DEF Add, Rings
<1>5. /\ Len(p) = Len(q) + 1 /\ Len(q) \in Nat /\ p[Len(q) + 1] = v
      /\ \A i \in 1..Len(q) : p[i] = q[i]
  OBVIOUS
<1>6. RingHolds(a, p)
  <2> HIDE DEF a, p
  <2>1. a.at <= Len(p) /\ (Len(p) < Window => a.at = Len(p))
    BY <1>1, <1>3, <1>5 DEF RingHolds
  <2>2. ASSUME NEW j \in 0..(Window - 1), j < a.at
        PROVE  a.slot[j] = p[Len(p) - a.at + j + 1]
    <3>1. r.at + 1 # Window /\ a.at = r.at + 1
      BY <1>1, <1>3, <2>2
    <3>2. CASE j = r.at
      <4>1. a.slot[j] = v
        BY <1>1, <1>3, <3>2
      <4>2. Len(p) - a.at + j + 1 = (Len(q) + 1) - (r.at + 1) + r.at + 1
        BY <1>5, <3>1, <3>2
      <4>3. Len(p) - a.at + j + 1 = Len(q) + 1
        BY <1>1, <1>5, <4>2, NewestPlace
      <4> QED
        BY <1>5, <4>1, <4>3
    <3>3. CASE j # r.at
      <4>1. j < r.at /\ a.slot[j] = r.slot[j] /\ r.slot[j] = q[Len(q) - r.at + j + 1]
        BY <1>1, <1>3, <2>2, <3>1, <3>3 DEF RingHolds
      <4>2. Len(q) - r.at + j + 1 \in 1..Len(q) /\ Len(p) - a.at + j + 1 = Len(q) - r.at + j + 1
        <5>1. Len(q) - r.at + j + 1 \in 1..Len(q)
          BY <1>1, <1>5, <4>1, Between DEF RingHolds
        <5>2. Len(q) \in Nat /\ r.at \in Nat /\ j \in Nat
          BY <1>1, <1>5
        <5>3. Len(p) - a.at + j + 1 = Len(q) - r.at + j + 1
          <6>1. Len(p) \in Nat /\ a.at \in Nat
            BY <1>5, <3>1, <5>2
          <6>2. Len(p) - a.at = Len(q) - r.at
            BY <1>5, <3>1, <5>2, <6>1
          <6>3. Len(q) - r.at \in Int
            BY <5>2
          <6> QED
            BY <6>2, <6>3
        <5> QED
          BY <5>1, <5>3
      <4> QED
        BY <1>5, <4>1, <4>2
    <3> QED
      BY <3>2, <3>3
  <2>3. ASSUME NEW j \in 0..(Window - 1), j >= a.at, Len(p) >= Window
        PROVE  a.slot[j] = p[Len(p) - a.at - Window + j + 1]
    <3>1. CASE r.at + 1 = Window
      <4>1. a.at = 0
        BY <1>3, <3>1
      <4>2. CASE j = r.at
        <5>1. a.slot[j] = v
          BY <1>1, <1>3, <4>2
        <5>2. Len(p) - a.at - Window + j + 1 = (Len(q) + 1) - 0 - Window + r.at + 1
          BY <1>5, <4>1, <4>2
        <5>3. Len(p) - a.at - Window + j + 1 = Len(q) + 1
          BY <1>1, <1>5, <3>1, <5>2, NewestPlace
        <5> QED
          BY <1>5, <5>1, <5>3
      <4>3. CASE j # r.at
        <5>1. j < r.at /\ a.slot[j] = r.slot[j] /\ r.slot[j] = q[Len(q) - r.at + j + 1]
          BY <1>1, <1>3, <3>1, <4>3 DEF RingHolds
        <5>2. /\ Len(q) - r.at + j + 1 \in 1..Len(q)
              /\ Len(p) - a.at - Window + j + 1 = Len(q) - r.at + j + 1
          <6>1. Len(q) - r.at + j + 1 \in 1..Len(q)
            BY <1>1, <1>5, <5>1, Between DEF RingHolds
          <6>2. Len(p) - a.at - Window + j + 1 = (Len(q) + 1) - 0 - Window + j + 1
            BY <1>5, <4>1
          <6> QED
            BY <1>1, <1>5, <3>1, <6>1, <6>2, OlderPlace
        <5> QED
          BY <1>5, <5>1, <5>2
      <4> QED
        BY <4>2, <4>3
    <3>2. CASE r.at + 1 # Window
      <4>1. a.at = r.at + 1 /\ j > r.at /\ Len(q) >= Window
        BY <1>1, <1>3, <1>5, <2>3, <3>2 DEF RingHolds
      <4>2. a.slot[j] = r.slot[j] /\ r.slot[j] = q[Len(q) - r.at - Window + j + 1]
        <5>1. j # r.at /\ j \in DOMAIN r.slot /\ j >= r.at
          BY <1>1, <4>1
        <5> QED
          BY <1>3, <4>1, <5>1 DEF RingHolds
      <4>3. /\ Len(q) - r.at - Window + j + 1 \in 1..Len(q)
            /\ Len(p) - a.at - Window + j + 1 = Len(q) - r.at - Window + j + 1
        <5>1. Len(p) - a.at - Window + j + 1 = (Len(q) + 1) - (r.at + 1) - Window + j + 1
          BY <1>5, <4>1
        <5>2. j \in Nat /\ r.at \in Nat /\ j < Window
          BY <1>1
        <5> QED
          BY <1>1, <1>5, <4>1, <5>1, <5>2, OlderPlace
      <4> QED
        BY <1>5, <4>2, <4>3
    <3> QED
      BY <3>1, <3>2
  <2> QED
    BY <2>1, <2>2, <2>3 DEF RingHolds
<1> QED
  BY <1>4, <1>6

\* After a whole window the samples in the ring are the recent ones.
LEMMA DataIsRecent ==
    ASSUME NEW r \in Rings, NEW q \in Seq(Usages \cup {0}), RingHolds(r, q), Len(q) >= Window
    PROVE  /\ GetData(r) \in Seq(Nat) /\ Len(GetData(r)) = Window
           /\ \A i \in 1..Window : \E k \in 1..Window : GetData(r)[i] = Recent(q)[k]
<1>1. /\ Window \in Nat \ {0} /\ r.at \in 0..(Window - 1) /\ Len(q) \in Nat
      /\ r.slot \in [0..(Window - 1) -> Usages \cup {0, Nil}] /\ Usages \subseteq Nat
  BY StatsAssumption DEF Rings
<1>2. \A k \in 1..Window : /\ Recent(q)[k] = q[Len(q) - Window + k]
                           /\ Recent(q)[k] \in Nat
  <2> SUFFICES ASSUME NEW k \in 1..Window
               PROVE  /\ Recent(q)[k] = q[Len(q) - Window + k]
                      /\ Recent(q)[k] \in Nat
    OBVIOUS
  <2>1. Len(q) - Window + k \in 1..Len(q)
    BY <1>1
  <2>2. q[Len(q) - Window + k] \in Nat
    <3>1. q[Len(q) - Window + k] \in Usages \cup {0}
      BY <2>1
    <3>2. Usages \cup {0} \subseteq Nat
      BY StatsAssumption
    <3> QED
      BY <3>1, <3>2, Zenon
  <2>3. Recent(q)[k] = q[(Len(q) - Window + 1) + k - 1]
    BY <1>1 DEF Recent
  <2>4. (Len(q) - Window + 1) + k - 1 = Len(q) - Window + k
    BY <1>1
  <2> QED
    BY <2>2, <2>3, <2>4
<1>3. ASSUME NEW j \in 0..(Window - 1) PROVE \E k \in 1..Window : r.slot[j] = Recent(q)[k]
  <2>1. CASE j < r.at
    <3>1. Window - r.at + j + 1 \in 1..Window
      BY <1>1, <2>1
    <3>2. r.slot[j] = q[Len(q) - Window + (Window - r.at + j + 1)]
      BY <1>1, <2>1 DEF RingHolds
    <3> QED
      BY <1>2, <3>1, <3>2
  <2>2. CASE j >= r.at
    <3>1. j - r.at + 1 \in 1..Window
      BY <1>1, <2>2
    <3>2. r.slot[j] = q[Len(q) - Window + (j - r.at + 1)]
      BY <1>1, <2>2 DEF RingHolds
    <3> QED
      BY <1>2, <3>1, <3>2
  <2> QED
    BY <1>1, <2>1, <2>2
<1>4. r.slot \in [0..(Window - 1) -> Nat]
  BY <1>1, <1>2, <1>3
<1>5. /\ GetData(r) \in Seq(Nat) /\ Len(GetData(r)) = Window
      /\ \A i \in 1..Window : \E j \in 0..(Window - 1) : GetData(r)[i] = r.slot[j]
  BY <1>1, <1>4, FullRing
<1>6. ASSUME NEW i \in 1..Window
      PROVE  \E k \in 1..Window : GetData(r)[i] = Recent(q)[k]
  <2>1. PICK j \in 0..(Window - 1) : GetData(r)[i] = r.slot[j]
    BY <1>5
  <2>2. PICK k \in 1..Window : r.slot[j] = Recent(q)[k]
    BY <1>3
  <2> QED
    BY <2>1, <2>2
<1> QED
  BY <1>5, <1>6

\* Both rings hold the samples taken last.
StatsInv ==
    /\ StatsTypeOK
    /\ RingHolds(memory, memTaken) /\ RingHolds(cpu, cpuTaken)

\* A new buffer holds no sample.
LEMMA EmptyRing == NewSafeBuffer \in Rings /\ RingHolds(NewSafeBuffer, << >>)
<1>1. Window \in Nat \ {0}
  BY StatsAssumption
<1>2. NewSafeBuffer.at = 0 /\ NewSafeBuffer.slot = [i \in 0..(Window - 1) |-> Nil]
  BY DEF NewSafeBuffer
<1>3. NewSafeBuffer \in Rings
  BY <1>1 DEF NewSafeBuffer, Rings
<1>4. RingHolds(NewSafeBuffer, << >>)
  BY <1>1, <1>2 DEF RingHolds
<1> QED
  BY <1>3, <1>4

\* Nothing has been sampled yet.
LEMMA StatsInitInv == StatsInit => StatsInv
<1> SUFFICES ASSUME StatsInit PROVE StatsInv
  OBVIOUS
<1>1. << >> \in Seq(Usages) /\ << >> \in Seq(Usages \cup {0}) /\ Len(<< >>) <= MaxSamples
  BY StatsAssumption
<1>2. memory \in Rings /\ cpu \in Rings /\ RingHolds(memory, memTaken) /\ RingHolds(cpu, cpuTaken)
  BY EmptyRing DEF StatsInit
<1> QED
  BY <1>1, <1>2 DEF StatsInit, StatsInv, StatsTypeOK

\* Every sample goes through Add; the limits are read apart.
LEMMA StatsStepInv == StatsInv /\ [StatsNext]_statsVars => StatsInv'
<1> SUFFICES ASSUME StatsInv, [StatsNext]_statsVars PROVE StatsInv'
  OBVIOUS
<1>1. CASE ReadCgroupLimits
  BY <1>1 DEF ReadCgroupLimits, MemoryLimits, CpuLimits, StatsInv, StatsTypeOK
<1>2. ASSUME NEW u \in Usages, SampleMemory(u) PROVE StatsInv'
  <2>1. memory' \in Rings /\ RingHolds(memory', memTaken')
    <3>1. memTaken \in Seq(Usages \cup {0}) /\ u \in Usages \cup {0}
      BY DEF StatsInv, StatsTypeOK
    <3> QED
      BY <1>2, <3>1, AddHolds DEF SampleMemory, StatsInv, StatsTypeOK
  <2>2. memTaken' \in Seq(Usages) /\ Len(memTaken') <= MaxSamples
    BY <1>2, StatsAssumption DEF SampleMemory, StatsInv, StatsTypeOK
  <2> QED
    BY <1>2, <2>1, <2>2 DEF SampleMemory, StatsInv, StatsTypeOK
<1>3. ASSUME NEW u \in Usages, SampleCpu(u) PROVE StatsInv'
  <2> DEFINE used == IF cpuTaken = << >> THEN 0 ELSE u
  <2>1. used \in Usages \cup {0} /\ cpu' = Add(cpu, used) /\ cpuTaken' = Append(cpuTaken, used)
    BY <1>3 DEF SampleCpu
  <2>2. cpu' \in Rings /\ RingHolds(cpu', cpuTaken')
    <3> HIDE DEF used
    <3> QED
      BY <2>1, AddHolds DEF StatsInv, StatsTypeOK
  <2>3. cpuTaken' \in Seq(Usages \cup {0}) /\ Len(cpuTaken') <= MaxSamples
    <3> HIDE DEF used
    <3> QED
      BY <1>3, <2>1, StatsAssumption DEF SampleCpu, StatsInv, StatsTypeOK
  <2> QED
    BY <1>3, <2>2, <2>3 DEF SampleCpu, StatsInv, StatsTypeOK
<1>4. CASE UNCHANGED statsVars
  BY <1>4 DEF statsVars, StatsInv, StatsTypeOK
<1> QED
  BY <1>1, <1>2, <1>3, <1>4 DEF StatsNext

\* What a whole window says of one ring.
LEMMA WindowDecides ==
    ASSUME NEW r \in Rings, NEW q \in Seq(Usages \cup {0}), RingHolds(r, q),
           NEW limit \in Nat, limit > 0
    PROVE  /\ Quiet(limit, q) => ~Scarce(limit, GetData(r))
           /\ Busy(limit, q) => Scarce(limit, GetData(r))
<1> DEFINE d == GetData(r)
<1>1. ASSUME Len(q) >= Window
      PROVE  /\ d \in Seq(Nat) /\ Len(d) = Window
             /\ \A i \in 1..Window : \E k \in 1..Window : d[i] = Recent(q)[k]
  BY <1>1, DataIsRecent
<1> HIDE DEF d
<1>2. ASSUME Quiet(limit, q) PROVE ~Scarce(limit, d)
  <2>1. \A i \in 1..Len(d) : 10 * d[i] <= 9 * limit
    BY <1>1, <1>2 DEF Quiet
  <2>2. 10 * Total(d) <= 9 * limit * Len(d)
    BY <1>1, <1>2, <2>1, TotalAtMost DEF Quiet
  <2>3. Total(d) \in Nat
    BY <1>1, <1>2, TotalAdds DEF Quiet
  <2> QED
    BY <1>1, <1>2, <2>2, <2>3 DEF Scarce, Quiet
<1>3. ASSUME Busy(limit, q) PROVE Scarce(limit, d)
  <2>1. d # << >>
    BY <1>1, <1>3, StatsAssumption DEF Busy
  <2>2. \A i \in 1..Len(d) : 10 * d[i] > 9 * limit
    BY <1>1, <1>3 DEF Busy
  <2>3. 10 * Total(d) > 9 * limit * Len(d)
    BY <1>1, <1>3, <2>1, <2>2, TotalAbove DEF Busy
  <2> QED
    BY <2>1, <2>3 DEF Scarce, Known
<1> QED
  BY <1>2, <1>3 DEF d

\* IsUnhealthyUsage, which memoryAvailability and cpuAvailability answer from the
\* data of two SafeBuffers, says what the last Window samples say: once Add has
\* gone around the ring, usage above nine tenths of a limit throughout is
\* unhealthy and usage at or below it throughout is not.
THEOREM StatusFollowsSamples ==
    StatsInit /\ [][StatsNext]_statsVars => []StatusFollowsWindow
<1>1. StatsInv => StatusFollowsWindow
  <2> SUFFICES ASSUME StatsInv PROVE StatusFollowsWindow
    OBVIOUS
  <2>1. /\ maxMemory \in Int /\ cpuLimit \in Int
        /\ memory \in Rings /\ cpu \in Rings
        /\ memTaken \in Seq(Usages \cup {0}) /\ cpuTaken \in Seq(Usages \cup {0})
        /\ RingHolds(memory, memTaken) /\ RingHolds(cpu, cpuTaken)
    BY StatsAssumption DEF StatsInv, StatsTypeOK
  <2>2. maxMemory > 0 => /\ Quiet(maxMemory, memTaken) => ~Scarce(maxMemory, GetData(memory))
                         /\ Busy(maxMemory, memTaken) => Scarce(maxMemory, GetData(memory))
    BY <2>1, WindowDecides
  <2>3. cpuLimit > 0 => /\ Quiet(cpuLimit, cpuTaken) => ~Scarce(cpuLimit, GetData(cpu))
                        /\ Busy(cpuLimit, cpuTaken) => Scarce(cpuLimit, GetData(cpu))
    BY <2>1, WindowDecides
  <2>4. /\ ~(maxMemory > 0) => ~Scarce(maxMemory, GetData(memory))
        /\ ~(cpuLimit > 0) => ~Scarce(cpuLimit, GetData(cpu))
    BY DEF Scarce, Known
  <2> QED
    BY <2>2, <2>3, <2>4 DEF StatusFollowsWindow, IsUnhealthyUsage
<1> QED
  BY <1>1, StatsInitInv, StatsStepInv, PTL
=============================================================================
