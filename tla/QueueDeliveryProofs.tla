------------------------- MODULE QueueDeliveryProofs -------------------------
(***************************************************************************)
(* Proofs about the delivery and settlement of queue messages              *)
(* (QueueDelivery), for any number of messages, copies, deliveries,        *)
(* subscriptions and connections:                                          *)
(*   - a delivery for which the broker waits can be settled, whatever and  *)
(*     however often the client acknowledges;                              *)
(*   - a delivery is settled at most once, if the client acknowledges it   *)
(*     at most once;                                                       *)
(*   - no message is lost, if the delay queue exists and the broker        *)
(*     refuses no declaration.                                             *)
(* What the broker waits for belongs to an open channel of the current     *)
(* connection, so that a broken connection forgives every frame that was   *)
(* not written.  A message that is not disposed of has a safe copy: one    *)
(* that the broker keeps and that nothing on its way will settle.          *)
(***************************************************************************)
EXTENDS QueueDelivery, FiniteSetTheorems, TLAPS

\* The client acknowledges a delivery at most once.
OneRequest == \A q, r \in Requests : q = r

\* The delay queue is there, and no channel or declaration is refused.
Reliable == DelayQueueExists /\ ~DeclareMayFail

SubRecords == [epoch : 1..MaxEpochs, open : BOOLEAN, running : BOOLEAN]
SentRecords == [copy : Copies, sub : Nat, header : Nat]
JobRecords == [kind : {"ack", "nack", "retry"}, pc : JobPoints,
               conn : 0..MaxEpochs, rch : 0..MaxEpochs]
Frames == Tags \X {"ack", "reject", "requeue"} \X (Requests \cup {None})

\* Tags are those of deliveries, and what the broker waits for came over a channel
\* that is open on a connection that is up.
Outstanding ==
    /\ Len(sent) <= MaxDeliveries
    /\ inbox \subseteq 1..Len(sent) /\ buffer \subseteq 1..Len(sent)
    /\ inbox \cap buffer = {}
    /\ \A t \in unacked : t \in 1..Len(sent) /\ SubOf(t).open
    /\ \A f \in wire : f[1] \in 1..Len(sent)
    /\ \A t \in 1..Len(sent) : sent[t].sub \in 1..Len(subs)
    /\ \A s \in 1..Len(subs) : subs[s].open => conn = "up"
    /\ conn # "up" => epoch < MaxEpochs
    /\ \A j \in Jobs : job[j].pc # "idle" => j[1] \in inbox

\* An entry is deleted from activeMessages after its delivery was settled.
Settled(t) == t \notin unacked \/ \E f \in wire : f[1] = t
Deleting == \A j \in Jobs : job[j].pc = "delete" => Settled(j[1])

\* No settlement of the delivery was written.
Unsettled(t) == SubOf(t).open => t \in unacked /\ \A f \in wire : f[1] # t
Once ==
    /\ SettledOnce
    /\ \A t \in buffer : Unsettled(t)
    /\ \A j \in Jobs : j[1] \in inbox /\ job[j].pc \notin {"delete", "done"}
          => Unsettled(j[1])

\* A message that is delivered is carried by its copy, and a copy by one delivery.
Carried ==
    /\ \A c \in Copies : place[c] # "unborn" => copyOf[c] \in Messages
    /\ \A t \in 1..Len(sent) : place[sent[t].copy] # "unborn"
    /\ \A t \in unacked : place[sent[t].copy] = "unacked"
    /\ \A t, u \in unacked : sent[t].copy = sent[u].copy => t = u

\* The broker keeps the copy, and nothing on its way will settle it for good.
Safe(c) ==
    \/ place[c] \in {"ready", "delayed"}
    \/ /\ place[c] = "unacked"
       /\ \E t \in unacked :
             /\ sent[t].copy = c
             /\ \A f \in wire : f[1] = t => f[2] = "requeue"
             /\ \A j \in Jobs : j[1] = t => job[j].pc # "ackOriginal"

\* Why Retry does not reject a message that can still be settled: what makes it fail
\* has closed the channel of the delivery.
RetryFailsLate ==
    \A j \in Jobs :
        /\ job[j].pc = "newChannel" /\ SubOf(j[1]).open => job[j].conn = epoch
        /\ job[j].pc = "nackLookup" => j[1] \notin active \/ ~SubOf(j[1]).open
        /\ job[j].pc = "nackCall" => ~SubOf(j[1]).open
        /\ job[j].pc = "call" => job[j].kind # "retry"
        /\ job[j].pc # "idle" /\ job[j].kind # "retry" => MessageOf(j[1]) \in disposed

\* Deliveries over the cap do not reach the client.
BelowCap == \A t \in inbox : ~maxAcquiredCountHit(t)

\* A message that was not disposed of has a safe copy.
SafeCopies ==
    \A m \in Messages : m \in disposed \/ \E c \in Copies : copyOf[c] = m /\ Safe(c)

Kept == "binding" \in declared /\ RetryFailsLate /\ BelowCap /\ SafeCopies

IInv ==
    /\ TypeOK /\ Outstanding /\ Deleting /\ NotStranded /\ Carried
    /\ OneRequest => Once
    /\ Reliable => Kept
-----------------------------------------------------------------------------
(* Facts about sequences.                                                  *)

\* A sequence, one element longer.
LEMMA AppendFacts ==
    ASSUME NEW S, NEW s \in Seq(S), NEW e \in S
    PROVE  /\ Append(s, e) \in Seq(S) /\ Len(Append(s, e)) = Len(s) + 1 /\ Len(s) \in Nat
           /\ \A i \in 1..Len(s) : Append(s, e)[i] = s[i]
           /\ Append(s, e)[Len(s) + 1] = e
OBVIOUS

\* An element of a sequence.
LEMMA ElementOf == ASSUME NEW S, NEW s \in Seq(S), NEW i \in 1..Len(s) PROVE s[i] \in S
OBVIOUS

\* Another element in the place of one.
LEMMA ReplaceFacts ==
    ASSUME NEW S, NEW s \in Seq(S), NEW n \in 1..Len(s), NEW e \in S
    PROVE  /\ [s EXCEPT ![n] = e] \in Seq(S) /\ Len([s EXCEPT ![n] = e]) = Len(s)
           /\ \A i \in 1..Len(s) : [s EXCEPT ![n] = e][i] = IF i = n THEN e ELSE s[i]
OBVIOUS

\* A function on the first numbers is a sequence.
LEMMA FunctionIsSeq ==
    ASSUME NEW S, NEW n \in Nat, NEW g \in [1..n -> S] PROVE g \in Seq(S) /\ Len(g) = n
OBVIOUS

\* There is an empty sequence of every kind.
LEMMA EmptyIsSeq == ASSUME NEW S PROVE <<>> \in Seq(S) /\ Len(<<>>) = 0
OBVIOUS

\* What the type invariant says about deliveries and jobs.
LEMMA Typed ==
    ASSUME TypeOK, Outstanding
    PROVE  /\ sent \in Seq(SentRecords) /\ subs \in Seq(SubRecords)
           /\ Len(sent) \in Nat /\ Len(subs) \in Nat /\ 1..Len(sent) \subseteq Tags
           /\ job \in [Jobs -> JobRecords] /\ wire \subseteq Frames
           /\ \A t \in 1..Len(sent) :
                 /\ sent[t] \in SentRecords /\ sent[t].copy \in Copies
                 /\ sent[t].sub \in 1..Len(subs) /\ SubOf(t) \in SubRecords
           /\ \A j \in Jobs : job[j] \in JobRecords /\ j[1] \in Tags /\ j[2] \in Requests
<1>1. /\ sent \in Seq(SentRecords) /\ subs \in Seq(SubRecords)
      /\ job \in [Jobs -> JobRecords] /\ wire \subseteq Frames
  BY DEF TypeOK, SentRecords, SubRecords, JobRecords, Frames
<1>2. Len(sent) \in Nat /\ Len(subs) \in Nat
  BY <1>1
<1>3. 1..Len(sent) \subseteq Tags
  BY <1>2, DeliveryAssumption DEF Outstanding, Tags
<1>4. ASSUME NEW t \in 1..Len(sent)
      PROVE  /\ sent[t] \in SentRecords /\ sent[t].copy \in Copies
             /\ sent[t].sub \in 1..Len(subs) /\ SubOf(t) \in SubRecords
  <2>1. sent[t] \in SentRecords
    BY <1>1, ElementOf
  <2>2. sent[t].copy \in Copies
    BY <2>1 DEF SentRecords
  <2>3. sent[t].sub \in 1..Len(subs)
    BY DEF Outstanding
  <2>4. SubOf(t) \in SubRecords
    BY <1>1, <2>3, ElementOf DEF SubOf
  <2> QED
    BY <2>1, <2>2, <2>3, <2>4
<1>5. ASSUME NEW j \in Jobs PROVE job[j] \in JobRecords /\ j[1] \in Tags /\ j[2] \in Requests
  BY <1>1 DEF Jobs
<1> QED
  BY <1>1, <1>2, <1>3, <1>4, <1>5

\* The message of a delivery is one of the messages.
LEMMA Carries ==
    ASSUME TypeOK, Outstanding, Carried, NEW t \in 1..Len(sent)
    PROVE  MessageOf(t) \in Messages
BY Typed DEF MessageOf, Carried

\* Two acknowledgements of one delivery are one, if the client acknowledges once.
LEMMA OneJob ==
    ASSUME OneRequest, NEW j \in Jobs, NEW k \in Jobs, j[1] = k[1] PROVE j = k
<1>1. j[2] \in Requests /\ k[2] \in Requests
  BY DEF Jobs
<1>2. j[2] = k[2]
  BY <1>1 DEF OneRequest
<1> QED
  BY <1>2 DEF Jobs
-----------------------------------------------------------------------------
\* Every message is one ready copy, and nothing was delivered.
LEMMA InitInv == Init => IInv
<1> SUFFICES ASSUME Init PROVE IInv
  OBVIOUS
<1> USE DeliveryAssumption
<1>1. 0 \in 0..MaxEpochs /\ 1 \in 1..MaxEpochs
  OBVIOUS
<1>2. NoJob \in JobRecords /\ NoJob.pc = "idle"
  BY <1>1 DEF NoJob, JobRecords, JobPoints
<1>3. job \in [Jobs -> JobRecords] /\ \A j \in Jobs : job[j].pc = "idle"
  BY <1>2 DEF Init
<1>4. /\ sent \in Seq(SentRecords) /\ subs \in Seq(SubRecords)
      /\ Len(sent) = 0 /\ Len(subs) = 0
  BY EmptyIsSeq DEF Init
<1>5. /\ unacked = {} /\ wire = {} /\ buffer = {} /\ active = {} /\ inbox = {}
      /\ conn = "up" /\ epoch = 1 /\ retryCh = 0 /\ known = {} /\ disposed = {}
      /\ copyOf \in [Copies -> Messages \cup {None}]
  BY DEF Init
<1>6. \A c \in Copies : place[c] = IF copyOf[c] = None THEN "unborn" ELSE "ready"
  BY DEF Init
<1>7. declared = IF DelayQueueExists THEN {"queue", "binding"} ELSE {}
  BY DEF Init
<1>8. TypeOK
  <2>1. place \in [Copies -> Places] /\ acquired \in [Copies -> Nat]
    BY DEF Init, Places
  <2>2. declared \subseteq {"queue", "binding"}
    BY <1>7
  <2>3. \A j \in Jobs : job[j].pc \in HaveChannel => job[j].rch # 0
    BY <1>3 DEF HaveChannel
  <2> QED
    BY <1>1, <1>3, <1>4, <1>5, <2>1, <2>2, <2>3 DEF TypeOK, SentRecords, SubRecords, JobRecords
<1>9. Outstanding
  BY <1>3, <1>4, <1>5 DEF Outstanding
<1>10. Deleting /\ NotStranded /\ Once
  BY <1>3, <1>5 DEF Deleting, NotStranded, Once, SettledOnce
<1>11. Carried
  BY <1>4, <1>5, <1>6 DEF Carried
<1>12. Reliable => Kept
  <2> SUFFICES ASSUME Reliable PROVE Kept
    OBVIOUS
  <2>1. "binding" \in declared
    BY <1>7 DEF Reliable
  <2>2. RetryFailsLate /\ BelowCap
    BY <1>3, <1>5 DEF RetryFailsLate, BelowCap
  <2>3. ASSUME NEW m \in Messages PROVE \E c \in Copies : copyOf[c] = m /\ Safe(c)
    <3>1. PICK c \in Copies : copyOf[c] = m
      BY DEF Init
    <3>2. place[c] = "ready"
      BY <3>1, <1>6
    <3> QED
      BY <3>1, <3>2 DEF Safe
  <2> QED
    BY <2>1, <2>2, <2>3 DEF Kept, SafeCopies
<1> QED
  BY <1>8, <1>9, <1>10, <1>11, <1>12 DEF IInv
-----------------------------------------------------------------------------
(* Steps of one acknowledgement.                                           *)

\* A move of one job keeps the type of the jobs.
LEMMA JobsTyped ==
    ASSUME TypeOK, NEW j \in Jobs, NEW STATE q, q \in JobRecords,
           job' = [job EXCEPT ![j] = q], q.pc \in HaveChannel => q.rch # 0
    PROVE  /\ job' \in [Jobs -> JobRecords] /\ job'[j] = q
           /\ \A k \in Jobs : k # j => job'[k] = job[k]
           /\ \A k \in Jobs : job'[k].pc \in HaveChannel => job'[k].rch # 0
<1>1. job \in [Jobs -> JobRecords]
  BY DEF TypeOK, JobRecords
<1>2. job' \in [Jobs -> JobRecords] /\ job'[j] = q /\ \A k \in Jobs : k # j => job'[k] = job[k]
  BY <1>1
<1>3. ASSUME NEW k \in Jobs PROVE job'[k].pc \in HaveChannel => job'[k].rch # 0
  <2>1. CASE k = j
    BY <1>2, <2>1
  <2>2. CASE k # j
    BY <1>2, <2>2 DEF TypeOK
  <2> QED
    BY <2>1, <2>2
<1> QED
  BY <1>2, <1>3

\* A step that settles nothing and publishes nothing.
LEMMA JobMove ==
    ASSUME IInv, NEW j \in Jobs, NEW STATE q, q \in JobRecords,
           job' = [job EXCEPT ![j] = q],
           UNCHANGED <<brokerVars, sent, conn, epoch, subs, buffer, active, inbox, disposed>>,
           retryCh' \in 0..MaxEpochs, known' \subseteq {"queue", "binding"},
           declared' \subseteq {"queue", "binding"}, declared \subseteq declared',
           q.pc \in HaveChannel => q.rch # 0, q.kind = job[j].kind,
           job[j].pc \notin {"idle", "delete", "done"},
           q.pc \notin {"delete", "ackOriginal"},
           Reliable =>
              /\ q.pc = "newChannel" /\ SubOf(j[1]).open => q.conn = epoch
              /\ q.pc = "nackLookup" => j[1] \notin active \/ ~SubOf(j[1]).open
              /\ q.pc = "nackCall" => ~SubOf(j[1]).open
              /\ q.pc = "call" => q.kind # "retry"
    PROVE  IInv'
<1>0. TypeOK /\ Outstanding /\ Deleting /\ NotStranded /\ Carried
  BY DEF IInv
<1>1. /\ copyOf' = copyOf /\ place' = place /\ acquired' = acquired /\ unacked' = unacked
      /\ wire' = wire /\ sent' = sent /\ conn' = conn /\ epoch' = epoch /\ subs' = subs
      /\ buffer' = buffer /\ active' = active /\ inbox' = inbox /\ disposed' = disposed
  BY DEF brokerVars
<1>2. /\ job' \in [Jobs -> JobRecords] /\ job'[j] = q
      /\ \A k \in Jobs : k # j => job'[k] = job[k]
      /\ \A k \in Jobs : job'[k].pc \in HaveChannel => job'[k].rch # 0
  BY <1>0, JobsTyped
<1>3. TypeOK'
  BY <1>0, <1>1, <1>2 DEF TypeOK, JobRecords
<1>4. Outstanding'
  <2>1. \A k \in Jobs : job'[k].pc # "idle" => k[1] \in inbox
    BY <1>0, <1>2 DEF Outstanding
  <2> QED
    BY <1>0, <1>1, <2>1 DEF Outstanding, SubOf
<1>5. Deleting'
  <2>1. \A k \in Jobs : job'[k].pc = "delete" => job[k].pc = "delete"
    BY <1>2
  <2> QED
    BY <1>0, <1>1, <2>1 DEF Deleting, Settled
<1>6. NotStranded' /\ Carried'
  BY <1>0, <1>1 DEF NotStranded, Carried
<1>7. ASSUME OneRequest PROVE Once'
  <2>1. Once
    BY <1>7 DEF IInv
  <2>2. SettledOnce' /\ \A t \in buffer' : Unsettled(t)'
    BY <1>1, <2>1 DEF Once, SettledOnce, Unsettled, SubOf
  <2>3. \A k \in Jobs : job'[k].pc \notin {"delete", "done"} => job[k].pc \notin {"delete", "done"}
    BY <1>2
  <2>4. ASSUME NEW k \in Jobs, k[1] \in inbox', job'[k].pc \notin {"delete", "done"}
        PROVE  Unsettled(k[1])'
    <3>1. Unsettled(k[1])
      BY <1>1, <2>1, <2>3, <2>4 DEF Once
    <3> QED
      BY <1>1, <3>1 DEF Unsettled, SubOf
  <2> QED
    BY <2>2, <2>4 DEF Once
<1>8. ASSUME Reliable PROVE Kept'
  <2>1. Kept
    BY <1>8 DEF IInv
  <2>2. "binding" \in declared' /\ BelowCap'
    BY <1>1, <2>1 DEF Kept, BelowCap, maxAcquiredCountHit
  <2>3. RetryFailsLate'
    <3>1. ASSUME NEW k \in Jobs
          PROVE  /\ job'[k].pc = "newChannel" /\ SubOf(k[1]).open => job'[k].conn = epoch
                 /\ job'[k].pc = "nackLookup" => k[1] \notin active \/ ~SubOf(k[1]).open
                 /\ job'[k].pc = "nackCall" => ~SubOf(k[1]).open
                 /\ job'[k].pc = "call" => job'[k].kind # "retry"
                 /\ job'[k].pc # "idle" /\ job'[k].kind # "retry" => MessageOf(k[1]) \in disposed
      <4>1. CASE k = j
        BY <1>2, <1>8, <2>1, <4>1 DEF Kept, RetryFailsLate
      <4>2. CASE k # j
        BY <1>2, <2>1, <4>2 DEF Kept, RetryFailsLate
      <4> QED
        BY <4>1, <4>2
    <3> QED
      BY <1>1, <3>1 DEF RetryFailsLate, SubOf, MessageOf
  <2>4. \A k \in Jobs : job'[k].pc = "ackOriginal" => job[k].pc = "ackOriginal"
    BY <1>2
  <2>5. \A c \in Copies : Safe(c) => Safe(c)'
    BY <1>1, <2>4 DEF Safe
  <2>6. SafeCopies'
    BY <1>1, <2>1, <2>5 DEF Kept, SafeCopies
  <2> QED
    BY <2>2, <2>3, <2>6 DEF Kept
<1>9. (OneRequest => Once)' /\ (Reliable => Kept)'
  BY <1>7, <1>8 DEF OneRequest, Reliable
<1> QED
  BY <1>3, <1>4, <1>5, <1>6, <1>9 DEF IInv

\* Deleting an entry strands nothing: its delivery was settled before.
LEMMA DeleteMove == ASSUME IInv, NEW j \in Jobs, DeleteActive(j) PROVE IInv'
<1>0. TypeOK /\ Outstanding /\ Deleting /\ NotStranded /\ Carried
  BY DEF IInv
<1> DEFINE q == [job[j] EXCEPT !.pc = "done"]
<1>1. /\ copyOf' = copyOf /\ place' = place /\ acquired' = acquired /\ unacked' = unacked
      /\ wire' = wire /\ sent' = sent /\ conn' = conn /\ epoch' = epoch /\ subs' = subs
      /\ buffer' = buffer /\ active' = active \ {j[1]} /\ inbox' = inbox
      /\ retryCh' = retryCh /\ known' = known /\ declared' = declared /\ disposed' = disposed
      /\ job[j].pc = "delete" /\ job' = [job EXCEPT ![j] = q]
  BY DEF DeleteActive, jobsOnly, brokerVars, connVars, JobGoto
<1>2. q \in JobRecords /\ q.pc = "done" /\ q.kind = job[j].kind
  BY <1>0, Typed DEF JobRecords, JobPoints
<1> HIDE DEF q
<1>3. /\ job' \in [Jobs -> JobRecords] /\ job'[j] = q
      /\ \A k \in Jobs : k # j => job'[k] = job[k]
      /\ \A k \in Jobs : job'[k].pc \in HaveChannel => job'[k].rch # 0
  <2>1. q.pc \in HaveChannel => q.rch # 0
    BY <1>2 DEF HaveChannel
  <2> QED
    BY <1>0, <1>1, <1>2, <2>1, JobsTyped
<1>4. TypeOK'
  BY <1>0, <1>1, <1>3 DEF TypeOK, JobRecords
<1>5. Outstanding'
  <2>1. \A k \in Jobs : job'[k].pc # "idle" => k[1] \in inbox
    BY <1>0, <1>1, <1>3 DEF Outstanding
  <2> QED
    BY <1>0, <1>1, <2>1 DEF Outstanding, SubOf
<1>6. Deleting'
  <2>1. \A k \in Jobs : job'[k].pc = "delete" => job[k].pc = "delete"
    BY <1>2, <1>3
  <2> QED
    BY <1>0, <1>1, <2>1 DEF Deleting, Settled
<1>7. NotStranded' /\ Carried'
  <2>1. Settled(j[1])
    BY <1>0, <1>1 DEF Deleting
  <2> QED
    BY <1>0, <1>1, <2>1 DEF NotStranded, Carried, Settled
<1>8. ASSUME OneRequest PROVE Once'
  <2>1. Once
    BY <1>8 DEF IInv
  <2>2. SettledOnce' /\ \A t \in buffer' : Unsettled(t)'
    BY <1>1, <2>1 DEF Once, SettledOnce, Unsettled, SubOf
  <2>3. \A k \in Jobs : job'[k].pc \notin {"delete", "done"} => job[k].pc \notin {"delete", "done"}
    BY <1>2, <1>3
  <2>4. ASSUME NEW k \in Jobs, k[1] \in inbox', job'[k].pc \notin {"delete", "done"}
        PROVE  Unsettled(k[1])'
    <3>1. Unsettled(k[1])
      BY <1>1, <2>1, <2>3, <2>4 DEF Once
    <3> QED
      BY <1>1, <3>1 DEF Unsettled, SubOf
  <2> QED
    BY <2>2, <2>4 DEF Once
<1>9. ASSUME Reliable PROVE Kept'
  <2>1. Kept
    BY <1>9 DEF IInv
  <2>2. "binding" \in declared' /\ BelowCap'
    BY <1>1, <2>1 DEF Kept, BelowCap, maxAcquiredCountHit
  <2>3. RetryFailsLate'
    <3>1. ASSUME NEW k \in Jobs
          PROVE  /\ job'[k].pc = "newChannel" /\ SubOf(k[1]).open => job'[k].conn = epoch
                 /\ job'[k].pc = "nackLookup" => k[1] \notin active' \/ ~SubOf(k[1]).open
                 /\ job'[k].pc = "nackCall" => ~SubOf(k[1]).open
                 /\ job'[k].pc = "call" => job'[k].kind # "retry"
                 /\ job'[k].pc # "idle" /\ job'[k].kind # "retry" => MessageOf(k[1]) \in disposed
      <4>1. CASE k = j
        BY <1>1, <1>2, <1>3, <2>1, <4>1 DEF Kept, RetryFailsLate
      <4>2. CASE k # j
        BY <1>1, <1>3, <2>1, <4>2 DEF Kept, RetryFailsLate
      <4> QED
        BY <4>1, <4>2
    <3> QED
      BY <1>1, <3>1 DEF RetryFailsLate, SubOf, MessageOf
  <2>4. \A k \in Jobs : job'[k].pc = "ackOriginal" => job[k].pc = "ackOriginal"
    BY <1>2, <1>3
  <2>5. \A c \in Copies : Safe(c) => Safe(c)'
    BY <1>1, <2>4 DEF Safe
  <2>6. SafeCopies'
    BY <1>1, <2>1, <2>5 DEF Kept, SafeCopies
  <2> QED
    BY <2>2, <2>3, <2>6 DEF Kept
<1>10. (OneRequest => Once)' /\ (Reliable => Kept)'
  BY <1>8, <1>9 DEF OneRequest, Reliable
<1> QED
  BY <1>4, <1>5, <1>6, <1>7, <1>10 DEF IInv

\* A settlement is written, if the channel is open.  It is the first one for the
\* delivery, and final only for a message that is disposed of or published again.
LEMMA SettleMove ==
    ASSUME IInv, NEW j \in Jobs, NEW how \in {"ack", "reject", "requeue"},
           WriteFrame(j, how), JobGoto(j, "delete"),
           UNCHANGED <<copyOf, place, acquired, unacked, sent, connVars, buffer,
                       active, inbox, declared, disposed>>,
           job[j].pc \notin {"idle", "delete", "done"},
           Reliable /\ SubOf(j[1]).open =>
              how = "requeue" \/ job[j].pc = "ackOriginal" \/ MessageOf(j[1]) \in disposed
    PROVE  IInv'
<1>0. TypeOK /\ Outstanding /\ Deleting /\ NotStranded /\ Carried
  BY DEF IInv
<1> DEFINE q == [job[j] EXCEPT !.pc = "delete"]
           f == <<j[1], how, j[2]>>
<1>1. /\ copyOf' = copyOf /\ place' = place /\ acquired' = acquired /\ unacked' = unacked
      /\ sent' = sent /\ conn' = conn /\ epoch' = epoch /\ subs' = subs
      /\ buffer' = buffer /\ active' = active /\ inbox' = inbox
      /\ retryCh' = retryCh /\ known' = known /\ declared' = declared /\ disposed' = disposed
      /\ job' = [job EXCEPT ![j] = q]
      /\ wire' = IF SubOf(j[1]).open THEN wire \cup {f} ELSE wire
  BY DEF WriteFrame, JobGoto, connVars
<1>2. q \in JobRecords /\ q.pc = "delete" /\ q.kind = job[j].kind
  BY <1>0, Typed DEF JobRecords, JobPoints
<1>3. f[1] = j[1] /\ f[2] = how /\ f \in Frames
  <2>1. j[1] \in Tags /\ j[2] \in Requests
    BY <1>0, Typed
  <2> QED
    BY <2>1 DEF Frames
<1> HIDE DEF q, f
<1>4. /\ job' \in [Jobs -> JobRecords] /\ job'[j] = q
      /\ \A k \in Jobs : k # j => job'[k] = job[k]
      /\ \A k \in Jobs : job'[k].pc \in HaveChannel => job'[k].rch # 0
  <2>1. q.pc \in HaveChannel => q.rch # 0
    BY <1>2 DEF HaveChannel
  <2> QED
    BY <1>0, <1>1, <1>2, <2>1, JobsTyped
<1>5. j[1] \in inbox /\ j[1] \in 1..Len(sent)
  BY <1>0 DEF Outstanding
<1>6. /\ wire \subseteq wire' /\ wire' \subseteq wire \cup {f}
      /\ SubOf(j[1]).open => f \in wire'
      /\ ~SubOf(j[1]).open => wire' = wire
  BY <1>1
<1>7. TypeOK'
  <2>1. wire' \subseteq Frames
    BY <1>0, <1>3, <1>6, Typed
  <2> QED
    BY <1>0, <1>1, <1>4, <2>1 DEF TypeOK, JobRecords, Frames
<1>8. Outstanding'
  <2>1. \A k \in Jobs : job'[k].pc # "idle" => k[1] \in inbox
    BY <1>0, <1>4, <1>5 DEF Outstanding
  <2>2. \A g \in wire' : g[1] \in 1..Len(sent)
    BY <1>0, <1>3, <1>5, <1>6 DEF Outstanding
  <2> QED
    BY <1>0, <1>1, <2>1, <2>2 DEF Outstanding, SubOf
<1>9. Deleting'
  <2>1. j[1] \notin unacked \/ \E g \in wire' : g[1] = j[1]
    BY <1>0, <1>3, <1>6 DEF Outstanding
  <2>2. ASSUME NEW k \in Jobs, job'[k].pc = "delete" PROVE Settled(k[1])'
    <3>1. CASE k = j
      BY <1>1, <2>1, <3>1 DEF Settled
    <3>2. CASE k # j
      BY <1>0, <1>1, <1>4, <1>6, <2>2, <3>2 DEF Deleting, Settled
    <3> QED
      BY <3>1, <3>2
  <2> QED
    BY <2>2 DEF Deleting
<1>10. NotStranded' /\ Carried'
  BY <1>0, <1>1, <1>6 DEF NotStranded, Carried
<1>11. ASSUME OneRequest PROVE Once'
  <2>1. Once
    BY <1>11 DEF IInv
  <2>2. Unsettled(j[1])
    BY <1>5, <2>1 DEF Once
  <2>3. SettledOnce'
    <3>1. CASE SubOf(j[1]).open
      <4>1. j[1] \in unacked /\ \A g \in wire : g[1] # j[1]
        BY <2>2, <3>1 DEF Unsettled
      <4> QED
        BY <1>1, <1>3, <1>6, <2>1, <4>1 DEF Once, SettledOnce
    <3>2. CASE ~SubOf(j[1]).open
      BY <1>1, <1>6, <2>1, <3>2 DEF Once, SettledOnce
    <3> QED
      BY <3>1, <3>2
  <2>4. ASSUME NEW t, t # j[1], Unsettled(t) PROVE Unsettled(t)'
    BY <1>1, <1>3, <1>6, <2>4 DEF Unsettled, SubOf
  <2>5. ASSUME NEW t \in buffer' PROVE Unsettled(t)'
    BY <1>0, <1>1, <1>5, <2>1, <2>4 DEF Once, Outstanding
  <2>6. ASSUME NEW k \in Jobs, k[1] \in inbox', job'[k].pc \notin {"delete", "done"}
        PROVE  Unsettled(k[1])'
    <3>1. k # j
      BY <1>2, <1>4, <2>6
    <3>2. k[1] # j[1]
      BY <1>11, <3>1, OneJob
    <3>3. Unsettled(k[1])
      BY <1>1, <1>4, <2>1, <2>6, <3>1 DEF Once
    <3> QED
      BY <2>4, <3>2, <3>3
  <2> QED
    BY <2>3, <2>5, <2>6 DEF Once
<1>12. ASSUME Reliable PROVE Kept'
  <2>1. Kept
    BY <1>12 DEF IInv
  <2>2. "binding" \in declared' /\ BelowCap'
    BY <1>1, <2>1 DEF Kept, BelowCap, maxAcquiredCountHit
  <2>3. RetryFailsLate'
    <3>1. ASSUME NEW k \in Jobs
          PROVE  /\ job'[k].pc = "newChannel" /\ SubOf(k[1]).open => job'[k].conn = epoch
                 /\ job'[k].pc = "nackLookup" => k[1] \notin active \/ ~SubOf(k[1]).open
                 /\ job'[k].pc = "nackCall" => ~SubOf(k[1]).open
                 /\ job'[k].pc = "call" => job'[k].kind # "retry"
                 /\ job'[k].pc # "idle" /\ job'[k].kind # "retry" => MessageOf(k[1]) \in disposed
      <4>1. CASE k = j
        BY <1>2, <1>4, <2>1, <4>1 DEF Kept, RetryFailsLate
      <4>2. CASE k # j
        BY <1>4, <2>1, <4>2 DEF Kept, RetryFailsLate
      <4> QED
        BY <4>1, <4>2
    <3> QED
      BY <1>1, <3>1 DEF RetryFailsLate, SubOf, MessageOf
  <2>4. \A k \in Jobs : job'[k].pc = "ackOriginal" => job[k].pc = "ackOriginal"
    BY <1>2, <1>4
  <2>5. ASSUME NEW c \in Copies, Safe(c), copyOf[c] \notin disposed PROVE Safe(c)'
    <3>1. CASE place[c] \in {"ready", "delayed"}
      BY <1>1, <3>1 DEF Safe
    <3>2. CASE place[c] \notin {"ready", "delayed"}
      <4>1. PICK t \in unacked :
               /\ place[c] = "unacked" /\ sent[t].copy = c
               /\ \A g \in wire : g[1] = t => g[2] = "requeue"
               /\ \A k \in Jobs : k[1] = t => job[k].pc # "ackOriginal"
        BY <2>5, <3>2 DEF Safe
      <4>2. ASSUME NEW g \in wire', g[1] = t PROVE g[2] = "requeue"
        <5>1. CASE g \in wire
          BY <4>1, <4>2, <5>1
        <5>2. CASE g \notin wire
          <6>1. g = f /\ SubOf(j[1]).open /\ t = j[1]
            BY <1>3, <1>6, <4>2, <5>2
          <6>2. MessageOf(j[1]) \notin disposed
            BY <2>5, <4>1, <6>1 DEF MessageOf
          <6>3. job[j].pc # "ackOriginal"
            BY <4>1, <6>1
          <6> QED
            BY <1>3, <1>12, <6>1, <6>2, <6>3
        <5> QED
          BY <5>1, <5>2
      <4> QED
        BY <1>1, <2>4, <4>1, <4>2 DEF Safe
    <3> QED
      BY <3>1, <3>2
  <2>6. SafeCopies'
    <3> SUFFICES ASSUME NEW m \in Messages, m \notin disposed
                 PROVE  \E c \in Copies : copyOf'[c] = m /\ Safe(c)'
      BY <1>1 DEF SafeCopies
    <3>1. PICK c \in Copies : copyOf[c] = m /\ Safe(c)
      BY <2>1 DEF Kept, SafeCopies
    <3> QED
      BY <1>1, <2>5, <3>1
  <2> QED
    BY <2>2, <2>3, <2>6 DEF Kept
<1>13. (OneRequest => Once)' /\ (Reliable => Kept)'
  BY <1>11, <1>12 DEF OneRequest, Reliable
<1> QED
  BY <1>7, <1>8, <1>9, <1>10, <1>13 DEF IInv

\* The confirmation of a retry.  Its copy is safe, so that the original need not be.
LEMMA ConfirmMove == ASSUME IInv, NEW j \in Jobs, RetryConfirm(j) PROVE IInv'
<1>0. TypeOK /\ Outstanding /\ Deleting /\ NotStranded /\ Carried
  BY DEF IInv
<1>1. PICK point \in {"ackOriginal", "requeue"} :
         /\ JobGoto(j, point)
         /\ TakeRetried(MessageOf(j[1])) \/ (point = "requeue" /\ UNCHANGED <<place, copyOf>>)
  BY DEF RetryConfirm
<1> DEFINE q == [job[j] EXCEPT !.pc = point]
<1>2. /\ acquired' = acquired /\ unacked' = unacked
      /\ wire' = wire /\ sent' = sent /\ conn' = conn /\ epoch' = epoch /\ subs' = subs
      /\ buffer' = buffer /\ active' = active /\ inbox' = inbox
      /\ retryCh' = retryCh /\ known' = known /\ declared' = declared /\ disposed' = disposed
      /\ job[j].pc = "confirm" /\ job' = [job EXCEPT ![j] = q]
  BY <1>1 DEF RetryConfirm, connVars, JobGoto
<1>3. q \in JobRecords /\ q.pc = point /\ q.kind = job[j].kind /\ q.rch = job[j].rch
  BY <1>0, Typed DEF JobRecords, JobPoints
<1> HIDE DEF q
<1>4. /\ job' \in [Jobs -> JobRecords] /\ job'[j] = q
      /\ \A k \in Jobs : k # j => job'[k] = job[k]
      /\ \A k \in Jobs : job'[k].pc \in HaveChannel => job'[k].rch # 0
  <2>1. job[j].rch # 0
    BY <1>0, <1>2 DEF TypeOK, HaveChannel
  <2> QED
    BY <1>0, <1>2, <1>3, <2>1, JobsTyped
<1>5. j[1] \in 1..Len(sent) /\ MessageOf(j[1]) \in Messages
  <2>1. j[1] \in 1..Len(sent)
    BY <1>0, <1>2 DEF Outstanding
  <2> QED
    BY <1>0, <2>1, Carries
<1>6. \/ place' = place /\ copyOf' = copyOf
      \/ \E c \in Copies : /\ place[c] = "unborn"
                           /\ place' = [place EXCEPT ![c] = "delayed"]
                           /\ copyOf' = [copyOf EXCEPT ![c] = MessageOf(j[1])]
  BY <1>1 DEF TakeRetried
<1>7. place \in [Copies -> Places] /\ copyOf \in [Copies -> Messages \cup {None}]
  BY <1>0 DEF TypeOK
<1>8. /\ place' \in [Copies -> Places] /\ copyOf' \in [Copies -> Messages \cup {None}]
      /\ \A c \in Copies : place[c] # "unborn" => place'[c] = place[c] /\ copyOf'[c] = copyOf[c]
      /\ \A c \in Copies : place'[c] # "unborn" => copyOf'[c] \in Messages
  <2>1. CASE place' = place /\ copyOf' = copyOf
    BY <1>0, <1>7, <2>1 DEF Carried
  <2>2. CASE ~(place' = place /\ copyOf' = copyOf)
    <3>1. PICK c \in Copies : /\ place[c] = "unborn"
                              /\ place' = [place EXCEPT ![c] = "delayed"]
                              /\ copyOf' = [copyOf EXCEPT ![c] = MessageOf(j[1])]
      BY <1>6, <2>2
    <3> QED
      BY <1>0, <1>5, <1>7, <3>1 DEF Carried, Places
  <2> QED
    BY <2>1, <2>2
<1>9. \A t \in 1..Len(sent) : /\ sent[t].copy \in Copies
                              /\ place'[sent[t].copy] = place[sent[t].copy]
                              /\ copyOf'[sent[t].copy] = copyOf[sent[t].copy]
                              /\ place[sent[t].copy] # "unborn"
  BY <1>0, <1>8, Typed DEF Carried
<1>10. TypeOK'
  BY <1>0, <1>2, <1>4, <1>8 DEF TypeOK, JobRecords
<1>11. Outstanding'
  <2>1. \A k \in Jobs : job'[k].pc # "idle" => k[1] \in inbox
    BY <1>0, <1>2, <1>4 DEF Outstanding
  <2> QED
    BY <1>0, <1>2, <2>1 DEF Outstanding, SubOf
<1>12. Deleting'
  <2>1. \A k \in Jobs : job'[k].pc = "delete" => job[k].pc = "delete"
    BY <1>3, <1>4
  <2> QED
    BY <1>0, <1>2, <2>1 DEF Deleting, Settled
<1>13. NotStranded'
  BY <1>0, <1>2 DEF NotStranded
<1>14. Carried'
  <2>1. unacked \subseteq 1..Len(sent)
    BY <1>0 DEF Outstanding
  <2> QED
    BY <1>0, <1>2, <1>8, <1>9, <2>1 DEF Carried
<1>15. ASSUME OneRequest PROVE Once'
  <2>1. Once
    BY <1>15 DEF IInv
  <2>2. SettledOnce' /\ \A t \in buffer' : Unsettled(t)'
    BY <1>2, <2>1 DEF Once, SettledOnce, Unsettled, SubOf
  <2>3. \A k \in Jobs : job'[k].pc \notin {"delete", "done"} => job[k].pc \notin {"delete", "done"}
    BY <1>2, <1>4
  <2>4. ASSUME NEW k \in Jobs, k[1] \in inbox', job'[k].pc \notin {"delete", "done"}
        PROVE  Unsettled(k[1])'
    <3>1. Unsettled(k[1])
      BY <1>2, <2>1, <2>3, <2>4 DEF Once
    <3> QED
      BY <1>2, <3>1 DEF Unsettled, SubOf
  <2> QED
    BY <2>2, <2>4 DEF Once
<1>16. ASSUME Reliable PROVE Kept'
  <2>1. Kept
    BY <1>16 DEF IInv
  <2>2. "binding" \in declared' /\ BelowCap'
    BY <1>2, <2>1 DEF Kept, BelowCap, maxAcquiredCountHit
  <2>3. RetryFailsLate'
    <3>1. ASSUME NEW k \in Jobs
          PROVE  /\ job'[k].pc = "newChannel" /\ SubOf(k[1]).open => job'[k].conn = epoch
                 /\ job'[k].pc = "nackLookup" => k[1] \notin active \/ ~SubOf(k[1]).open
                 /\ job'[k].pc = "nackCall" => ~SubOf(k[1]).open
                 /\ job'[k].pc = "call" => job'[k].kind # "retry"
                 /\ job'[k].pc # "idle" /\ job'[k].kind # "retry" => MessageOf(k[1]) \in disposed
      <4>1. CASE k = j
        BY <1>2, <1>3, <1>4, <2>1, <4>1 DEF Kept, RetryFailsLate
      <4>2. CASE k # j
        BY <1>4, <2>1, <4>2 DEF Kept, RetryFailsLate
      <4> QED
        BY <4>1, <4>2
    <3>2. ASSUME NEW k \in Jobs, job'[k].pc # "idle" PROVE MessageOf(k[1])' = MessageOf(k[1])
      <4>1. k[1] \in 1..Len(sent)
        BY <1>2, <1>11, <3>2 DEF Outstanding
      <4> QED
        BY <1>2, <1>9, <4>1 DEF MessageOf
    <3> QED
      BY <1>2, <3>1, <3>2 DEF RetryFailsLate, SubOf
  <2>4. SafeCopies'
    <3> SUFFICES ASSUME NEW m \in Messages, m \notin disposed
                 PROVE  \E c \in Copies : copyOf'[c] = m /\ Safe(c)'
      BY <1>2 DEF SafeCopies
    <3>1. PICK c \in Copies : copyOf[c] = m /\ Safe(c)
      BY <2>1 DEF Kept, SafeCopies
    <3>2. place'[c] = place[c] /\ copyOf'[c] = m
      BY <1>8, <3>1 DEF Safe
    <3>3. CASE point = "ackOriginal" /\ m = MessageOf(j[1])
      <4>1. PICK d \in Copies : /\ place' = [place EXCEPT ![d] = "delayed"]
                                /\ copyOf' = [copyOf EXCEPT ![d] = MessageOf(j[1])]
        BY <1>1, <2>1, <3>3 DEF TakeRetried, Kept
      <4>2. place'[d] = "delayed" /\ copyOf'[d] = m
        BY <1>7, <3>3, <4>1
      <4> QED
        BY <4>2 DEF Safe
    <3>4. CASE ~(point = "ackOriginal" /\ m = MessageOf(j[1]))
      <4>1. CASE place[c] \in {"ready", "delayed"}
        BY <3>2, <4>1 DEF Safe
      <4>2. CASE place[c] \notin {"ready", "delayed"}
        <5>1. PICK t \in unacked :
                 /\ place[c] = "unacked" /\ sent[t].copy = c
                 /\ \A g \in wire : g[1] = t => g[2] = "requeue"
                 /\ \A k \in Jobs : k[1] = t => job[k].pc # "ackOriginal"
          BY <3>1, <4>2 DEF Safe
        <5>2. ASSUME NEW k \in Jobs, k[1] = t PROVE job'[k].pc # "ackOriginal"
          <6>1. CASE k # j
            BY <1>4, <5>1, <5>2, <6>1
          <6>2. CASE k = j
            <7>1. MessageOf(j[1]) = m
              BY <3>1, <5>1, <5>2, <6>2 DEF MessageOf
            <7> QED
              BY <1>3, <1>4, <3>4, <6>2, <7>1
          <6> QED
            BY <6>1, <6>2
        <5> QED
          BY <1>2, <3>2, <5>1, <5>2 DEF Safe
      <4> QED
        BY <4>1, <4>2
    <3> QED
      BY <3>3, <3>4
  <2> QED
    BY <2>2, <2>3, <2>4 DEF Kept
<1>17. (OneRequest => Once)' /\ (Reliable => Kept)'
  BY <1>15, <1>16 DEF OneRequest, Reliable
<1> QED
  BY <1>10, <1>11, <1>12, <1>13, <1>14, <1>17 DEF IInv

\* The client acknowledges a delivery for the first time with this request.
LEMMA AcknowledgeMove ==
    ASSUME IInv, NEW j \in Jobs, NEW kind \in Kinds, Acknowledge(j, kind) PROVE IInv'
<1>0. TypeOK /\ Outstanding /\ Deleting /\ NotStranded /\ Carried
  BY DEF IInv
<1> DEFINE q == [NoJob EXCEPT !.kind = kind, !.pc = "lookup"]
<1>1. /\ copyOf' = copyOf /\ place' = place /\ acquired' = acquired /\ unacked' = unacked
      /\ wire' = wire /\ sent' = sent /\ conn' = conn /\ epoch' = epoch /\ subs' = subs
      /\ buffer' = buffer /\ active' = active /\ inbox' = inbox
      /\ retryCh' = retryCh /\ known' = known /\ declared' = declared
      /\ job[j].pc = "idle" /\ job' = [job EXCEPT ![j] = q] /\ j[1] \in inbox
      /\ disposed' = IF kind = "retry" THEN disposed ELSE disposed \cup {MessageOf(j[1])}
  BY DEF Acknowledge, brokerVars, connVars
<1>2. q \in JobRecords /\ q.pc = "lookup" /\ q.kind = kind
  <2>1. 0 \in 0..MaxEpochs /\ kind \in {"ack", "nack", "retry"}
    BY DeliveryAssumption
  <2> QED
    BY <2>1 DEF NoJob, JobRecords, JobPoints
<1> HIDE DEF q
<1>3. /\ job' \in [Jobs -> JobRecords] /\ job'[j] = q
      /\ \A k \in Jobs : k # j => job'[k] = job[k]
      /\ \A k \in Jobs : job'[k].pc \in HaveChannel => job'[k].rch # 0
  <2>1. q.pc \in HaveChannel => q.rch # 0
    BY <1>2 DEF HaveChannel
  <2> QED
    BY <1>0, <1>1, <1>2, <2>1, JobsTyped
<1>4. MessageOf(j[1]) \in Messages
  <2>1. j[1] \in 1..Len(sent)
    BY <1>0, <1>1 DEF Outstanding
  <2> QED
    BY <1>0, <2>1, Carries
<1>5. TypeOK'
  <2>1. disposed' \subseteq Messages
    BY <1>0, <1>1, <1>4 DEF TypeOK
  <2> QED
    BY <1>0, <1>1, <1>3, <2>1 DEF TypeOK, JobRecords
<1>6. Outstanding'
  <2>1. \A k \in Jobs : job'[k].pc # "idle" => k[1] \in inbox
    BY <1>0, <1>1, <1>3 DEF Outstanding
  <2> QED
    BY <1>0, <1>1, <2>1 DEF Outstanding, SubOf
<1>7. Deleting'
  <2>1. \A k \in Jobs : job'[k].pc = "delete" => job[k].pc = "delete"
    BY <1>2, <1>3
  <2> QED
    BY <1>0, <1>1, <2>1 DEF Deleting, Settled
<1>8. NotStranded' /\ Carried'
  BY <1>0, <1>1 DEF NotStranded, Carried
<1>9. ASSUME OneRequest PROVE Once'
  <2>1. Once
    BY <1>9 DEF IInv
  <2>2. SettledOnce' /\ \A t \in buffer' : Unsettled(t)'
    BY <1>1, <2>1 DEF Once, SettledOnce, Unsettled, SubOf
  <2>3. \A k \in Jobs : job'[k].pc \notin {"delete", "done"} => job[k].pc \notin {"delete", "done"}
    BY <1>1, <1>3
  <2>4. ASSUME NEW k \in Jobs, k[1] \in inbox', job'[k].pc \notin {"delete", "done"}
        PROVE  Unsettled(k[1])'
    <3>1. Unsettled(k[1])
      BY <1>1, <2>1, <2>3, <2>4 DEF Once
    <3> QED
      BY <1>1, <3>1 DEF Unsettled, SubOf
  <2> QED
    BY <2>2, <2>4 DEF Once
<1>10. ASSUME Reliable PROVE Kept'
  <2>1. Kept
    BY <1>10 DEF IInv
  <2>2. "binding" \in declared' /\ BelowCap'
    BY <1>1, <2>1 DEF Kept, BelowCap, maxAcquiredCountHit
  <2>3. RetryFailsLate'
    <3>1. ASSUME NEW k \in Jobs
          PROVE  /\ job'[k].pc = "newChannel" /\ SubOf(k[1]).open => job'[k].conn = epoch
                 /\ job'[k].pc = "nackLookup" => k[1] \notin active \/ ~SubOf(k[1]).open
                 /\ job'[k].pc = "nackCall" => ~SubOf(k[1]).open
                 /\ job'[k].pc = "call" => job'[k].kind # "retry"
                 /\ job'[k].pc # "idle" /\ job'[k].kind # "retry" => MessageOf(k[1]) \in disposed'
      <4>1. CASE k = j
        BY <1>1, <1>2, <1>3, <4>1
      <4>2. CASE k # j
        BY <1>1, <1>3, <2>1, <4>2 DEF Kept, RetryFailsLate
      <4> QED
        BY <4>1, <4>2
    <3> QED
      BY <1>1, <3>1 DEF RetryFailsLate, SubOf, MessageOf
  <2>4. \A k \in Jobs : job'[k].pc = "ackOriginal" => job[k].pc = "ackOriginal"
    BY <1>2, <1>3
  <2>5. \A c \in Copies : Safe(c) => Safe(c)'
    BY <1>1, <2>4 DEF Safe
  <2>6. SafeCopies'
    <3>1. disposed \subseteq disposed'
      BY <1>1
    <3> QED
      BY <1>1, <2>1, <2>5, <3>1 DEF Kept, SafeCopies
  <2> QED
    BY <2>2, <2>3, <2>6 DEF Kept
<1>11. (OneRequest => Once)' /\ (Reliable => Kept)'
  BY <1>9, <1>10 DEF OneRequest, Reliable
<1> QED
  BY <1>5, <1>6, <1>7, <1>8, <1>11 DEF IInv

\* The steps of Ack, Nack and DeadLetter, and those that settle.
LEMMA SettlementSteps ==
    ASSUME IInv, NEW j \in Jobs, Lookup(j) \/ NackLookup(j) \/ SettleCall(j) \/ RetrySettle(j)
    PROVE  IInv'
<1>0. TypeOK /\ Outstanding
  BY DEF IInv
<1>1. job[j] \in JobRecords
  BY <1>0, Typed
<1>2. ASSUME Reliable PROVE RetryFailsLate /\ BelowCap
  BY <1>2 DEF IInv, Kept
<1>3. ASSUME Lookup(j) PROVE IInv'
  <2>1. PICK point \in {"nackLookup", "done", "channel", "call"} :
           /\ JobGoto(j, point)
           /\ point = "nackLookup" => j[1] \notin active
           /\ point = "call" => job[j].kind # "retry"
    BY <1>3 DEF Lookup
  <2> DEFINE q == [job[j] EXCEPT !.pc = point]
  <2>2. q \in JobRecords /\ q.pc = point /\ q.kind = job[j].kind
    BY <1>1 DEF JobRecords, JobPoints
  <2>3. job' = [job EXCEPT ![j] = q]
    BY <2>1 DEF JobGoto
  <2> HIDE DEF q
  <2>4. /\ UNCHANGED <<brokerVars, sent, conn, epoch, subs, buffer, active, inbox, disposed>>
        /\ UNCHANGED <<retryCh, known, declared>> /\ job[j].pc = "lookup"
    BY <1>3 DEF Lookup, jobsOnly, connVars
  <2>5. /\ retryCh' \in 0..MaxEpochs /\ known' \subseteq {"queue", "binding"}
        /\ declared' \subseteq {"queue", "binding"} /\ declared \subseteq declared'
    BY <1>0, <2>4 DEF TypeOK
  <2>6. q.pc \in HaveChannel => q.rch # 0
    BY <2>2 DEF HaveChannel
  <2> QED
    BY <2>1, <2>2, <2>3, <2>4, <2>5, <2>6, JobMove
<1>4. ASSUME NackLookup(j) PROVE IInv'
  <2>1. PICK point \in {"nackCall", "done"} :
           JobGoto(j, point) /\ (point = "nackCall" => j[1] \in active)
    BY <1>4 DEF NackLookup
  <2> DEFINE q == [job[j] EXCEPT !.pc = point]
  <2>2. q \in JobRecords /\ q.pc = point /\ q.kind = job[j].kind
    BY <1>1 DEF JobRecords, JobPoints
  <2>3. job' = [job EXCEPT ![j] = q]
    BY <2>1 DEF JobGoto
  <2> HIDE DEF q
  <2>4. /\ UNCHANGED <<brokerVars, sent, conn, epoch, subs, buffer, active, inbox, disposed>>
        /\ UNCHANGED <<retryCh, known, declared>> /\ job[j].pc = "nackLookup"
    BY <1>4 DEF NackLookup, jobsOnly, connVars
  <2>5. /\ retryCh' \in 0..MaxEpochs /\ known' \subseteq {"queue", "binding"}
        /\ declared' \subseteq {"queue", "binding"} /\ declared \subseteq declared'
    BY <1>0, <2>4 DEF TypeOK
  <2>6. q.pc \in HaveChannel => q.rch # 0
    BY <2>2 DEF HaveChannel
  <2>7. ASSUME Reliable PROVE point = "nackCall" => ~SubOf(j[1]).open
    BY <1>2, <2>1, <2>4, <2>7 DEF RetryFailsLate
  <2> QED
    BY <2>2, <2>3, <2>4, <2>5, <2>6, <2>7, JobMove
<1>5. ASSUME SettleCall(j) PROVE IInv'
  <2>1. PICK how \in {"ack", "reject", "requeue"} : WriteFrame(j, how)
    BY <1>5 DEF SettleCall
  <2>2. /\ job[j].pc \in {"call", "nackCall"} /\ JobGoto(j, "delete")
        /\ UNCHANGED <<copyOf, place, acquired, unacked, sent, connVars, buffer,
                       active, inbox, declared, disposed>>
    BY <1>5 DEF SettleCall
  <2>3. ASSUME Reliable PROVE SubOf(j[1]).open => MessageOf(j[1]) \in disposed
    <3>1. CASE job[j].pc = "call"
      BY <1>2, <2>3, <3>1 DEF RetryFailsLate
    <3>2. CASE job[j].pc = "nackCall"
      BY <1>2, <2>3, <3>2 DEF RetryFailsLate
    <3> QED
      BY <2>2, <3>1, <3>2
  <2> QED
    BY <2>1, <2>2, <2>3, SettleMove
<1>6. ASSUME RetrySettle(j) PROVE IInv'
  <2>1. PICK how \in {"ack", "reject", "requeue"} :
           /\ WriteFrame(j, how)
           /\ how = "requeue" \/ job[j].pc = "ackOriginal" \/ maxAcquiredCountHit(j[1])
    BY <1>6 DEF RetrySettle
  <2>2. /\ job[j].pc \in {"ackOriginal", "requeue"} /\ JobGoto(j, "delete")
        /\ UNCHANGED <<copyOf, place, acquired, unacked, sent, connVars, buffer,
                       active, inbox, declared, disposed>>
    BY <1>6 DEF RetrySettle
  <2>3. j[1] \in inbox
    BY <1>0, <2>2 DEF Outstanding
  <2>4. ASSUME Reliable PROVE ~maxAcquiredCountHit(j[1])
    BY <1>2, <2>3, <2>4 DEF BelowCap
  <2> QED
    BY <2>1, <2>2, <2>4, SettleMove
<1> QED
  BY <1>3, <1>4, <1>5, <1>6

\* The steps of Retry that find its channel.
LEMMA ChannelSteps ==
    ASSUME IInv, NEW j \in Jobs,
           RetryChannel(j) \/ RetryNewChannel(j) \/ RetryStoreChannel(j)
    PROVE  IInv'
<1>0. TypeOK /\ Outstanding
  BY DEF IInv
<1>1. job[j] \in JobRecords /\ j \in Jobs
  BY <1>0, Typed
<1>2. ASSUME Reliable PROVE RetryFailsLate
  BY <1>2 DEF IInv, Kept
<1>3. /\ epoch \in 1..MaxEpochs /\ retryCh \in 0..MaxEpochs /\ 1..MaxEpochs \subseteq 0..MaxEpochs
      /\ epoch # 0 /\ known \subseteq {"queue", "binding"} /\ declared \subseteq {"queue", "binding"}
  BY <1>0, DeliveryAssumption DEF TypeOK
<1>4. ASSUME job[j].pc # "idle", conn # "up" PROVE ~SubOf(j[1]).open
  <2>1. j[1] \in 1..Len(sent)
    BY <1>0, <1>4 DEF Outstanding
  <2> QED
    BY <1>0, <1>4, <2>1 DEF Outstanding, SubOf
<1>5. ASSUME RetryChannel(j) PROVE IInv'
  <2> DEFINE q == [job[j] EXCEPT !.pc = IF retryCh = 0 THEN "newChannel" ELSE "queueCheck",
                                 !.conn = epoch, !.rch = retryCh]
  <2>1. /\ q \in JobRecords /\ q.kind = job[j].kind /\ q.conn = epoch /\ q.rch = retryCh
        /\ q.pc = IF retryCh = 0 THEN "newChannel" ELSE "queueCheck"
    BY <1>1, <1>3 DEF JobRecords, JobPoints
  <2>2. job' = [job EXCEPT ![j] = q]
    BY <1>5 DEF RetryChannel
  <2> HIDE DEF q
  <2>3. /\ UNCHANGED <<brokerVars, sent, conn, epoch, subs, buffer, active, inbox, disposed>>
        /\ UNCHANGED <<retryCh, known, declared>> /\ job[j].pc = "channel"
    BY <1>5 DEF RetryChannel, jobsOnly, connVars
  <2>4. q.pc \in HaveChannel => q.rch # 0
    BY <2>1 DEF HaveChannel
  <2>5. /\ retryCh' \in 0..MaxEpochs /\ known' \subseteq {"queue", "binding"}
        /\ declared' \subseteq {"queue", "binding"} /\ declared \subseteq declared'
    BY <1>3, <2>3
  <2>6. q.pc \in {"newChannel", "queueCheck"}
    BY <2>1
  <2> QED
    BY <2>1, <2>2, <2>3, <2>4, <2>5, <2>6, JobMove
<1>6. ASSUME RetryNewChannel(j) PROVE IInv'
  <2>1. /\ UNCHANGED <<brokerVars, sent, conn, epoch, subs, buffer, active, inbox, disposed>>
        /\ UNCHANGED <<retryCh, known, declared>> /\ job[j].pc = "newChannel"
    BY <1>6 DEF RetryNewChannel, jobsOnly, connVars
  <2>2. /\ retryCh' \in 0..MaxEpochs /\ known' \subseteq {"queue", "binding"}
        /\ declared' \subseteq {"queue", "binding"} /\ declared \subseteq declared'
    BY <1>3, <2>1
  <2>3. CASE job[j].conn = epoch /\ job' = [job EXCEPT ![j].pc = "store", ![j].rch = job[j].conn]
    <3> DEFINE q == [job[j] EXCEPT !.pc = "store", !.rch = job[j].conn]
    <3>1. q \in JobRecords /\ q.kind = job[j].kind /\ q.rch = epoch /\ q.pc = "store"
      BY <1>1, <1>3, <2>3 DEF JobRecords, JobPoints
    <3>2. job' = [job EXCEPT ![j] = q]
      BY <2>3
    <3> HIDE DEF q
    <3> QED
      BY <1>3, <2>1, <2>2, <3>1, <3>2, JobMove
  <2>4. CASE (job[j].conn # epoch \/ conn # "up" \/ DeclareMayFail) /\ JobGoto(j, "nackLookup")
    <3> DEFINE q == [job[j] EXCEPT !.pc = "nackLookup"]
    <3>1. q \in JobRecords /\ q.kind = job[j].kind /\ q.pc = "nackLookup"
      BY <1>1 DEF JobRecords, JobPoints
    <3>2. job' = [job EXCEPT ![j] = q]
      BY <2>4 DEF JobGoto
    <3> HIDE DEF q
    <3>3. q.pc \in HaveChannel => q.rch # 0
      BY <3>1 DEF HaveChannel
    <3>4. ASSUME Reliable PROVE ~SubOf(j[1]).open
      <4>1. CASE conn # "up"
        BY <1>4, <2>1, <4>1
      <4>2. CASE job[j].conn # epoch
        BY <1>2, <2>1, <3>4, <4>2 DEF RetryFailsLate
      <4> QED
        BY <2>4, <3>4, <4>1, <4>2 DEF Reliable
    <3> QED
      BY <2>1, <2>2, <3>1, <3>2, <3>3, <3>4, JobMove
  <2> QED
    BY <1>6, <2>3, <2>4 DEF RetryNewChannel
<1>7. ASSUME RetryStoreChannel(j) PROVE IInv'
  <2> DEFINE q == [job[j] EXCEPT !.pc = "queueCheck"]
  <2>1. q \in JobRecords /\ q.kind = job[j].kind /\ q.rch = job[j].rch /\ q.pc = "queueCheck"
    BY <1>1 DEF JobRecords, JobPoints
  <2>2. job' = [job EXCEPT ![j] = q]
    BY <1>7 DEF RetryStoreChannel, JobGoto
  <2> HIDE DEF q
  <2>3. /\ UNCHANGED <<brokerVars, sent, conn, epoch, subs, buffer, active, inbox, disposed>>
        /\ UNCHANGED <<known, declared>> /\ job[j].pc = "store" /\ retryCh' = job[j].rch
    BY <1>7 DEF RetryStoreChannel
  <2>4. q.rch # 0
    BY <1>0, <2>1, <2>3 DEF TypeOK, HaveChannel
  <2>5. /\ retryCh' \in 0..MaxEpochs /\ known' \subseteq {"queue", "binding"}
        /\ declared' \subseteq {"queue", "binding"} /\ declared \subseteq declared'
    BY <1>1, <1>3, <2>3 DEF JobRecords
  <2> QED
    BY <2>1, <2>2, <2>3, <2>4, <2>5, JobMove
<1> QED
  BY <1>5, <1>6, <1>7

\* The steps of Retry that declare the delay queue and publish.
LEMMA DeclareSteps ==
    ASSUME IInv, NEW j \in Jobs,
           \/ QueueCheck(j) \/ BindingCheck(j) \/ DeclareCall(j) \/ DeclareAdd(j)
           \/ RetryPublish(j)
    PROVE  IInv'
<1>0. TypeOK /\ Outstanding
  BY DEF IInv
<1>1. job[j] \in JobRecords
  BY <1>0, Typed
<1>2. /\ epoch \in 1..MaxEpochs /\ retryCh \in 0..MaxEpochs /\ 1..MaxEpochs \subseteq 0..MaxEpochs
      /\ known \subseteq {"queue", "binding"} /\ declared \subseteq {"queue", "binding"}
  BY <1>0, DeliveryAssumption DEF TypeOK
<1>3. /\ UNCHANGED <<brokerVars, sent, conn, epoch, subs, buffer, active, inbox, disposed>>
      /\ retryCh' = retryCh
      /\ job[j].pc \in {"queueCheck", "bindingCheck", "queueCall", "bindingCall", "queueAdd",
                        "bindingAdd", "publish"}
  BY DEF QueueCheck, BindingCheck, DeclareCall, DeclareAdd, RetryPublish, jobsOnly, connVars
<1>4. /\ known' \in {known, known \cup {"queue"}, known \cup {"binding"}}
      /\ declared' \in {declared, declared \cup {"queue"}, declared \cup {"binding"}}
  BY DEF QueueCheck, BindingCheck, DeclareCall, DeclareAdd, RetryPublish, jobsOnly, connVars
<1>5. /\ retryCh' \in 0..MaxEpochs /\ known' \subseteq {"queue", "binding"}
      /\ declared' \subseteq {"queue", "binding"} /\ declared \subseteq declared'
  BY <1>2, <1>3, <1>4
<1>6. job[j].rch # 0
  BY <1>0, <1>3 DEF TypeOK, HaveChannel
<1>7. ASSUME NEW point \in {"bindingCheck", "publish", "queueAdd", "bindingAdd", "confirm",
                            "requeue", "nackLookup"},
             JobGoto(j, point), point = "nackLookup" => conn # "up" \/ DeclareMayFail
      PROVE  IInv'
  <2> DEFINE q == [job[j] EXCEPT !.pc = point]
  <2>1. q \in JobRecords /\ q.kind = job[j].kind /\ q.rch = job[j].rch /\ q.pc = point
    BY <1>1 DEF JobRecords, JobPoints
  <2>2. job' = [job EXCEPT ![j] = q]
    BY <1>7 DEF JobGoto
  <2> HIDE DEF q
  <2>3. ASSUME Reliable, point = "nackLookup" PROVE ~SubOf(j[1]).open
    <3>1. j[1] \in 1..Len(sent)
      BY <1>0, <1>3 DEF Outstanding
    <3>2. conn # "up"
      BY <1>7, <2>3 DEF Reliable
    <3> QED
      BY <1>0, <3>1, <3>2 DEF Outstanding, SubOf
  <2> QED
    BY <1>3, <1>5, <1>6, <2>1, <2>2, <2>3, JobMove
<1>8. ASSUME NEW point \in {"queueCall", "bindingCall"},
             job' = [job EXCEPT ![j].pc = point, ![j].conn = epoch]
      PROVE  IInv'
  <2> DEFINE q == [job[j] EXCEPT !.pc = point, !.conn = epoch]
  <2>1. q \in JobRecords /\ q.kind = job[j].kind /\ q.rch = job[j].rch /\ q.pc = point
    BY <1>1, <1>2 DEF JobRecords, JobPoints
  <2>2. job' = [job EXCEPT ![j] = q]
    BY <1>8
  <2> HIDE DEF q
  <2> QED
    BY <1>3, <1>5, <1>6, <2>1, <2>2, JobMove
<1>9. CASE QueueCheck(j)
  BY <1>7, <1>8, <1>9 DEF QueueCheck
<1>10. CASE BindingCheck(j)
  BY <1>7, <1>8, <1>10 DEF BindingCheck
<1>11. CASE DeclareCall(j)
  BY <1>7, <1>11 DEF DeclareCall
<1>12. CASE DeclareAdd(j)
  BY <1>7, <1>12 DEF DeclareAdd
<1>13. CASE RetryPublish(j)
  BY <1>7, <1>13 DEF RetryPublish
<1> QED
  BY <1>9, <1>10, <1>11, <1>12, <1>13
-----------------------------------------------------------------------------
(* Steps of the broker and of the subscriptions.                           *)

\* What a step must leave alone for the jobs to be as they were.
clientVars == <<active, inbox, job, retryCh, known, declared, disposed>>

\* Deliveries taken back are those of the channels that close.
LEMMA TakeBackMove ==
    ASSUME IInv, NEW STATE ts, ts \subseteq 1..Len(sent), TakeBack(ts),
           UNCHANGED <<copyOf, acquired, sent, epoch, clientVars>>,
           buffer' \subseteq buffer, conn' \in {conn, "down"},
           conn' # "up" => epoch < MaxEpochs,
           subs' \in Seq(SubRecords), Len(subs') = Len(subs),
           \A s \in 1..Len(subs) :
              subs'[s].open => subs[s].open /\ conn' = "up",
           \A t \in 1..Len(sent) :
              IF t \in ts THEN ~subs'[sent[t].sub].open
              ELSE subs'[sent[t].sub].open <=> subs[sent[t].sub].open
    PROVE  IInv'
<1>0. TypeOK /\ Outstanding /\ Deleting /\ NotStranded /\ Carried
  BY DEF IInv
<1>1. /\ copyOf' = copyOf /\ acquired' = acquired /\ sent' = sent /\ epoch' = epoch
      /\ active' = active /\ inbox' = inbox /\ job' = job /\ retryCh' = retryCh
      /\ known' = known /\ declared' = declared /\ disposed' = disposed
  BY DEF clientVars
<1>2. /\ unacked' = unacked \ ts
      /\ wire' = {f \in wire : f[1] \notin ts}
      /\ place' = [c \in Copies |-> IF \E t \in ts \cap unacked : sent[t].copy = c
                                    THEN "ready" ELSE place[c]]
  BY DEF TakeBack
<1>3. \A t \in 1..Len(sent) : sent[t].copy \in Copies /\ sent[t].sub \in 1..Len(subs)
  BY <1>0, Typed
<1>4. \A c \in Copies : place'[c] \in {place[c], "ready"}
  BY <1>2
<1>5. \A t \in unacked \cap ts : t \in 1..Len(sent) /\ place'[sent[t].copy] = "ready"
  BY <1>2, <1>3
<1>6. unacked \subseteq 1..Len(sent) /\ \A t \in unacked : subs[sent[t].sub].open
  BY <1>0 DEF Outstanding, SubOf
<1>7. TypeOK'
  <2>1. place' \in [Copies -> Places]
    BY <1>0, <1>2 DEF TypeOK, Places
  <2>2. unacked' \subseteq Tags /\ wire' \subseteq Frames /\ buffer' \subseteq Tags
    BY <1>0, <1>2 DEF TypeOK, Frames
  <2> QED
    BY <1>0, <1>1, <2>1, <2>2 DEF TypeOK, SubRecords, Frames
<1>8. Outstanding'
  <2>1. \A t \in unacked' : t \in 1..Len(sent) /\ subs'[sent[t].sub].open
    BY <1>2, <1>6
  <2>2. \A f \in wire' : f[1] \in 1..Len(sent)
    BY <1>0, <1>2 DEF Outstanding
  <2>3. inbox' \subseteq 1..Len(sent) /\ buffer' \subseteq 1..Len(sent) /\ inbox' \cap buffer' = {}
    BY <1>0, <1>1 DEF Outstanding
  <2> QED
    BY <1>0, <1>1, <2>1, <2>2, <2>3 DEF Outstanding, SubOf
<1>9. \A t : Settled(t) => Settled(t)'
  BY <1>2 DEF Settled
<1>10. Deleting'
  BY <1>0, <1>1, <1>9 DEF Deleting
<1>11. NotStranded'
  BY <1>0, <1>1, <1>2 DEF NotStranded
<1>12. Carried'
  <2>1. ASSUME NEW t \in unacked' PROVE place'[sent[t].copy] = "unacked"
    <3>1. t \in unacked /\ t \notin ts /\ sent[t].copy \in Copies
      BY <1>2, <1>3, <1>6
    <3>2. ~\E u \in ts \cap unacked : sent[u].copy = sent[t].copy
      BY <1>0, <3>1 DEF Carried
    <3> QED
      BY <1>0, <1>2, <3>1, <3>2 DEF Carried
  <2>2. \A t, u \in unacked' : sent[t].copy = sent[u].copy => t = u
    BY <1>0, <1>2 DEF Carried
  <2>3. \A t \in 1..Len(sent) : place'[sent[t].copy] # "unborn"
    BY <1>0, <1>3, <1>4 DEF Carried
  <2>4. ASSUME NEW c \in Copies, place'[c] # "unborn" PROVE copyOf[c] \in Messages
    <3>1. CASE \E t \in ts \cap unacked : sent[t].copy = c
      BY <1>0, <1>6, <3>1 DEF Carried
    <3>2. CASE ~\E t \in ts \cap unacked : sent[t].copy = c
      BY <1>0, <1>2, <2>4, <3>2 DEF Carried
    <3> QED
      BY <3>1, <3>2
  <2> QED
    BY <1>1, <2>1, <2>2, <2>3, <2>4 DEF Carried
<1>13. ASSUME OneRequest PROVE Once'
  <2>1. Once
    BY <1>13 DEF IInv
  <2>2. SettledOnce'
    BY <1>2, <2>1 DEF Once, SettledOnce
  <2>3. ASSUME NEW t \in 1..Len(sent), Unsettled(t) PROVE Unsettled(t)'
    <3>1. SUFFICES ASSUME subs'[sent[t].sub].open
                   PROVE  t \in unacked' /\ \A f \in wire' : f[1] # t
      BY <1>1 DEF Unsettled, SubOf
    <3>2. t \notin ts /\ subs[sent[t].sub].open
      BY <3>1
    <3> QED
      BY <1>2, <2>3, <3>2 DEF Unsettled, SubOf
  <2>4. buffer' \subseteq 1..Len(sent) /\ inbox \subseteq 1..Len(sent)
    BY <1>0 DEF Outstanding
  <2>5. \A t \in buffer' : Unsettled(t)'
    BY <2>1, <2>3, <2>4 DEF Once
  <2>6. \A j \in Jobs : j[1] \in inbox' /\ job'[j].pc \notin {"delete", "done"} => Unsettled(j[1])'
    BY <1>1, <2>1, <2>3, <2>4 DEF Once
  <2> QED
    BY <2>2, <2>5, <2>6 DEF Once
<1>14. ASSUME Reliable PROVE Kept'
  <2>1. Kept
    BY <1>14 DEF IInv
  <2>2. "binding" \in declared' /\ BelowCap'
    BY <1>1, <2>1 DEF Kept, BelowCap, maxAcquiredCountHit
  <2>3. RetryFailsLate'
    <3>1. ASSUME NEW j \in Jobs, job[j].pc # "idle"
          PROVE  SubOf(j[1])'.open => SubOf(j[1]).open
      <4>1. j[1] \in 1..Len(sent)
        BY <1>0, <3>1 DEF Outstanding
      <4> QED
        BY <1>1, <1>3, <4>1 DEF SubOf
    <3>2. ASSUME NEW j \in Jobs, job[j].pc # "idle"
          PROVE  /\ job[j].pc = "newChannel" /\ SubOf(j[1])'.open => job[j].conn = epoch
                 /\ job[j].pc = "nackLookup" => j[1] \notin active \/ ~SubOf(j[1])'.open
                 /\ job[j].pc = "nackCall" => ~SubOf(j[1])'.open
      BY <2>1, <3>1, <3>2 DEF Kept, RetryFailsLate
    <3>3. ASSUME NEW j \in Jobs
          PROVE  /\ job[j].pc = "call" => job[j].kind # "retry"
                 /\ job[j].pc # "idle" /\ job[j].kind # "retry" => MessageOf(j[1])' \in disposed
      BY <1>1, <2>1 DEF Kept, RetryFailsLate, MessageOf
    <3> QED
      BY <1>1, <3>2, <3>3 DEF RetryFailsLate
  <2>4. ASSUME NEW c \in Copies, Safe(c) PROVE Safe(c)'
    <3>1. CASE place[c] \in {"ready", "delayed"}
      BY <1>4, <3>1 DEF Safe
    <3>2. CASE place[c] \notin {"ready", "delayed"}
      <4>1. PICK t \in unacked :
               /\ place[c] = "unacked" /\ sent[t].copy = c
               /\ \A g \in wire : g[1] = t => g[2] = "requeue"
               /\ \A k \in Jobs : k[1] = t => job[k].pc # "ackOriginal"
        BY <2>4, <3>2 DEF Safe
      <4>2. CASE t \in ts
        BY <1>5, <4>1, <4>2 DEF Safe
      <4>3. CASE t \notin ts
        <5>1. t \in unacked' /\ place'[c] \in {"unacked", "ready"} /\ wire' \subseteq wire
          BY <1>2, <1>4, <4>1, <4>3
        <5> QED
          BY <1>1, <4>1, <5>1 DEF Safe
      <4> QED
        BY <4>2, <4>3
    <3> QED
      BY <3>1, <3>2
  <2>5. SafeCopies'
    BY <1>1, <2>1, <2>4 DEF Kept, SafeCopies
  <2> QED
    BY <2>2, <2>3, <2>5 DEF Kept
<1>15. (OneRequest => Once)' /\ (Reliable => Kept)'
  BY <1>13, <1>14 DEF OneRequest, Reliable
<1> QED
  BY <1>7, <1>8, <1>10, <1>11, <1>12, <1>15 DEF IInv

\* A delivery has a tag of its own, for which nobody has written a frame.
LEMMA DeliverMove ==
    ASSUME IInv, NEW c \in Copies, NEW s \in 1..Len(subs), Deliver(c, s) PROVE IInv'
<1>0. TypeOK /\ Outstanding /\ Deleting /\ NotStranded /\ Carried
  BY DEF IInv
<1>a. PICK n : n = Len(sent) + 1
  OBVIOUS
<1> DEFINE e == [copy |-> c, sub |-> s, header |-> acquired[c]]
<1>1. /\ copyOf' = copyOf /\ wire' = wire /\ conn' = conn /\ epoch' = epoch /\ subs' = subs
      /\ active' = active /\ inbox' = inbox /\ job' = job /\ retryCh' = retryCh
      /\ known' = known /\ declared' = declared /\ disposed' = disposed
      /\ place[c] = "ready" /\ subs[s].open /\ Len(sent) < MaxDeliveries
      /\ place' = [place EXCEPT ![c] = "unacked"]
      /\ acquired' = [acquired EXCEPT ![c] = @ + 1]
      /\ sent' = Append(sent, e)
      /\ unacked' = unacked \cup {n} /\ buffer' = buffer \cup {n}
  BY <1>a DEF Deliver, connVars
<1>2. /\ sent \in Seq(SentRecords) /\ Len(sent) \in Nat /\ Len(subs) \in Nat
      /\ \A t \in 1..Len(sent) : sent[t].copy \in Copies
  BY <1>0, Typed
<1>3. e \in SentRecords /\ e.copy = c /\ e.sub = s
  BY <1>0, <1>2 DEF TypeOK, SentRecords
<1> HIDE DEF e
<1>4. /\ sent' \in Seq(SentRecords) /\ Len(sent') = n
      /\ \A t \in 1..Len(sent) : sent'[t] = sent[t]
      /\ sent'[n] = e
  BY <1>a, <1>1, <1>2, <1>3, AppendFacts
<1>5. /\ n \in Tags /\ n \in 1..n /\ n \notin 1..Len(sent) /\ 1..n = 1..Len(sent) \cup {n}
      /\ n <= MaxDeliveries
  BY <1>a, <1>1, <1>2, DeliveryAssumption DEF Tags
<1>6. /\ n \notin unacked /\ n \notin buffer /\ n \notin inbox /\ \A f \in wire : f[1] # n
      /\ \A j \in Jobs : job[j].pc # "idle" => j[1] # n
      /\ unacked \subseteq 1..Len(sent) /\ buffer \subseteq 1..Len(sent)
      /\ inbox \subseteq 1..Len(sent)
  BY <1>0, <1>5 DEF Outstanding
<1>7. place \in [Copies -> Places] /\ acquired \in [Copies -> Nat]
  BY <1>0 DEF TypeOK
<1>8. TypeOK'
  <2>1. place' \in [Copies -> Places] /\ acquired' \in [Copies -> Nat]
    BY <1>1, <1>7 DEF Places
  <2>2. unacked' \subseteq Tags /\ buffer' \subseteq Tags
    BY <1>0, <1>1, <1>5 DEF TypeOK
  <2> QED
    BY <1>0, <1>1, <1>4, <2>1, <2>2 DEF TypeOK, SentRecords
<1>9. Outstanding'
  <2>1. \A t \in unacked' : t \in 1..n /\ subs[sent'[t].sub].open
    BY <1>0, <1>1, <1>3, <1>4, <1>5, <1>6 DEF Outstanding, SubOf
  <2>2. \A t \in 1..n : sent'[t].sub \in 1..Len(subs)
    BY <1>0, <1>3, <1>4, <1>5 DEF Outstanding
  <2>3. inbox \subseteq 1..n /\ buffer' \subseteq 1..n /\ inbox \cap buffer' = {}
    BY <1>0, <1>1, <1>5, <1>6 DEF Outstanding
  <2>4. \A f \in wire : f[1] \in 1..n
    BY <1>0, <1>5 DEF Outstanding
  <2> QED
    BY <1>0, <1>1, <1>4, <1>5, <2>1, <2>2, <2>3, <2>4 DEF Outstanding, SubOf
<1>10. Deleting'
  BY <1>0, <1>1, <1>6 DEF Deleting, Settled
<1>11. NotStranded'
  BY <1>0, <1>1, <1>6 DEF NotStranded
<1>12. Carried'
  <2>1. \A d \in Copies : place'[d] = IF d = c THEN "unacked" ELSE place[d]
    BY <1>1, <1>7
  <2>2. \A t \in unacked : sent[t].copy # c
    BY <1>0, <1>1 DEF Carried
  <2>3. \A d \in Copies : place'[d] # "unborn" => copyOf[d] \in Messages
    BY <1>0, <1>1, <2>1 DEF Carried
  <2>4. \A t \in 1..n : place'[sent'[t].copy] # "unborn"
    BY <1>0, <1>2, <1>3, <1>4, <1>5, <2>1 DEF Carried
  <2>5. \A t \in unacked' : place'[sent'[t].copy] = "unacked"
    BY <1>0, <1>1, <1>2, <1>3, <1>4, <1>6, <2>1 DEF Carried
  <2>6. \A t, u \in unacked' : sent'[t].copy = sent'[u].copy => t = u
    BY <1>0, <1>1, <1>3, <1>4, <1>6, <2>2 DEF Carried
  <2> QED
    BY <1>1, <1>4, <2>3, <2>4, <2>5, <2>6 DEF Carried
<1>13. ASSUME OneRequest PROVE Once'
  <2>1. Once
    BY <1>13 DEF IInv
  <2>2. SettledOnce'
    BY <1>1, <2>1 DEF Once, SettledOnce
  <2>3. ASSUME NEW t \in 1..Len(sent), Unsettled(t) PROVE Unsettled(t)'
    BY <1>1, <1>4, <2>3 DEF Unsettled, SubOf
  <2>4. Unsettled(n)'
    BY <1>1, <1>6 DEF Unsettled
  <2>5. \A t \in buffer' : Unsettled(t)'
    BY <1>1, <1>6, <2>1, <2>3, <2>4 DEF Once
  <2>6. \A j \in Jobs : j[1] \in inbox' /\ job'[j].pc \notin {"delete", "done"} => Unsettled(j[1])'
    BY <1>1, <1>6, <2>1, <2>3 DEF Once
  <2> QED
    BY <2>2, <2>5, <2>6 DEF Once
<1>14. ASSUME Reliable PROVE Kept'
  <2>1. Kept
    BY <1>14 DEF IInv
  <2>2. "binding" \in declared' /\ BelowCap'
    BY <1>1, <1>4, <1>6, <2>1 DEF Kept, BelowCap, maxAcquiredCountHit
  <2>3. RetryFailsLate'
    <3>1. ASSUME NEW j \in Jobs, job[j].pc # "idle"
          PROVE  SubOf(j[1])' = SubOf(j[1]) /\ MessageOf(j[1])' = MessageOf(j[1])
      <4>1. j[1] \in 1..Len(sent)
        BY <1>0, <3>1 DEF Outstanding
      <4> QED
        BY <1>1, <1>4, <4>1 DEF SubOf, MessageOf
    <3> QED
      BY <1>1, <2>1, <3>1 DEF Kept, RetryFailsLate
  <2>4. ASSUME NEW d \in Copies, Safe(d) PROVE Safe(d)'
    <3>1. CASE d = c
      <4>1. \A j \in Jobs : j[1] = n => job'[j].pc # "ackOriginal"
        BY <1>1, <1>6
      <4>2. place'[d] = "unacked" /\ n \in unacked' /\ sent'[n].copy = d
        BY <1>1, <1>3, <1>4, <1>7, <3>1
      <4> QED
        BY <1>1, <1>6, <4>1, <4>2 DEF Safe
    <3>2. CASE d # c
      <4>1. place'[d] = place[d]
        BY <1>1, <1>7, <3>2
      <4>2. CASE place[d] \in {"ready", "delayed"}
        BY <4>1, <4>2 DEF Safe
      <4>3. CASE place[d] \notin {"ready", "delayed"}
        <5>1. PICK t \in unacked :
                 /\ place[d] = "unacked" /\ sent[t].copy = d
                 /\ \A g \in wire : g[1] = t => g[2] = "requeue"
                 /\ \A k \in Jobs : k[1] = t => job[k].pc # "ackOriginal"
          BY <2>4, <4>3 DEF Safe
        <5>2. t \in unacked' /\ sent'[t].copy = d
          BY <1>1, <1>4, <1>6, <5>1
        <5> QED
          BY <1>1, <4>1, <5>1, <5>2 DEF Safe
      <4> QED
        BY <4>2, <4>3
    <3> QED
      BY <3>1, <3>2
  <2>5. SafeCopies'
    BY <1>1, <2>1, <2>4 DEF Kept, SafeCopies
  <2> QED
    BY <2>2, <2>3, <2>5 DEF Kept
<1>15. (OneRequest => Once)' /\ (Reliable => Kept)'
  BY <1>13, <1>14 DEF OneRequest, Reliable
<1> QED
  BY <1>8, <1>9, <1>10, <1>11, <1>12, <1>15 DEF IInv

\* The broker reads a frame for a delivery it waits for: a copy that goes was not
\* the safe one of its message.
LEMMA FrameMove ==
    ASSUME IInv, NEW f \in wire, f[1] \in unacked,
           unacked' = unacked \ {f[1]}, wire' = wire \ {f},
           place' = [place EXCEPT ![sent[f[1]].copy] =
                        IF f[2] = "requeue" THEN "ready" ELSE "gone"],
           UNCHANGED <<copyOf, acquired, sent, conn, epoch, subs, buffer, clientVars>>
    PROVE  IInv'
<1>0. TypeOK /\ Outstanding /\ Deleting /\ NotStranded /\ Carried
  BY DEF IInv
<1>1. /\ copyOf' = copyOf /\ acquired' = acquired /\ sent' = sent /\ epoch' = epoch
      /\ conn' = conn /\ subs' = subs /\ buffer' = buffer
      /\ active' = active /\ inbox' = inbox /\ job' = job /\ retryCh' = retryCh
      /\ known' = known /\ declared' = declared /\ disposed' = disposed
  BY DEF clientVars
<1>2. f[1] \in 1..Len(sent) /\ unacked \subseteq 1..Len(sent)
  BY <1>0 DEF Outstanding
<1>3. \A t \in 1..Len(sent) : sent[t].copy \in Copies
  BY <1>0, Typed
<1>4. place \in [Copies -> Places]
  BY <1>0 DEF TypeOK
<1>5. /\ \A c \in Copies : c # sent[f[1]].copy => place'[c] = place[c]
      /\ place'[sent[f[1]].copy] = IF f[2] = "requeue" THEN "ready" ELSE "gone"
      /\ place' \in [Copies -> Places]
  BY <1>2, <1>3, <1>4 DEF Places
<1>6. TypeOK'
  BY <1>0, <1>1, <1>5 DEF TypeOK
<1>7. Outstanding'
  BY <1>0, <1>1 DEF Outstanding, SubOf
<1>8. Deleting' /\ NotStranded'
  BY <1>0, <1>1 DEF Deleting, Settled, NotStranded
<1>9. \A t \in unacked' : t \in unacked /\ sent[t].copy # sent[f[1]].copy
  BY <1>0 DEF Carried
<1>10. Carried'
  <2>1. \A t \in unacked' : place'[sent[t].copy] = "unacked"
    BY <1>0, <1>2, <1>3, <1>5, <1>9 DEF Carried
  <2>2. \A t \in 1..Len(sent) : place'[sent[t].copy] # "unborn"
    BY <1>0, <1>3, <1>5 DEF Carried
  <2>3. \A c \in Copies : place'[c] # "unborn" => copyOf[c] \in Messages
    BY <1>0, <1>2, <1>5 DEF Carried
  <2>4. \A t, u \in unacked' : sent[t].copy = sent[u].copy => t = u
    BY <1>0, <1>9 DEF Carried
  <2> QED
    BY <1>1, <2>1, <2>2, <2>3, <2>4 DEF Carried
<1>11. ASSUME OneRequest PROVE Once'
  <2>1. Once
    BY <1>11 DEF IInv
  <2>2. SettledOnce'
    BY <2>1 DEF Once, SettledOnce
  <2>3. ASSUME NEW t, Unsettled(t) PROVE Unsettled(t)'
    BY <1>1, <2>3 DEF Unsettled, SubOf
  <2> QED
    BY <1>1, <2>1, <2>2, <2>3 DEF Once
<1>12. ASSUME Reliable PROVE Kept'
  <2>1. Kept
    BY <1>12 DEF IInv
  <2>2. "binding" \in declared' /\ BelowCap' /\ RetryFailsLate'
    BY <1>1, <2>1 DEF Kept, BelowCap, maxAcquiredCountHit, RetryFailsLate, SubOf, MessageOf
  <2>3. ASSUME NEW c \in Copies, Safe(c) PROVE Safe(c)'
    <3>1. CASE place[c] \in {"ready", "delayed"}
      <4>1. c # sent[f[1]].copy
        BY <1>0, <3>1 DEF Carried
      <4> QED
        BY <1>5, <3>1, <4>1 DEF Safe
    <3>2. CASE place[c] \notin {"ready", "delayed"}
      <4>1. PICK t \in unacked :
               /\ place[c] = "unacked" /\ sent[t].copy = c
               /\ \A g \in wire : g[1] = t => g[2] = "requeue"
               /\ \A k \in Jobs : k[1] = t => job[k].pc # "ackOriginal"
        BY <2>3, <3>2 DEF Safe
      <4>2. CASE t = f[1]
        BY <1>5, <4>1, <4>2 DEF Safe
      <4>3. CASE t # f[1]
        <5>1. t \in unacked' /\ place'[c] = "unacked" /\ wire' \subseteq wire
          BY <1>5, <1>9, <4>1, <4>3
        <5> QED
          BY <1>1, <4>1, <5>1 DEF Safe
      <4> QED
        BY <4>2, <4>3
    <3> QED
      BY <3>1, <3>2
  <2>4. SafeCopies'
    BY <1>1, <2>1, <2>3 DEF Kept, SafeCopies
  <2> QED
    BY <2>2, <2>4 DEF Kept
<1>13. (OneRequest => Once)' /\ (Reliable => Kept)'
  BY <1>11, <1>12 DEF OneRequest, Reliable
<1> QED
  BY <1>6, <1>7, <1>8, <1>10, <1>13 DEF IInv

\* A frame for a delivery the broker does not wait for closes the channel.
LEMMA ReadFrameMove == ASSUME IInv, NEW f \in wire, ReadFrame(f[1], f[2], f[3]) PROVE IInv'
<1>0. TypeOK /\ Outstanding
  BY DEF IInv
<1>1. UNCHANGED <<copyOf, acquired, sent, conn, epoch, buffer, clientVars>>
  BY DEF ReadFrame, clientVars
<1>2. f = <<f[1], f[2], f[3]>> /\ f[1] \in 1..Len(sent)
  <2>1. f \in Frames
    BY <1>0, Typed
  <2> QED
    BY <1>0, <2>1 DEF Frames, Outstanding
<1>3. CASE f[1] \in unacked
  <2>1. /\ unacked' = unacked \ {f[1]} /\ wire' = wire \ {f} /\ subs' = subs
        /\ place' = [place EXCEPT ![sent[f[1]].copy] =
                        IF f[2] = "requeue" THEN "ready" ELSE "gone"]
    BY <1>2, <1>3 DEF ReadFrame
  <2> QED
    BY <1>1, <1>3, <2>1, FrameMove
<1>4. CASE f[1] \notin unacked
  <2> DEFINE n == sent[f[1]].sub
             ts == {u \in 1..Len(sent) : sent[u].sub = n}
             e == [subs[n] EXCEPT !.open = FALSE]
  <2>1. TakeBack(ts) /\ subs' = [subs EXCEPT ![n] = e]
    BY <1>4 DEF ReadFrame
  <2>2. subs \in Seq(SubRecords) /\ n \in 1..Len(subs) /\ subs[n] \in SubRecords
    BY <1>0, <1>2, Typed DEF SubOf
  <2>3. e \in SubRecords /\ ~e.open
    BY <2>2 DEF SubRecords
  <2>4. ts \subseteq 1..Len(sent) /\ \A t \in 1..Len(sent) : t \in ts <=> sent[t].sub = n
    OBVIOUS
  <2> HIDE DEF n, ts, e
  <2>5. /\ subs' \in Seq(SubRecords) /\ Len(subs') = Len(subs)
        /\ \A i \in 1..Len(subs) : subs'[i] = IF i = n THEN e ELSE subs[i]
    BY <2>1, <2>2, <2>3, ReplaceFacts
  <2>6. \A i \in 1..Len(subs) : subs'[i].open => subs[i].open /\ conn' = "up"
    BY <1>0, <1>1, <2>3, <2>5 DEF Outstanding
  <2>7. \A t \in 1..Len(sent) : IF t \in ts THEN ~subs'[sent[t].sub].open
                                ELSE subs'[sent[t].sub].open <=> subs[sent[t].sub].open
    BY <1>0, <2>2, <2>3, <2>4, <2>5 DEF Outstanding
  <2>8. conn' # "up" => epoch < MaxEpochs
    BY <1>0, <1>1 DEF Outstanding
  <2> QED
    BY <1>1, <2>1, <2>4, <2>5, <2>6, <2>7, <2>8, TakeBackMove
<1> QED
  BY <1>3, <1>4

\* The other steps that take deliveries back.
LEMMA CloseMoves ==
    ASSUME IInv, ConnectionLost \/ \E s \in 1..Len(subs) : UnsubscribeReturn(s) PROVE IInv'
<1>0. TypeOK /\ Outstanding
  BY DEF IInv
<1>1. subs \in Seq(SubRecords) /\ Len(subs) \in Nat /\ \A i \in 1..Len(subs) : subs[i] \in SubRecords
  BY <1>0, Typed, ElementOf
<1>2. CASE ConnectionLost
  <2>1. /\ UNCHANGED <<copyOf, acquired, sent, epoch, buffer, clientVars>>
        /\ TakeBack(1..Len(sent)) /\ conn' = "down" /\ epoch < MaxEpochs
        /\ subs' = [s \in 1..Len(subs) |-> [subs[s] EXCEPT !.open = FALSE]]
    BY <1>2 DEF ConnectionLost, clientVars
  <2>2. \A s \in 1..Len(subs) : /\ [subs[s] EXCEPT !.open = FALSE] \in SubRecords
                                /\ ~[subs[s] EXCEPT !.open = FALSE].open
    BY <1>1 DEF SubRecords
  <2>3. subs' \in [1..Len(subs) -> SubRecords] /\ \A s \in 1..Len(subs) : ~subs'[s].open
    BY <2>1, <2>2
  <2>4. subs' \in Seq(SubRecords) /\ Len(subs') = Len(subs)
    BY <1>1, <2>3, FunctionIsSeq
  <2>5. \A t \in 1..Len(sent) : ~subs'[sent[t].sub].open
    BY <1>0, <2>3 DEF Outstanding
  <2> DEFINE ts == 1..Len(sent)
  <2>6. /\ ts \subseteq 1..Len(sent) /\ TakeBack(ts)
        /\ \A t \in 1..Len(sent) : IF t \in ts THEN ~subs'[sent[t].sub].open
                                   ELSE subs'[sent[t].sub].open <=> subs[sent[t].sub].open
    BY <2>1, <2>5
  <2> HIDE DEF ts
  <2> QED
    BY <2>1, <2>3, <2>4, <2>6, TakeBackMove
<1>3. CASE \E s \in 1..Len(subs) : UnsubscribeReturn(s)
  <2>0. PICK s \in 1..Len(subs) : UnsubscribeReturn(s)
    BY <1>3
  <2> DEFINE ts == {t \in 1..Len(sent) : sent[t].sub = s}
             e == [subs[s] EXCEPT !.open = FALSE, !.running = FALSE]
  <2>1. /\ UNCHANGED <<copyOf, acquired, sent, conn, epoch, clientVars>>
        /\ TakeBack(ts) /\ subs' = [subs EXCEPT ![s] = e] /\ buffer' \subseteq buffer
    <3>1. /\ UNCHANGED <<copyOf, acquired, sent, conn, epoch, clientVars>> /\ TakeBack(ts)
      BY <2>0 DEF UnsubscribeReturn, clientVars
    <3>2. subs' = [subs EXCEPT ![s] = e]
      BY <2>0 DEF UnsubscribeReturn
    <3>3. buffer' \subseteq buffer
      BY <2>0 DEF UnsubscribeReturn
    <3> QED
      BY <3>1, <3>2, <3>3
  <2>2. e \in SubRecords /\ ~e.open
    BY <1>1 DEF SubRecords
  <2>3. ts \subseteq 1..Len(sent) /\ \A t \in 1..Len(sent) : t \in ts <=> sent[t].sub = s
    OBVIOUS
  <2> HIDE DEF ts, e
  <2>4. /\ subs' \in Seq(SubRecords) /\ Len(subs') = Len(subs)
        /\ \A i \in 1..Len(subs) : subs'[i] = IF i = s THEN e ELSE subs[i]
    BY <1>1, <2>1, <2>2, ReplaceFacts
  <2>5. \A i \in 1..Len(subs) : subs'[i].open => subs[i].open /\ conn' = "up"
    BY <1>0, <2>1, <2>2, <2>4 DEF Outstanding
  <2>6. \A t \in 1..Len(sent) : IF t \in ts THEN ~subs'[sent[t].sub].open
                                ELSE subs'[sent[t].sub].open <=> subs[sent[t].sub].open
    BY <1>0, <2>2, <2>3, <2>4 DEF Outstanding
  <2>7. conn' # "up" => epoch < MaxEpochs
    BY <1>0, <2>1 DEF Outstanding
  <2> QED
    BY <2>1, <2>3, <2>4, <2>5, <2>6, <2>7, TakeBackMove
<1> QED
  BY <1>2, <1>3

\* A delayed copy was safe and stays so.
LEMMA DelayMove == ASSUME IInv, NEW c \in Copies, DelayOver(c) PROVE IInv'
<1>0. TypeOK /\ Outstanding /\ Deleting /\ NotStranded /\ Carried
  BY DEF IInv
<1>1. /\ copyOf' = copyOf /\ acquired' = acquired /\ sent' = sent /\ epoch' = epoch
      /\ conn' = conn /\ subs' = subs /\ buffer' = buffer /\ unacked' = unacked /\ wire' = wire
      /\ active' = active /\ inbox' = inbox /\ job' = job /\ retryCh' = retryCh
      /\ known' = known /\ declared' = declared /\ disposed' = disposed
      /\ place[c] = "delayed" /\ place' = [place EXCEPT ![c] = "ready"]
  BY DEF DelayOver, connVars
<1>2. place \in [Copies -> Places]
  BY <1>0 DEF TypeOK
<1>3. /\ place' \in [Copies -> Places] /\ place'[c] = "ready"
      /\ \A d \in Copies : d # c => place'[d] = place[d]
  BY <1>1, <1>2 DEF Places
<1>4. TypeOK'
  BY <1>0, <1>1, <1>3 DEF TypeOK
<1>5. Outstanding' /\ Deleting' /\ NotStranded'
  BY <1>0, <1>1 DEF Outstanding, SubOf, Deleting, Settled, NotStranded
<1>6. Carried'
  <2>1. /\ unacked \subseteq 1..Len(sent) /\ \A t \in 1..Len(sent) : sent[t].copy \in Copies
    BY <1>0, Typed DEF Outstanding
  <2>2. \A t \in unacked : place'[sent[t].copy] = "unacked"
    BY <1>0, <1>1, <1>3, <2>1 DEF Carried
  <2>3. \A t \in 1..Len(sent) : place'[sent[t].copy] # "unborn"
    BY <1>0, <1>3, <2>1 DEF Carried
  <2>4. \A d \in Copies : place'[d] # "unborn" => copyOf[d] \in Messages
    BY <1>0, <1>1, <1>3 DEF Carried
  <2> QED
    BY <1>0, <1>1, <2>2, <2>3, <2>4 DEF Carried
<1>7. OneRequest => Once'
  BY <1>1 DEF IInv, Once, SettledOnce, Unsettled, SubOf
<1>8. ASSUME Reliable PROVE Kept'
  <2>1. Kept
    BY <1>8 DEF IInv
  <2>2. "binding" \in declared' /\ BelowCap' /\ RetryFailsLate'
    BY <1>1, <2>1 DEF Kept, BelowCap, maxAcquiredCountHit, RetryFailsLate, SubOf, MessageOf
  <2>3. \A d \in Copies : Safe(d) => Safe(d)'
    BY <1>1, <1>3 DEF Safe
  <2>4. SafeCopies'
    BY <1>1, <2>1, <2>3 DEF Kept, SafeCopies
  <2> QED
    BY <2>2, <2>4 DEF Kept
<1>9. (OneRequest => Once)' /\ (Reliable => Kept)'
  BY <1>7, <1>8 DEF OneRequest, Reliable
<1> QED
  BY <1>4, <1>5, <1>6, <1>9 DEF IInv

\* A reconnect replaces the maps, when the broker waits for nothing.
LEMMA ReconnectMoves == ASSUME IInv, ReconnectBegin \/ ReconnectEnd PROVE IInv'
<1>0. TypeOK /\ Outstanding /\ Deleting /\ NotStranded /\ Carried
  BY DEF IInv
<1>1. /\ copyOf' = copyOf /\ place' = place /\ acquired' = acquired /\ sent' = sent
      /\ subs' = subs /\ buffer' = buffer /\ unacked' = unacked /\ wire' = wire
      /\ inbox' = inbox /\ job' = job /\ declared' = declared /\ disposed' = disposed
  BY DEF ReconnectBegin, ReconnectEnd, brokerVars
<1>2. conn # "up" /\ epoch < MaxEpochs
  BY <1>0 DEF ReconnectBegin, ReconnectEnd, Outstanding
<1>3. \/ conn' = "dialing" /\ epoch' = epoch /\ active' = {} /\ known' = {} /\ retryCh' = retryCh
      \/ /\ conn' = "up" /\ epoch' = epoch + 1 /\ active' = active /\ known' = known
         /\ retryCh' = 0
  BY DEF ReconnectBegin, ReconnectEnd
<1>4. \A s \in 1..Len(subs) : ~subs[s].open
  BY <1>0, <1>2 DEF Outstanding
<1>5. \A t \in 1..Len(sent) : ~SubOf(t).open
  BY <1>0, <1>4 DEF Outstanding, SubOf
<1>6. unacked = {}
  BY <1>0, <1>5 DEF Outstanding
<1>7. TypeOK'
  <2>1. epoch \in 1..MaxEpochs /\ retryCh \in 0..MaxEpochs
    BY <1>0 DEF TypeOK
  <2>2. epoch' \in 1..MaxEpochs /\ retryCh' \in 0..MaxEpochs
    BY <1>2, <1>3, <2>1, DeliveryAssumption
  <2>3. /\ conn' \in {"up", "down", "dialing"} /\ active' \subseteq Tags
        /\ known' \subseteq {"queue", "binding"}
    BY <1>0, <1>3 DEF TypeOK
  <2> QED
    BY <1>0, <1>1, <2>2, <2>3 DEF TypeOK
<1>8. Outstanding'
  <2>1. conn' # "up" => epoch' < MaxEpochs
    BY <1>2, <1>3
  <2> QED
    BY <1>0, <1>1, <1>4, <2>1 DEF Outstanding, SubOf
<1>9. Deleting' /\ NotStranded' /\ Carried'
  BY <1>0, <1>1, <1>6 DEF Deleting, Settled, NotStranded, Carried
<1>10. OneRequest => Once'
  BY <1>1 DEF IInv, Once, SettledOnce, Unsettled, SubOf
<1>11. ASSUME Reliable PROVE Kept'
  <2>1. Kept
    BY <1>11 DEF IInv
  <2>2. "binding" \in declared' /\ BelowCap'
    BY <1>1, <2>1 DEF Kept, BelowCap, maxAcquiredCountHit
  <2>3. RetryFailsLate'
    <3>1. \A j \in Jobs : job[j].pc # "idle" => ~SubOf(j[1]).open
      BY <1>0, <1>5 DEF Outstanding
    <3>2. \A j \in Jobs : SubOf(j[1])' = SubOf(j[1]) /\ MessageOf(j[1])' = MessageOf(j[1])
      BY <1>1 DEF SubOf, MessageOf
    <3> QED
      BY <1>1, <2>1, <3>1, <3>2 DEF Kept, RetryFailsLate
  <2>4. SafeCopies'
    BY <1>1, <2>1 DEF Kept, SafeCopies, Safe
  <2> QED
    BY <2>2, <2>3, <2>4 DEF Kept
<1>12. (OneRequest => Once)' /\ (Reliable => Kept)'
  BY <1>10, <1>11 DEF OneRequest, Reliable
<1> QED
  BY <1>7, <1>8, <1>9, <1>12 DEF IInv

\* A new subscription has no delivery yet.
LEMMA SubscribeMove == ASSUME IInv, Subscribe PROVE IInv'
<1>0. TypeOK /\ Outstanding /\ Deleting /\ NotStranded /\ Carried
  BY DEF IInv
<1> DEFINE e == [epoch |-> epoch, open |-> TRUE, running |-> TRUE]
<1>1. /\ copyOf' = copyOf /\ place' = place /\ acquired' = acquired /\ sent' = sent
      /\ epoch' = epoch /\ conn' = conn /\ buffer' = buffer /\ unacked' = unacked
      /\ wire' = wire /\ active' = active /\ inbox' = inbox /\ job' = job
      /\ retryCh' = retryCh /\ known' = known /\ declared' = declared /\ disposed' = disposed
      /\ conn = "up" /\ subs' = Append(subs, e)
  BY DEF Subscribe, brokerVars
<1>2. subs \in Seq(SubRecords) /\ Len(subs) \in Nat /\ e \in SubRecords
  BY <1>0, Typed DEF TypeOK, SubRecords
<1> HIDE DEF e
<1>3. /\ subs' \in Seq(SubRecords) /\ Len(subs') = Len(subs) + 1
      /\ \A i \in 1..Len(subs) : subs'[i] = subs[i]
  BY <1>1, <1>2, AppendFacts
<1>4. 1..Len(subs) \subseteq 1..Len(subs')
  BY <1>2, <1>3
<1>5. \A t \in 1..Len(sent) : SubOf(t)' = SubOf(t)
  BY <1>0, <1>1, <1>3 DEF Outstanding, SubOf
<1>6. TypeOK'
  BY <1>0, <1>1, <1>3 DEF TypeOK, SubRecords
<1>7. Outstanding'
  <2>1. \A t \in unacked : t \in 1..Len(sent) /\ SubOf(t)'.open
    BY <1>0, <1>5 DEF Outstanding
  <2>2. \A t \in 1..Len(sent) : sent[t].sub \in 1..Len(subs')
    BY <1>0, <1>4 DEF Outstanding
  <2> QED
    BY <1>0, <1>1, <2>1, <2>2 DEF Outstanding
<1>8. Deleting' /\ NotStranded' /\ Carried'
  BY <1>0, <1>1 DEF Deleting, Settled, NotStranded, Carried
<1>9. inbox \subseteq 1..Len(sent) /\ buffer \subseteq 1..Len(sent)
  BY <1>0 DEF Outstanding
<1>10. ASSUME OneRequest PROVE Once'
  <2>1. Once
    BY <1>10 DEF IInv
  <2>2. \A t \in 1..Len(sent) : Unsettled(t) => Unsettled(t)'
    BY <1>1, <1>5 DEF Unsettled
  <2> QED
    BY <1>1, <1>9, <2>1, <2>2 DEF Once, SettledOnce
<1>11. ASSUME Reliable PROVE Kept'
  <2>1. Kept
    BY <1>11 DEF IInv
  <2>2. "binding" \in declared' /\ BelowCap' /\ SafeCopies'
    BY <1>1, <2>1 DEF Kept, BelowCap, maxAcquiredCountHit, SafeCopies, Safe
  <2>3. RetryFailsLate'
    <3>1. \A j \in Jobs : /\ job[j].pc # "idle" => SubOf(j[1])' = SubOf(j[1])
                          /\ MessageOf(j[1])' = MessageOf(j[1])
      BY <1>0, <1>1, <1>5 DEF Outstanding, MessageOf
    <3> QED
      BY <1>1, <2>1, <3>1 DEF Kept, RetryFailsLate
  <2> QED
    BY <2>2, <2>3 DEF Kept
<1>12. (OneRequest => Once)' /\ (Reliable => Kept)'
  BY <1>10, <1>11 DEF OneRequest, Reliable
<1> QED
  BY <1>6, <1>7, <1>8, <1>12 DEF IInv

\* A message goes to the client, or over the cap to the dead-letter exchange.
LEMMA HandleMove == ASSUME IInv, NEW t \in buffer, HandleMessage(t) PROVE IInv'
<1>0. TypeOK /\ Outstanding /\ Deleting /\ NotStranded /\ Carried
  BY DEF IInv
<1> DEFINE f == <<t, "reject", None>>
<1>1. /\ copyOf' = copyOf /\ place' = place /\ acquired' = acquired /\ sent' = sent
      /\ epoch' = epoch /\ conn' = conn /\ subs' = subs /\ unacked' = unacked /\ job' = job
      /\ retryCh' = retryCh /\ known' = known /\ declared' = declared
      /\ buffer' = buffer \ {t}
  BY DEF HandleMessage, connVars
<1>2. /\ t \in Tags /\ t \in 1..Len(sent) /\ t \notin inbox
      /\ \A j \in Jobs : job[j].pc # "idle" => j[1] # t
  BY <1>0 DEF TypeOK, Outstanding
<1>3. f \in Frames /\ f[1] = t
  BY <1>2 DEF Frames
<1> HIDE DEF f
<1>4. MessageOf(t) \in Messages
  BY <1>0, <1>2, Carries
<1>5. \/ /\ maxAcquiredCountHit(t) /\ active' = active /\ inbox' = inbox
         /\ wire' = IF SubOf(t).open THEN wire \cup {f} ELSE wire
         /\ disposed' = disposed \cup {MessageOf(t)}
      \/ /\ ~maxAcquiredCountHit(t) /\ active' = active \cup {t} /\ inbox' = inbox \cup {t}
         /\ wire' = wire /\ disposed' = disposed
  BY DEF HandleMessage, f
<1>6. /\ wire \subseteq wire' /\ wire' \subseteq wire \cup {f}
      /\ wire' # wire => SubOf(t).open /\ MessageOf(t) \in disposed'
      /\ disposed \subseteq disposed' /\ disposed' \subseteq Messages
      /\ inbox \subseteq inbox' /\ inbox' \subseteq inbox \cup {t}
      /\ active \subseteq active' /\ active' \subseteq active \cup {t}
      /\ t \in inbox' => t \in active'
  BY <1>0, <1>2, <1>4, <1>5 DEF TypeOK
<1>7. TypeOK'
  <2>1. /\ wire' \subseteq Frames /\ active' \subseteq Tags /\ inbox' \subseteq Tags
        /\ buffer' \subseteq Tags
    BY <1>0, <1>1, <1>2, <1>3, <1>6, Typed DEF TypeOK
  <2> QED
    BY <1>0, <1>1, <1>6, <2>1 DEF TypeOK, Frames
<1>8. Outstanding'
  <2>1. \A g \in wire' : g[1] \in 1..Len(sent)
    BY <1>0, <1>2, <1>3, <1>6 DEF Outstanding
  <2>2. inbox' \subseteq 1..Len(sent) /\ buffer' \subseteq 1..Len(sent) /\ inbox' \cap buffer' = {}
    BY <1>0, <1>1, <1>2, <1>6 DEF Outstanding
  <2>3. \A j \in Jobs : job[j].pc # "idle" => j[1] \in inbox'
    BY <1>0, <1>6 DEF Outstanding
  <2> QED
    BY <1>0, <1>1, <2>1, <2>2, <2>3 DEF Outstanding, SubOf
<1>9. Deleting' /\ NotStranded' /\ Carried'
  <2>1. Deleting'
    BY <1>0, <1>1, <1>6 DEF Deleting, Settled
  <2>2. NotStranded'
    BY <1>0, <1>1, <1>6 DEF NotStranded
  <2>3. Carried'
    BY <1>0, <1>1 DEF Carried
  <2> QED
    BY <2>1, <2>2, <2>3
<1>10. ASSUME OneRequest PROVE Once'
  <2>1. Once
    BY <1>10 DEF IInv
  <2>2. Unsettled(t)
    BY <2>1 DEF Once
  <2>3. SettledOnce'
    <3>1. CASE wire' = wire
      BY <1>1, <2>1, <3>1 DEF Once, SettledOnce
    <3>2. CASE wire' # wire
      <4>1. t \in unacked /\ \A g \in wire : g[1] # t
        BY <1>6, <2>2, <3>2 DEF Unsettled
      <4> QED
        BY <1>1, <1>3, <1>6, <2>1, <4>1 DEF Once, SettledOnce
    <3> QED
      BY <3>1, <3>2
  <2>4. ASSUME NEW u, u # t, Unsettled(u) PROVE Unsettled(u)'
    BY <1>1, <1>3, <1>6, <2>4 DEF Unsettled, SubOf
  <2>5. \A u \in buffer' : Unsettled(u)'
    BY <1>1, <2>1, <2>4 DEF Once
  <2>6. ASSUME NEW j \in Jobs, j[1] \in inbox', job'[j].pc \notin {"delete", "done"}
        PROVE  Unsettled(j[1])'
    <3>1. CASE j[1] = t
      <4>1. wire' = wire
        BY <1>2, <1>5, <2>6, <3>1
      <4> QED
        BY <1>1, <2>2, <3>1, <4>1 DEF Unsettled, SubOf
    <3>2. CASE j[1] # t
      BY <1>1, <1>6, <2>1, <2>4, <2>6, <3>2 DEF Once
    <3> QED
      BY <3>1, <3>2
  <2> QED
    BY <2>3, <2>5, <2>6 DEF Once
<1>11. ASSUME Reliable PROVE Kept'
  <2>1. Kept
    BY <1>11 DEF IInv
  <2>2. "binding" \in declared'
    BY <1>1, <2>1 DEF Kept
  <2>3. BelowCap'
    <3>1. \A u \in inbox' : ~maxAcquiredCountHit(u)
      BY <1>2, <1>5, <2>1 DEF Kept, BelowCap
    <3> QED
      BY <1>1, <3>1 DEF BelowCap, maxAcquiredCountHit
  <2>4. RetryFailsLate'
    <3>1. \A j \in Jobs : SubOf(j[1])' = SubOf(j[1]) /\ MessageOf(j[1])' = MessageOf(j[1])
      BY <1>1 DEF SubOf, MessageOf
    <3>2. \A j \in Jobs : job[j].pc # "idle" => (j[1] \in active' <=> j[1] \in active)
      BY <1>2, <1>6
    <3> QED
      BY <1>1, <1>6, <2>1, <3>1, <3>2 DEF Kept, RetryFailsLate
  <2>5. ASSUME NEW c \in Copies, Safe(c), copyOf[c] \notin disposed' PROVE Safe(c)'
    <3>1. CASE place[c] \in {"ready", "delayed"}
      BY <1>1, <3>1 DEF Safe
    <3>2. CASE place[c] \notin {"ready", "delayed"}
      <4>1. PICK u \in unacked :
               /\ place[c] = "unacked" /\ sent[u].copy = c
               /\ \A g \in wire : g[1] = u => g[2] = "requeue"
               /\ \A k \in Jobs : k[1] = u => job[k].pc # "ackOriginal"
        BY <2>5, <3>2 DEF Safe
      <4>2. \A g \in wire' : g[1] = u => g \in wire
        <5>1. CASE u = t
          <6>1. MessageOf(t) \notin disposed'
            BY <2>5, <4>1, <5>1 DEF MessageOf
          <6> QED
            BY <1>6, <6>1
        <5>2. CASE u # t
          BY <1>3, <1>6, <5>2
        <5> QED
          BY <5>1, <5>2
      <4> QED
        BY <1>1, <4>1, <4>2 DEF Safe
    <3> QED
      BY <3>1, <3>2
  <2>6. SafeCopies'
    <3> SUFFICES ASSUME NEW m \in Messages, m \notin disposed'
                 PROVE  \E c \in Copies : copyOf'[c] = m /\ Safe(c)'
      BY DEF SafeCopies
    <3>1. PICK c \in Copies : copyOf[c] = m /\ Safe(c)
      BY <1>6, <2>1 DEF Kept, SafeCopies
    <3> QED
      BY <1>1, <2>5, <3>1
  <2> QED
    BY <2>2, <2>3, <2>4, <2>6 DEF Kept
<1>12. (OneRequest => Once)' /\ (Reliable => Kept)'
  BY <1>10, <1>11 DEF OneRequest, Reliable
<1> QED
  BY <1>7, <1>8, <1>9, <1>12 DEF IInv
-----------------------------------------------------------------------------
\* Every step keeps the inductive invariant.
LEMMA StepInv == IInv /\ [Next]_vars => IInv'
<1> SUFFICES ASSUME IInv, [Next]_vars PROVE IInv'
  OBVIOUS
<1>1. ASSUME NEW c \in Copies, NEW s \in 1..Len(subs), Deliver(c, s) PROVE IInv'
  BY <1>1, DeliverMove
<1>2. ASSUME NEW f \in wire, ReadFrame(f[1], f[2], f[3]) PROVE IInv'
  BY <1>2, ReadFrameMove
<1>3. ASSUME NEW c \in Copies, DelayOver(c) PROVE IInv'
  BY <1>3, DelayMove
<1>4. CASE ConnectionLost \/ \E s \in 1..Len(subs) : UnsubscribeReturn(s)
  BY <1>4, CloseMoves
<1>5. CASE ReconnectBegin \/ ReconnectEnd
  BY <1>5, ReconnectMoves
<1>6. CASE Subscribe
  BY <1>6, SubscribeMove
<1>7. ASSUME NEW t \in buffer, HandleMessage(t) PROVE IInv'
  BY <1>7, HandleMove
<1>8. ASSUME NEW j \in Jobs, JobStep(j) PROVE IInv'
  BY <1>8, SettlementSteps, DeleteMove, ChannelSteps, DeclareSteps, ConfirmMove DEF JobStep
<1>9. ASSUME NEW j \in Jobs, NEW kind \in Kinds, Acknowledge(j, kind) PROVE IInv'
  BY <1>9, AcknowledgeMove
<1>10. CASE UNCHANGED vars
  <2>1. /\ copyOf' = copyOf /\ place' = place /\ acquired' = acquired /\ sent' = sent
        /\ unacked' = unacked /\ wire' = wire /\ conn' = conn /\ epoch' = epoch /\ subs' = subs
        /\ buffer' = buffer /\ active' = active /\ inbox' = inbox /\ job' = job
        /\ retryCh' = retryCh /\ known' = known /\ declared' = declared /\ disposed' = disposed
    BY <1>10 DEF vars
  <2>2. TypeOK'
    BY <2>1 DEF IInv, TypeOK
  <2>3. Outstanding' /\ Deleting' /\ NotStranded' /\ Carried'
    BY <2>1 DEF IInv, Outstanding, SubOf, Deleting, Settled, NotStranded, Carried
  <2>4. OneRequest => Once'
    BY <2>1 DEF IInv, Once, SettledOnce, Unsettled, SubOf
  <2>5. ASSUME Reliable PROVE Kept'
    BY <2>1, <2>5 DEF IInv, Kept, BelowCap, maxAcquiredCountHit, RetryFailsLate, SubOf,
                      MessageOf, SafeCopies, Safe
  <2>6. (OneRequest => Once)' /\ (Reliable => Kept)'
    BY <2>4, <2>5 DEF OneRequest, Reliable
  <2> QED
    BY <2>2, <2>3, <2>6 DEF IInv
<1> QED
  BY <1>1, <1>2, <1>3, <1>4, <1>5, <1>6, <1>7, <1>8, <1>9, <1>10 DEF Next

\* A delivery for which the broker waits can be settled: it is in activeMessages or its
\* settlement is on the wire, for any number of acknowledgements that race each other,
\* of retries, reconnects and refused declarations (Ack, Nack, DeadLetter, Retry,
\* queueSubscribe, connect).
THEOREM NothingIsStranded == Spec => []NotStranded
<1>1. IInv => NotStranded
  BY DEF IInv
<1> QED
  BY <1>1, InitInv, StepInv, PTL DEF Spec

\* If the client acknowledges a delivery at most once, it is settled at most once: no
\* path of Ack, Nack, Retry, the Nack that Consume falls back to and the delivery cap
\* writes a second frame, or one for a delivery the broker has taken back.
THEOREM SettledOnlyOnce == ASSUME OneRequest PROVE Spec => []SettledOnce
<1>1. IInv => SettledOnce
  BY DEF IInv, Once
<1> QED
  BY <1>1, InitInv, StepInv, PTL DEF Spec

\* If the delay queue exists and no declaration is refused, no message is lost: the
\* broker keeps a copy of it until the client disposed of it or the delivery cap did,
\* across lost connections, lost frames and any number of retries (Retry publishes
\* first and acknowledges after the confirmation).
THEOREM NothingIsLost == ASSUME Reliable PROVE Spec => []NoLoss
<1>1. IInv => NoLoss
  <2> SUFFICES ASSUME IInv, NEW m \in Messages, m \notin disposed
               PROVE  \E c \in Copies : /\ copyOf[c] = m
                                        /\ place[c] \in {"ready", "unacked", "delayed"}
    BY DEF NoLoss
  <2>1. PICK c \in Copies : copyOf[c] = m /\ Safe(c)
    BY DEF IInv, Kept, SafeCopies
  <2> QED
    BY <2>1 DEF Safe
<1> QED
  BY <1>1, InitInv, StepInv, PTL DEF Spec
=============================================================================
