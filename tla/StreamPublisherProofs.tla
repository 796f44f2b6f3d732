------------------------ MODULE StreamPublisherProofs ------------------------
(***************************************************************************)
(* Proofs about publishing to a stream (StreamPublisher), for any number   *)
(* of callers, messages and publishers and any limit of a pool:            *)
(*   - a publisher has one user at a time, and a key has no more           *)
(*     publishers than its pool allows, unless two pools were made;        *)
(*   - success is reported for confirmed messages only, as long as no      *)
(*     caller has given up on a publisher;                                 *)
(*   - until two pools were made the callers see one ItemPool.             *)
(* The invariant follows a caller from the lookup of the pool on: pools    *)
(* are counted by the callers that have yet to make or add one, so that    *)
(* none is made in vain twice; a publisher is idle in one pool, held by    *)
(* one caller or closed; and what a publisher has in flight belongs to the *)
(* caller that awaits it.                                                  *)
(***************************************************************************)
EXTENDS StreamPublisher, FiniteSetTheorems, TLAPS

CallerRecords ==
    [pc : {"idle", "connect", "lookup", "make", "add", "get", "publish", "await", "put"},
     pool : Pools \cup {None}, pub : Publishers \cup {None}, msg : 0..MaxMessages,
     tries : 0..MaxTries]

Using == {"publish", "await", "put"}

\* What a caller has at each point, when the map has entry e, and n pools and m
\* publishers have been made.
PointOK(q, e, n, m) ==
    /\ q.pc # "idle" => q.msg \in Messages
    /\ q.pool # None => q.pool \in 1..n
    /\ q.pc \in {"add", "get"} => q.pool # None
    /\ q.pc \in {"get"} \cup Using => e # None
    /\ q.pc \in Using => q.pub \in 1..m
    /\ q.pc \notin Using => q.pub = None

PointsOK == \A c \in Callers : PointOK(caller[c], entry, pools, made)

AtMake == {c \in Callers : caller[c].pc = "make"}
AtAdd == {c \in Callers : caller[c].pc = "add"}

\* Every caller makes at most one pool, and only before the key has one.
PoolsCounted ==
    /\ entry # None => entry \in 1..pools
    /\ entry = None => pools = Cardinality(AtAdd)
    /\ pools + Cardinality(AtMake) <= Cardinality(Callers)
    /\ raced <=> pools > 1

\* Until a second pool is made, the publishers are those of the first.
MadeCounted ==
    /\ \A k \in Pools : k > pools => count[k] = 0
    /\ pools = 0 => made = 0 /\ failed = 0
    /\ pools = 1 => made + failed = count[1]

Disjoint ==
    /\ \A k \in Pools : idle[k] \subseteq 1..made
    /\ \A k, j \in Pools : k # j => idle[k] \cap idle[j] = {}

\* What a publisher has in flight is the message of the caller that awaits it.
InFlight(p, m) ==
    \/ unanswered[p] = <<m>> /\ pcChannel[p] = <<>>
    \/ /\ unanswered[p] = <<>>
       /\ \E ok \in BOOLEAN : /\ pcChannel[p] = <<[msg |-> m, ok |-> ok]>>
                              /\ ok => m \in confirmed

Awaits(c, p) == caller[c].pc = "await" /\ caller[c].pub = p

OwnAnswers ==
    Confirm /\ interrupted = {} =>
        /\ succeeded \subseteq confirmed
        /\ \A c \in Callers : caller[c].pc = "await" => InFlight(caller[c].pub, caller[c].msg)
        /\ \A p \in Publishers : (\A c \in Callers : ~Awaits(c, p))
              => unanswered[p] = <<>> /\ pcChannel[p] = <<>>

IInv ==
    /\ TypeOK /\ PointsOK /\ PoolsCounted /\ MadeCounted
    /\ Disjoint /\ UsedByOne /\ OwnAnswers
-----------------------------------------------------------------------------
\* The callers are finitely many, and so are the sets of callers.
LEMMA CallersFinite ==
    /\ Cardinality(Callers) \in Nat
    /\ \A S \in SUBSET Callers : IsFiniteSet(S) /\ Cardinality(S) \in Nat
<1>1. Cardinality(Callers) \in Nat
  BY PublisherAssumption, FS_CardinalityType
<1>2. ASSUME NEW S \in SUBSET Callers PROVE IsFiniteSet(S) /\ Cardinality(S) \in Nat
  BY PublisherAssumption, FS_Subset, FS_CardinalityType
<1> QED
  BY <1>1, <1>2

\* No pool and no publisher is None.
LEMMA NoneIsNone ==
    /\ None \notin Pools /\ None \notin Publishers
    /\ \A n \in Nat : None \notin 1..n
BY PublisherAssumption, CallersFinite DEF Pools, Publishers

\* No caller is in the code, and there is no pool.
LEMMA InitInv == Init => IInv
<1> SUFFICES ASSUME Init PROVE IInv
  OBVIOUS
<1> USE PublisherAssumption, CallersFinite, NoneIsNone
<1>0. 0 \in 0..MaxMessages /\ 0 \in 0..Cardinality(Callers) /\ 0 \in 0..Limit /\ 0 \in 0..MaxPublishers
      /\ 0 \in 0..MaxTries
  OBVIOUS
<1>1. Idle \in CallerRecords /\ Idle.pc = "idle" /\ Idle.pool = None /\ Idle.pub = None
  BY <1>0 DEF Idle, CallerRecords
<1>2. caller \in [Callers -> CallerRecords]
  BY <1>1 DEF Init
<1>3. \A k \in Pools : idle[k] = {} /\ count[k] = 0
  BY DEF Init
<1>4. \A p \in Publishers : unanswered[p] = <<>> /\ pcChannel[p] = <<>>
  BY DEF Init
<1>5. \A c \in Callers : caller[c] = Idle
  BY DEF Init
<1>6. TypeOK
  <2>1. /\ idle \in [Pools -> SUBSET Publishers] /\ count \in [Pools -> 0..Limit]
        /\ \A k \in Pools : Cardinality(idle[k]) <= Limit
    BY <1>0, <1>3, FS_EmptySet DEF Init
  <2>2. /\ unanswered \in [Publishers -> Seq(Messages)]
        /\ pcChannel \in [Publishers -> Seq([msg : Messages, ok : BOOLEAN])]
        /\ \A p \in Publishers : Len(pcChannel[p]) <= 1
    BY <1>4 DEF Init
  <2>3. /\ connected \in BOOLEAN /\ cancelled \in BOOLEAN /\ raced \in BOOLEAN
        /\ entry \in Pools \cup {None} /\ pools \in 0..Cardinality(Callers)
        /\ made \in 0..MaxPublishers /\ failed \in Nat /\ closed \subseteq Publishers
        /\ sent \in 0..MaxMessages
        /\ confirmed \subseteq Messages /\ succeeded \subseteq Messages
        /\ interrupted \subseteq Publishers
    BY <1>0 DEF Init
  <2> QED
    BY <1>2, <2>1, <2>2, <2>3 DEF TypeOK, CallerRecords
<1>7. PointsOK
  BY <1>1, <1>5 DEF PointsOK, PointOK, Using
<1>8. AtMake = {} /\ AtAdd = {}
  BY <1>1, <1>5 DEF AtMake, AtAdd
<1>9. PoolsCounted
  <2>1. Cardinality(AtMake) = 0 /\ Cardinality(AtAdd) = 0
    BY <1>8, FS_EmptySet
  <2> QED
    BY <2>1 DEF PoolsCounted, Init
<1>10. MadeCounted
  BY <1>3 DEF MadeCounted, Init
<1>11. Disjoint
  BY <1>3 DEF Disjoint
<1>12. UsedByOne
  BY <1>1, <1>5 DEF UsedByOne
<1>13. OwnAnswers
  BY <1>1, <1>4, <1>5 DEF OwnAnswers, Init
<1> QED
  BY <1>6, <1>7, <1>9, <1>10, <1>11, <1>12, <1>13 DEF IInv
-----------------------------------------------------------------------------
\* What the invariant says of the numbers.
LEMMA Numbers ==
    ASSUME TypeOK
    PROVE  pools \in Nat /\ made \in Nat /\ failed \in Nat /\ sent \in Nat /\ pools <= Cardinality(Callers)
BY PublisherAssumption, CallersFinite DEF TypeOK

\* The points of the other callers survive a step that takes nothing away.
LEMMA PointsKept ==
    ASSUME PointsOK, TypeOK, TypeOK', NEW c \in Callers,
           \A d \in Callers \ {c} : caller'[d] = caller[d],
           PointOK(caller'[c], entry', pools', made'),
           pools <= pools', made <= made', entry # None => entry' # None
    PROVE  PointsOK'
<1> USE CallersFinite, PublisherAssumption
<1>1. pools \in Nat /\ made \in Nat /\ pools' \in Nat /\ made' \in Nat
  BY Numbers DEF TypeOK
<1>2. 1..pools \subseteq 1..pools' /\ 1..made \subseteq 1..made'
  BY <1>1
<1> SUFFICES ASSUME NEW d \in Callers \ {c} PROVE PointOK(caller'[d], entry', pools', made')
  BY DEF PointsOK
<1>3. PointOK(caller[d], entry, pools, made) /\ caller'[d] = caller[d]
  BY DEF PointsOK
<1> QED
  BY <1>2, <1>3 DEF PointOK

\* A caller that takes no publisher, and pools that take none, leave each publisher
\* with its user.
LEMMA UsersKept ==
    ASSUME UsedByOne, NEW c \in Callers,
           \A d \in Callers \ {c} : caller'[d] = caller[d],
           caller'[c].pub \in {None, caller[c].pub},
           UNCHANGED idle
    PROVE  UsedByOne'
BY DEF UsedByOne

\* The answers are not disturbed by a caller that neither was nor is waiting.
LEMMA AnswersKept ==
    ASSUME OwnAnswers, NEW c \in Callers,
           \A d \in Callers \ {c} : caller'[d] = caller[d],
           caller[c].pc # "await", caller'[c].pc # "await",
           UNCHANGED <<unanswered, pcChannel, confirmed, succeeded, interrupted>>
    PROVE  OwnAnswers'
<1>1. /\ unanswered' = unanswered /\ pcChannel' = pcChannel /\ confirmed' = confirmed
      /\ succeeded' = succeeded /\ interrupted' = interrupted
  OBVIOUS
<1>2. \A d \in Callers : /\ caller'[d].pc = "await" => d # c /\ caller'[d] = caller[d]
                         /\ caller[d].pc = "await" => d # c /\ caller'[d] = caller[d]
  OBVIOUS
<1> SUFFICES ASSUME Confirm, interrupted = {}
             PROVE  /\ succeeded \subseteq confirmed
                    /\ \A d \in Callers : caller'[d].pc = "await"
                                           => InFlight(caller[d].pub, caller[d].msg)'
                    /\ \A p \in Publishers : (\A d \in Callers : ~Awaits(d, p)')
                          => unanswered[p] = <<>> /\ pcChannel[p] = <<>>
  BY <1>1 DEF OwnAnswers
<1>3. ASSUME NEW d \in Callers, caller'[d].pc = "await"
      PROVE  InFlight(caller[d].pub, caller[d].msg)'
  <2>1. InFlight(caller[d].pub, caller[d].msg) /\ caller'[d] = caller[d]
    BY <1>2, <1>3 DEF OwnAnswers
  <2> QED
    BY <1>1, <2>1 DEF InFlight
<1>4. ASSUME NEW p \in Publishers, \A d \in Callers : ~Awaits(d, p)'
      PROVE  unanswered[p] = <<>> /\ pcChannel[p] = <<>>
  <2>1. \A d \in Callers : ~Awaits(d, p)
    BY <1>2, <1>4 DEF Awaits
  <2> QED
    BY <2>1 DEF OwnAnswers
<1> QED
  BY <1>3, <1>4 DEF OwnAnswers

\* A step of one caller at a point where pools are neither looked up nor made, that
\* changes no pool and no answer.
LEMMA QuietMove ==
    ASSUME IInv, TypeOK', NEW c \in Callers,
           \A d \in Callers \ {c} : caller'[d] = caller[d],
           caller[c].pc \notin {"make", "add", "await"},
           caller'[c].pc \notin {"make", "add", "await"},
           caller'[c].pub \in {None, caller[c].pub},
           PointOK(caller'[c], entry, pools, made),
           UNCHANGED <<poolVars, brokerVars, succeeded, interrupted>>
    PROVE  IInv'
<1>1. /\ entry' = entry /\ pools' = pools /\ idle' = idle /\ count' = count /\ made' = made /\ failed' = failed
      /\ raced' = raced
      /\ UNCHANGED <<unanswered, pcChannel, confirmed, succeeded, interrupted>>
  BY DEF poolVars, brokerVars
<1>2. PointsOK'
  <2>1. pools <= pools /\ made <= made
    BY Numbers DEF IInv
  <2> QED
    BY <1>1, <2>1, PointsKept DEF IInv
<1>3. AtMake' = AtMake /\ AtAdd' = AtAdd
  BY DEF AtMake, AtAdd
<1>4. PoolsCounted'
  BY <1>1, <1>3 DEF IInv, PoolsCounted
<1>5. MadeCounted'
  BY <1>1 DEF IInv, MadeCounted
<1>6. Disjoint'
  BY <1>1 DEF IInv, Disjoint
<1>7. UsedByOne'
  BY <1>1, UsersKept DEF IInv
<1>8. OwnAnswers'
  BY <1>1, AnswersKept DEF IInv
<1> QED
  BY <1>2, <1>4, <1>5, <1>6, <1>7, <1>8 DEF IInv
-----------------------------------------------------------------------------
\* A caller that comes to another point with another pool, publisher or message.
LEMMA CallerTyped ==
    ASSUME TypeOK, NEW c \in Callers, NEW STATE q, q \in CallerRecords,
           caller' = [caller EXCEPT ![c] = q]
    PROVE  /\ caller' \in [Callers -> CallerRecords] /\ caller'[c] = q
           /\ \A d \in Callers \ {c} : caller'[d] = caller[d]
BY DEF TypeOK, CallerRecords

\* A step that changes only the callers, the connection and the numbering.
LEMMA TypeKept ==
    ASSUME TypeOK, caller' \in [Callers -> CallerRecords],
           connected' \in BOOLEAN, cancelled' \in BOOLEAN, sent' \in 0..MaxMessages,
           UNCHANGED <<poolVars, brokerVars, succeeded, interrupted>>
    PROVE  TypeOK'
BY DEF TypeOK, CallerRecords, poolVars, brokerVars

\* Idle is at no point and has nothing.
LEMMA IdleOK ==
    /\ Idle \in CallerRecords /\ Idle.pc = "idle" /\ Idle.pool = None /\ Idle.pub = None
    /\ \A e, n, m : PointOK(Idle, e, n, m)
<1>1. 0 \in 0..MaxMessages /\ 0 \in 0..MaxTries
  BY PublisherAssumption
<1>2. Idle \in CallerRecords /\ Idle.pc = "idle" /\ Idle.pool = None /\ Idle.pub = None
  BY <1>1 DEF Idle, CallerRecords
<1> QED
  BY <1>2 DEF PointOK, Using

\* A call begins with no pool and no publisher.
LEMMA CallInv == ASSUME IInv, NEW c \in Callers, Call(c) PROVE IInv'
<1> USE PublisherAssumption
<1> DEFINE q == [Idle EXCEPT !.pc = "connect", !.msg = sent + 1]
<1>1. /\ caller[c].pc = "idle" /\ sent' = sent + 1 /\ caller' = [caller EXCEPT ![c] = q]
      /\ UNCHANGED <<connected, cancelled, poolVars, brokerVars, succeeded, interrupted>>
  BY DEF Call
<1>2. TypeOK /\ sent \in Nat /\ sent < MaxMessages
  BY Numbers DEF IInv, Call
<1>3. sent + 1 \in Messages /\ sent + 1 \in 0..MaxMessages
  BY <1>2 DEF Messages
<1>4. /\ q \in CallerRecords /\ q.pc = "connect" /\ q.pool = None /\ q.pub = None
      /\ q.msg \in Messages
  BY <1>3, IdleOK DEF Idle, CallerRecords
<1>5. PointOK(q, entry, pools, made)
  BY <1>4 DEF PointOK, Using
<1> HIDE DEF q
<1>6. /\ caller' \in [Callers -> CallerRecords] /\ caller'[c] = q
      /\ \A d \in Callers \ {c} : caller'[d] = caller[d]
  BY <1>1, <1>2, <1>4, CallerTyped
<1>7. TypeOK'
  <2>1. connected' \in BOOLEAN /\ cancelled' \in BOOLEAN
    BY <1>1, <1>2 DEF TypeOK
  <2> QED
    BY <1>1, <1>2, <1>3, <1>6, <2>1, TypeKept
<1> QED
  BY <1>1, <1>4, <1>5, <1>6, <1>7, QuietMove

\* Connecting touches no pool.
LEMMA ConnectInv == ASSUME IInv, NEW c \in Callers, getStreamConnection(c) PROVE IInv'
<1> USE PublisherAssumption
<1>1. /\ caller[c].pc = "connect" /\ connected' \in BOOLEAN
      /\ UNCHANGED <<cancelled, poolVars, brokerVars, sent, succeeded, interrupted>>
      /\ TypeOK
  BY DEF getStreamConnection, IInv, TypeOK
<1>2. PICK q \in {Idle, [caller[c] EXCEPT !.pc = "lookup"]} : caller' = [caller EXCEPT ![c] = q]
  <2>1. CASE Goto(c, "lookup")
    <3>1. caller' = [caller EXCEPT ![c] = [caller[c] EXCEPT !.pc = "lookup"]]
      BY <2>1 DEF Goto
    <3> QED
      BY <3>1
  <2> QED
    BY <2>1 DEF getStreamConnection
<1>3. caller[c] \in CallerRecords /\ PointOK(caller[c], entry, pools, made)
  BY <1>1 DEF TypeOK, CallerRecords, IInv, PointsOK
<1>4. /\ q \in CallerRecords /\ q.pc \in {"idle", "lookup"} /\ q.pub = None
      /\ PointOK(q, entry, pools, made)
  <2>1. CASE q = Idle
    BY <2>1, IdleOK
  <2>2. CASE q = [caller[c] EXCEPT !.pc = "lookup"]
    <3>1. /\ q \in CallerRecords /\ q.pc = "lookup" /\ q.pool = caller[c].pool
          /\ q.pub = caller[c].pub /\ q.msg = caller[c].msg
      BY <1>3, <2>2 DEF CallerRecords
    <3> QED
      BY <1>1, <1>3, <3>1 DEF PointOK, Using
  <2> QED
    BY <2>1, <2>2
<1>5. /\ caller' \in [Callers -> CallerRecords] /\ caller'[c] = q
      /\ \A d \in Callers \ {c} : caller'[d] = caller[d]
  BY <1>1, <1>2, <1>4 DEF TypeOK, CallerRecords
<1>6. TypeOK'
  <2>1. cancelled' \in BOOLEAN /\ sent' \in 0..MaxMessages
    BY <1>1 DEF TypeOK
  <2> QED
    BY <1>1, <1>5, <2>1, TypeKept
<1> QED
  BY <1>1, <1>4, <1>5, <1>6, QuietMove

\* The lookup that finds a pool goes on to it; the one that finds none makes one.
LEMMA LookupInv == ASSUME IInv, NEW c \in Callers, PoolLookup(c) PROVE IInv'
<1> USE PublisherAssumption
<1> DEFINE q == [caller[c] EXCEPT !.pc = IF entry = None THEN "make" ELSE "get", !.pool = entry]
<1>1. /\ caller[c].pc = "lookup" /\ caller' = [caller EXCEPT ![c] = q]
      /\ UNCHANGED <<connected, cancelled, poolVars, brokerVars, sent, succeeded, interrupted>>
      /\ TypeOK
  BY DEF PoolLookup, IInv
<1>2. /\ caller[c] \in CallerRecords /\ PointOK(caller[c], entry, pools, made)
      /\ entry \in Pools \cup {None} /\ (entry # None => entry \in 1..pools)
  BY <1>1 DEF TypeOK, CallerRecords, IInv, PointsOK, PoolsCounted
<1>3. /\ q \in CallerRecords /\ q.pc = (IF entry = None THEN "make" ELSE "get")
      /\ q.pool = entry /\ q.pub = caller[c].pub /\ q.msg = caller[c].msg
  BY <1>2 DEF CallerRecords
<1> HIDE DEF q
<1>4. PointOK(q, entry, pools, made) /\ q.pub = None
  BY <1>1, <1>2, <1>3 DEF PointOK, Using
<1>5. /\ caller' \in [Callers -> CallerRecords] /\ caller'[c] = q
      /\ \A d \in Callers \ {c} : caller'[d] = caller[d]
  BY <1>1, <1>3, CallerTyped
<1>6. TypeOK'
  <2>1. connected' \in BOOLEAN /\ cancelled' \in BOOLEAN /\ sent' \in 0..MaxMessages
    BY <1>1 DEF TypeOK
  <2> QED
    BY <1>1, <1>5, <2>1, TypeKept
<1>7. CASE entry # None
  BY <1>1, <1>3, <1>4, <1>5, <1>6, <1>7, QuietMove
<1>8. CASE entry = None
  <2>1. /\ entry' = entry /\ pools' = pools /\ idle' = idle /\ count' = count /\ made' = made /\ failed' = failed
        /\ raced' = raced
        /\ UNCHANGED <<unanswered, pcChannel, confirmed, succeeded, interrupted>>
    BY <1>1 DEF poolVars, brokerVars
  <2>2. PointsOK'
    <3>1. pools <= pools /\ made <= made
      BY <1>1, Numbers
    <3> QED
      BY <1>1, <1>4, <1>5, <1>6, <2>1, <3>1, PointsKept DEF IInv
  <2>3. PoolsCounted'
    <3>1. AtMake' = AtMake \cup {c} /\ AtAdd' = AtAdd /\ c \notin AtMake /\ c \notin AtAdd
      BY <1>1, <1>3, <1>5, <1>8 DEF AtMake, AtAdd
    <3>2. AtMake \in SUBSET Callers /\ AtAdd \in SUBSET Callers /\ AtMake \cap AtAdd = {}
      BY DEF AtMake, AtAdd
    <3> DEFINE A == AtMake \cup AtAdd
    <3>3. /\ A \in SUBSET Callers /\ c \notin A
          /\ A \cup {c} \in SUBSET Callers
      BY <3>1, <3>2
    <3>4. Cardinality(A) = Cardinality(AtMake) + Cardinality(AtAdd)
      <4>1. Cardinality(AtMake \cap AtAdd) = 0
        BY <3>2, FS_EmptySet
      <4>2. Cardinality(AtMake \cup AtAdd)
              = Cardinality(AtMake) + Cardinality(AtAdd) - Cardinality(AtMake \cap AtAdd)
        BY <3>2, CallersFinite, FS_Union
      <4> QED
        BY <3>2, <4>1, <4>2, CallersFinite
    <3>5. Cardinality(A \cup {c}) = Cardinality(A) + 1
      BY <3>3, CallersFinite, FS_AddElement
    <3>6. Cardinality(A \cup {c}) <= Cardinality(Callers)
      BY <3>3, FS_Subset
    <3>7. Cardinality(AtMake') = Cardinality(AtMake) + 1
      BY <3>1, <3>2, CallersFinite, FS_AddElement
    <3>8. pools = Cardinality(AtAdd)
      BY <1>8 DEF IInv, PoolsCounted
    <3> HIDE DEF A
    <3>9. pools + Cardinality(AtMake') <= Cardinality(Callers)
      BY <3>2, <3>4, <3>5, <3>6, <3>7, <3>8, CallersFinite
    <3> QED
      BY <2>1, <3>1, <3>9 DEF IInv, PoolsCounted
  <2>4. MadeCounted'
    BY <2>1 DEF IInv, MadeCounted
  <2>5. Disjoint'
    BY <2>1 DEF IInv, Disjoint
  <2>6. UsedByOne'
    BY <1>4, <1>5, <2>1, UsersKept DEF IInv
  <2>7. OwnAnswers'
    BY <1>1, <1>3, <1>5, <1>8, <2>1, AnswersKept DEF IInv
  <2> QED
    BY <1>6, <2>2, <2>3, <2>4, <2>5, <2>6, <2>7 DEF IInv
<1> QED
  BY <1>7, <1>8

\* A pool is made: its maker leaves those that will make one.
LEMMA MakeInv == ASSUME IInv, NEW c \in Callers, PoolMake(c) PROVE IInv'
<1> USE PublisherAssumption
<1> DEFINE q == [caller[c] EXCEPT !.pc = "add", !.pool = pools + 1]
<1>1. /\ caller[c].pc = "make" /\ caller' = [caller EXCEPT ![c] = q] /\ pools' = pools + 1
      /\ raced' = (pools > 0)
      /\ connected' = connected /\ cancelled' = cancelled /\ entry' = entry /\ idle' = idle
      /\ count' = count /\ made' = made /\ failed' = failed /\ closed' = closed /\ sent' = sent
      /\ UNCHANGED <<unanswered, pcChannel, confirmed, succeeded, interrupted>>
      /\ TypeOK
  BY DEF PoolMake, IInv, brokerVars
<1>2. caller[c] \in CallerRecords /\ PointOK(caller[c], entry, pools, made)
  BY <1>1 DEF TypeOK, CallerRecords, IInv, PointsOK
<1>3. /\ AtMake' = AtMake \ {c} /\ AtAdd' = AtAdd \cup {c} /\ c \in AtMake /\ c \notin AtAdd
      /\ AtMake \in SUBSET Callers /\ AtAdd \in SUBSET Callers
  BY <1>1, <1>2 DEF AtMake, AtAdd, TypeOK, CallerRecords
<1>4. /\ Cardinality(AtMake') = Cardinality(AtMake) - 1 /\ Cardinality(AtMake) \in Nat
      /\ Cardinality(AtMake') \in Nat
  <2>1. AtMake' \in SUBSET Callers
    BY <1>3
  <2> QED
    BY <1>3, <2>1, CallersFinite, FS_RemoveElement
<1>5. Cardinality(AtAdd') = Cardinality(AtAdd) + 1
  BY <1>3, CallersFinite, FS_AddElement
<1>6. /\ pools \in Nat /\ pools + 1 \in Pools /\ pools + 1 \in 0..Cardinality(Callers)
      /\ pools' + Cardinality(AtMake') <= Cardinality(Callers)
  <2>1. pools \in Nat /\ pools + Cardinality(AtMake) <= Cardinality(Callers)
    BY <1>1, Numbers DEF IInv, PoolsCounted
  <2> QED
    BY <1>1, <1>4, <2>1, CallersFinite DEF Pools
<1>7. /\ q \in CallerRecords /\ q.pc = "add" /\ q.pool = pools + 1
      /\ q.pub = caller[c].pub /\ q.msg = caller[c].msg
  BY <1>2, <1>6 DEF CallerRecords
<1> HIDE DEF q
<1>8. PointOK(q, entry', pools', made') /\ q.pub = None
  <2>1. pools + 1 \in 1..pools' /\ pools + 1 # None
    BY <1>1, <1>6, NoneIsNone
  <2> QED
    BY <1>1, <1>2, <1>7, <2>1 DEF PointOK, Using
<1>9. /\ caller' \in [Callers -> CallerRecords] /\ caller'[c] = q
      /\ \A d \in Callers \ {c} : caller'[d] = caller[d]
  BY <1>1, <1>7, CallerTyped
<1>10. TypeOK'
  <2>1. (pools > 0) \in BOOLEAN
    OBVIOUS
  <2> QED
    BY <1>1, <1>6, <1>9, <2>1 DEF TypeOK, CallerRecords
<1>11. PointsOK'
  <2>1. pools <= pools' /\ made <= made'
    BY <1>1, Numbers
  <2> QED
    BY <1>1, <1>8, <1>9, <1>10, <2>1, PointsKept DEF IInv
<1>12. PoolsCounted'
  <2>1. entry' # None => entry' \in 1..pools'
    BY <1>1, <1>6 DEF IInv, PoolsCounted
  <2>2. entry' = None => pools' = Cardinality(AtAdd')
    BY <1>1, <1>5 DEF IInv, PoolsCounted
  <2>3. raced' <=> pools' > 1
    <3>1. pools' > 1 <=> pools > 0
      BY <1>1, <1>6
    <3> QED
      BY <1>1, <3>1, Zenon
  <2> QED
    BY <1>6, <2>1, <2>2, <2>3 DEF PoolsCounted
<1>13. MadeCounted'
  <2>1. \A k \in Pools : k > pools' => count'[k] = 0
    BY <1>1, <1>6, CallersFinite DEF IInv, MadeCounted, Pools
  <2>2. pools' # 0
    BY <1>1, <1>6
  <2>3. ASSUME pools' = 1 PROVE made' + failed' = count'[1]
    <3>1. pools = 0 /\ 1 \in Pools /\ 1 > pools
      BY <1>1, <1>6, <2>3
    <3> QED
      BY <1>1, <3>1 DEF IInv, MadeCounted
  <2> QED
    BY <2>1, <2>2, <2>3 DEF MadeCounted
<1>14. Disjoint'
  BY <1>1 DEF IInv, Disjoint
<1>15. UsedByOne'
  BY <1>1, <1>8, <1>9, UsersKept DEF IInv
<1>16. OwnAnswers'
  BY <1>1, <1>7, <1>9, AnswersKept DEF IInv
<1> QED
  BY <1>10, <1>11, <1>12, <1>13, <1>14, <1>15, <1>16 DEF IInv

\* The pool is added: the key has one from now on.
LEMMA AddInv == ASSUME IInv, NEW c \in Callers, PoolAdd(c) PROVE IInv'
<1> USE PublisherAssumption
<1> DEFINE q == [caller[c] EXCEPT !.pc = "get"]
<1>1. /\ caller[c].pc = "add" /\ caller' = [caller EXCEPT ![c] = q] /\ entry' = caller[c].pool
      /\ connected' = connected /\ cancelled' = cancelled /\ pools' = pools /\ idle' = idle
      /\ count' = count /\ made' = made /\ failed' = failed /\ closed' = closed /\ sent' = sent /\ raced' = raced
      /\ UNCHANGED <<unanswered, pcChannel, confirmed, succeeded, interrupted>>
      /\ TypeOK
  BY DEF PoolAdd, Goto, IInv, brokerVars
<1>2. caller[c] \in CallerRecords /\ PointOK(caller[c], entry, pools, made)
  BY <1>1 DEF TypeOK, CallerRecords, IInv, PointsOK
<1>3. entry' \in 1..pools /\ entry' \in Pools /\ entry' # None
  <2>1. entry' \in 1..pools /\ entry' # None
    BY <1>1, <1>2 DEF PointOK
  <2> QED
    BY <1>1, <1>2, <2>1 DEF CallerRecords
<1>4. /\ q \in CallerRecords /\ q.pc = "get" /\ q.pool = entry'
      /\ q.pub = caller[c].pub /\ q.msg = caller[c].msg
  BY <1>1, <1>2 DEF CallerRecords
<1> HIDE DEF q
<1>5. PointOK(q, entry', pools', made') /\ q.pub = None
  BY <1>1, <1>2, <1>3, <1>4 DEF PointOK, Using
<1>6. /\ caller' \in [Callers -> CallerRecords] /\ caller'[c] = q
      /\ \A d \in Callers \ {c} : caller'[d] = caller[d]
  BY <1>1, <1>4, CallerTyped
<1>7. TypeOK'
  BY <1>1, <1>3, <1>6 DEF TypeOK, CallerRecords
<1>8. PointsOK'
  <2>1. pools <= pools' /\ made <= made'
    BY <1>1, Numbers
  <2> QED
    BY <1>1, <1>3, <1>5, <1>6, <1>7, <2>1, PointsKept DEF IInv
<1>9. PoolsCounted'
  <2>1. AtMake' = AtMake
    BY <1>1, <1>4, <1>6 DEF AtMake
  <2> QED
    BY <1>1, <1>3, <2>1 DEF IInv, PoolsCounted
<1>10. MadeCounted'
  BY <1>1 DEF IInv, MadeCounted
<1>11. Disjoint'
  BY <1>1 DEF IInv, Disjoint
<1>12. UsedByOne'
  BY <1>1, <1>5, <1>6, UsersKept DEF IInv
<1>13. OwnAnswers'
  BY <1>1, <1>4, <1>6, AnswersKept DEF IInv
<1> QED
  BY <1>7, <1>8, <1>9, <1>10, <1>11, <1>12, <1>13 DEF IInv

\* What stays as it is when a caller gets a publisher, or nil.
LEMMA GotInv ==
    ASSUME IInv, TypeOK', NEW c \in Callers, caller[c].pc = "get",
           \A d \in Callers \ {c} : caller'[d] = caller[d],
           caller'[c].pc \in {"publish", "get", "idle"},
           PointOK(caller'[c], entry', pools', made'),
           made <= made',
           entry' = entry, pools' = pools, raced' = raced,
           UNCHANGED <<unanswered, pcChannel, confirmed, succeeded, interrupted>>
    PROVE  PointsOK' /\ PoolsCounted' /\ OwnAnswers'
<1>1. PointsOK'
  <2>1. pools <= pools'
    BY Numbers DEF IInv
  <2> QED
    BY <2>1, PointsKept DEF IInv
<1>2. AtMake' = AtMake /\ AtAdd' = AtAdd
  BY DEF AtMake, AtAdd
<1>3. PoolsCounted'
  BY <1>2 DEF IInv, PoolsCounted
<1>4. OwnAnswers'
  BY AnswersKept DEF IInv
<1> QED
  BY <1>1, <1>3, <1>4

\* A slot is used for a publisher or for a failure to make one.
LEMMA SlotUsed ==
    ASSUME IInv, NEW k \in Pools, k \in 1..pools, pools' = pools,
           count' = [count EXCEPT ![k] = @ + 1],
           \/ made' = made + 1 /\ failed' = failed
           \/ made' = made /\ failed' = failed + 1
    PROVE  MadeCounted'
<1>1. /\ pools \in Nat /\ made \in Nat /\ failed \in Nat
      /\ count \in [Pools -> 0..Limit] /\ count[k] \in Nat
  BY Numbers, PublisherAssumption DEF IInv, TypeOK
<1>2. count'[k] = count[k] + 1 /\ \A j \in Pools \ {k} : count'[j] = count[j]
  BY <1>1
<1>3. \A j \in Pools : j > pools' => count'[j] = 0
  <2> SUFFICES ASSUME NEW j \in Pools, j > pools PROVE count'[j] = 0
    OBVIOUS
  <2>1. j # k
    BY <1>1, CallersFinite DEF Pools
  <2> QED
    BY <1>2, <2>1 DEF IInv, MadeCounted
<1>4. pools' # 0
  BY <1>1
<1>5. ASSUME pools' = 1 PROVE made' + failed' = count'[1]
  <2>1. k = 1 /\ pools = 1
    BY <1>1, <1>5
  <2>2. made + failed = count[1]
    BY <2>1 DEF IInv, MadeCounted
  <2> QED
    BY <1>1, <1>2, <2>1, <2>2
<1> QED
  BY <1>3, <1>4, <1>5 DEF MadeCounted

\* A caller that got nil tries again or returns, without a publisher.
LEMMA NilFacts ==
    ASSUME TypeOK, NEW c \in Callers, caller[c].pc = "get", ReturnNil(c),
           PointOK(caller[c], entry, pools, made)
    PROVE  /\ caller' \in [Callers -> CallerRecords]
           /\ \A d \in Callers \ {c} : caller'[d] = caller[d]
           /\ caller'[c].pc \in {"get", "idle"} /\ caller'[c].pub = None
           /\ PointOK(caller'[c], entry, pools, made)
<1>1. caller[c] \in CallerRecords
  BY DEF TypeOK, CallerRecords
<1>2. CASE caller[c].tries + 1 < MaxTries
  <2> DEFINE q == [caller[c] EXCEPT !.tries = @ + 1]
  <2>1. caller[c].tries + 1 \in 0..MaxTries
    BY <1>1, <1>2, PublisherAssumption DEF CallerRecords
  <2>2. /\ q \in CallerRecords /\ q.pc = "get" /\ q.pub = caller[c].pub
        /\ q.pool = caller[c].pool /\ q.msg = caller[c].msg
    BY <1>1, <2>1 DEF CallerRecords
  <2>3. caller' = [caller EXCEPT ![c] = q]
    BY <1>2 DEF ReturnNil
  <2>4. q.pub = None /\ PointOK(q, entry, pools, made)
    BY <2>2 DEF PointOK, Using
  <2> HIDE DEF q
  <2> QED
    BY <2>2, <2>3, <2>4, CallerTyped
<1>3. CASE ~(caller[c].tries + 1 < MaxTries)
  <2>1. caller' = [caller EXCEPT ![c] = Idle]
    BY <1>3 DEF ReturnNil
  <2> QED
    BY <2>1, IdleOK, CallerTyped
<1> QED
  BY <1>2, <1>3

\* Get takes an idle publisher, makes one below the limit, or returns nil.
LEMMA GetInv == ASSUME IInv, NEW c \in Callers, PoolGet(c) PROVE IInv'
<1> USE PublisherAssumption
<1> DEFINE k == caller[c].pool
<1>1. /\ caller[c].pc = "get"
      /\ connected' = connected /\ cancelled' = cancelled /\ entry' = entry /\ pools' = pools
      /\ closed' = closed /\ sent' = sent /\ raced' = raced
      /\ UNCHANGED <<unanswered, pcChannel, confirmed, succeeded, interrupted>>
      /\ TypeOK
  BY DEF PoolGet, IInv, brokerVars
<1>2. caller[c] \in CallerRecords /\ PointOK(caller[c], entry, pools, made)
  BY <1>1 DEF TypeOK, CallerRecords, IInv, PointsOK
<1>3. k \in Pools /\ k \in 1..pools /\ entry # None /\ caller[c].msg \in Messages
  BY <1>1, <1>2 DEF PointOK, CallerRecords
<1>4. \A p \in Publishers : /\ [caller[c] EXCEPT !.pc = "publish", !.pub = p] \in CallerRecords
                            /\ [caller[c] EXCEPT !.pc = "publish", !.pub = p].pc = "publish"
                            /\ [caller[c] EXCEPT !.pc = "publish", !.pub = p].pub = p
                            /\ [caller[c] EXCEPT !.pc = "publish", !.pub = p].pool = k
                            /\ [caller[c] EXCEPT !.pc = "publish", !.pub = p].msg = caller[c].msg
  BY <1>2 DEF CallerRecords
<1>5. ASSUME NEW p \in idle[k], idle' = [idle EXCEPT ![k] = @ \ {p}],
             caller' = [caller EXCEPT ![c].pc = "publish", ![c].pub = p],
             UNCHANGED <<made, failed, count>>
      PROVE  IInv'
  <2> DEFINE q == [caller[c] EXCEPT !.pc = "publish", !.pub = p]
  <2>1. p \in Publishers /\ p \in 1..made
    BY <1>1, <1>3 DEF IInv, Disjoint, TypeOK
  <2>2. q \in CallerRecords /\ q.pc = "publish" /\ q.pub = p /\ q.pool = k /\ q.msg = caller[c].msg
    BY <1>4, <2>1
  <2>3. caller' = [caller EXCEPT ![c] = q]
    BY <1>5
  <2> HIDE DEF q
  <2>4. PointOK(q, entry', pools', made')
    BY <1>1, <1>3, <1>5, <2>1, <2>2 DEF PointOK, Using
  <2>5. /\ caller' \in [Callers -> CallerRecords] /\ caller'[c] = q
        /\ \A d \in Callers \ {c} : caller'[d] = caller[d]
    BY <1>1, <2>2, <2>3, CallerTyped
  <2>6. idle \in [Pools -> SUBSET Publishers]
    BY <1>1 DEF TypeOK
  <2>7. idle'[k] = idle[k] \ {p} /\ \A j \in Pools \ {k} : idle'[j] = idle[j]
    BY <1>3, <1>5, <2>6
  <2>8. TypeOK'
    <3>1. idle' \in [Pools -> SUBSET Publishers]
      BY <1>5, <2>6
    <3>2. IsFiniteSet(idle[k])
      <4>1. IsFiniteSet(1..MaxPublishers)
        BY FS_Interval
      <4> QED
        BY <1>3, <2>6, <4>1, FS_Subset DEF Publishers
    <3>3. Cardinality(idle'[k]) <= Limit
      <4>1. Cardinality(idle'[k]) = Cardinality(idle[k]) - 1 /\ Cardinality(idle[k]) \in Nat
        BY <2>7, <3>2, FS_RemoveElement, FS_CardinalityType
      <4>2. Cardinality(idle[k]) <= Limit
        BY <1>1, <1>3 DEF TypeOK
      <4> QED
        BY <4>1, <4>2
    <3>4. \A j \in Pools : Cardinality(idle'[j]) <= Limit
      BY <1>1, <2>7, <3>3 DEF TypeOK
    <3> QED
      BY <1>1, <1>5, <2>5, <3>1, <3>4 DEF TypeOK, CallerRecords
  <2>9. PointsOK' /\ PoolsCounted' /\ OwnAnswers'
    <3>1. made <= made'
      BY <1>1, <1>5, Numbers
    <3> QED
      BY <1>1, <2>2, <2>4, <2>5, <2>8, <3>1, GotInv
  <2>10. MadeCounted'
    BY <1>1, <1>5 DEF IInv, MadeCounted
  <2>11. Disjoint'
    BY <1>5, <2>7 DEF IInv, Disjoint
  <2>12. UsedByOne'
    <3>1. \A d \in Callers : caller[d].pub # p
      BY <1>3, <2>1, NoneIsNone DEF IInv, UsedByOne
    <3>2. \A j \in Pools : p \notin idle'[j]
      BY <1>3, <2>7 DEF IInv, Disjoint
    <3>3. \A j \in Pools : idle'[j] \subseteq idle[j]
      BY <2>7
    <3> QED
      BY <2>2, <2>5, <3>1, <3>2, <3>3 DEF IInv, UsedByOne
  <2> QED
    BY <2>8, <2>9, <2>10, <2>11, <2>12 DEF IInv
<1>6. ASSUME idle[k] = {}, count[k] < Limit, made < MaxPublishers,
             count' = [count EXCEPT ![k] = @ + 1], made' = made + 1, failed' = failed,
             caller' = [caller EXCEPT ![c].pc = "publish", ![c].pub = made + 1],
             UNCHANGED idle
      PROVE  IInv'
  <2> DEFINE q == [caller[c] EXCEPT !.pc = "publish", !.pub = made + 1]
  <2>1. made \in Nat /\ made + 1 \in Publishers /\ made + 1 \in 0..MaxPublishers
    BY <1>1, <1>6, Numbers DEF Publishers
  <2>2. /\ q \in CallerRecords /\ q.pc = "publish" /\ q.pub = made + 1 /\ q.pool = k
        /\ q.msg = caller[c].msg
    BY <1>4, <2>1
  <2>3. caller' = [caller EXCEPT ![c] = q]
    BY <1>6
  <2> HIDE DEF q
  <2>4. PointOK(q, entry', pools', made')
    <3>1. made + 1 \in 1..made'
      BY <1>6, <2>1
    <3> QED
      BY <1>1, <1>3, <2>2, <3>1 DEF PointOK, Using
  <2>5. /\ caller' \in [Callers -> CallerRecords] /\ caller'[c] = q
        /\ \A d \in Callers \ {c} : caller'[d] = caller[d]
    BY <1>1, <2>2, <2>3, CallerTyped
  <2>6. count \in [Pools -> 0..Limit] /\ count[k] \in 0..Limit /\ count[k] + 1 \in 0..Limit
    BY <1>1, <1>3, <1>6 DEF TypeOK
  <2>7. count' \in [Pools -> 0..Limit] /\ count'[k] = count[k] + 1
        /\ \A j \in Pools \ {k} : count'[j] = count[j]
    BY <1>3, <1>6, <2>6
  <2>8. TypeOK'
    BY <1>1, <1>6, <2>1, <2>5, <2>7 DEF TypeOK, CallerRecords
  <2>9. PointsOK' /\ PoolsCounted' /\ OwnAnswers'
    <3>1. made <= made'
      BY <1>6, <2>1
    <3> QED
      BY <1>1, <2>2, <2>4, <2>5, <2>8, <3>1, GotInv
  <2>10. MadeCounted'
    BY <1>1, <1>3, <1>6, SlotUsed
  <2>11. Disjoint'
    <3>1. 1..made \subseteq 1..made'
      BY <1>6, <2>1
    <3> QED
      BY <1>6, <3>1 DEF IInv, Disjoint
  <2>12. UsedByOne'
    <3>1. made + 1 \notin 1..made
      BY <2>1
    <3>2. \A d \in Callers : caller[d].pub # made + 1
      <4> SUFFICES ASSUME NEW d \in Callers PROVE caller[d].pub # made + 1
        OBVIOUS
      <4>1. caller[d].pub = None \/ caller[d].pub \in 1..made
        BY DEF IInv, PointsOK, PointOK
      <4> QED
        BY <2>1, <3>1, <4>1, NoneIsNone
    <3>3. \A j \in Pools : made + 1 \notin idle[j]
      BY <3>1 DEF IInv, Disjoint
    <3> QED
      BY <1>6, <2>2, <2>5, <3>2, <3>3 DEF IInv, UsedByOne
  <2> QED
    BY <2>8, <2>9, <2>10, <2>11, <2>12 DEF IInv
<1>7. ASSUME ReturnNil(c), UNCHANGED <<idle, made>>,
             \/ UNCHANGED <<failed, count>>
             \/ /\ count[k] < Limit /\ count' = [count EXCEPT ![k] = @ + 1]
                /\ failed' = failed + 1
      PROVE  IInv'
  <2>1. /\ caller' \in [Callers -> CallerRecords]
        /\ \A d \in Callers \ {c} : caller'[d] = caller[d]
        /\ caller'[c].pc \in {"get", "idle"} /\ caller'[c].pub = None
        /\ PointOK(caller'[c], entry, pools, made)
    BY <1>1, <1>2, <1>7, NilFacts
  <2>2. failed' \in Nat /\ count' \in [Pools -> 0..Limit] /\ MadeCounted'
    <3>1. CASE UNCHANGED <<failed, count>>
      BY <1>1, <1>7, <3>1 DEF TypeOK, IInv, MadeCounted
    <3>2. CASE /\ count[k] < Limit /\ count' = [count EXCEPT ![k] = @ + 1]
               /\ failed' = failed + 1
      <4>1. /\ count \in [Pools -> 0..Limit] /\ count[k] \in 0..Limit
            /\ count[k] + 1 \in 0..Limit /\ failed \in Nat
        BY <1>1, <1>3, <3>2 DEF TypeOK
      <4>2. count' \in [Pools -> 0..Limit] /\ failed' \in Nat
        BY <1>3, <3>2, <4>1
      <4>3. MadeCounted'
        BY <1>1, <1>3, <1>7, <3>2, SlotUsed
      <4> QED
        BY <4>2, <4>3
    <3> QED
      BY <1>7, <3>1, <3>2
  <2>3. TypeOK'
    BY <1>1, <1>7, <2>1, <2>2 DEF TypeOK, CallerRecords
  <2>4. PointsOK' /\ PoolsCounted' /\ OwnAnswers'
    <3>1. made <= made'
      BY <1>1, <1>7, Numbers
    <3> QED
      BY <1>1, <1>7, <2>1, <2>3, <3>1, GotInv
  <2>5. Disjoint'
    BY <1>7 DEF IInv, Disjoint
  <2>6. UsedByOne'
    BY <1>7, <2>1, UsersKept DEF IInv
  <2> QED
    BY <2>2, <2>3, <2>4, <2>5, <2>6 DEF IInv
<1> HIDE DEF k
<1>8. \/ \E p \in idle[k] : /\ idle' = [idle EXCEPT ![k] = @ \ {p}]
                            /\ caller' = [caller EXCEPT ![c].pc = "publish", ![c].pub = p]
                            /\ UNCHANGED <<made, failed, count>>
      \/ idle[k] = {} /\ newPublisher(c, k) /\ UNCHANGED idle
      \/ ReturnNil(c) /\ UNCHANGED <<idle, made, failed, count>>
  BY DEF PoolGet, k
<1> QED
  BY <1>5, <1>6, <1>7, <1>8 DEF newPublisher
-----------------------------------------------------------------------------
\* A caller that goes on with its publisher.
LEMMA UseMove ==
    ASSUME IInv, TypeOK', NEW c \in Callers,
           \A d \in Callers \ {c} : caller'[d] = caller[d],
           caller[c].pc \in Using, caller'[c].pc \in Using,
           caller'[c].pub = caller[c].pub, caller'[c].pool = caller[c].pool,
           caller'[c].msg = caller[c].msg,
           UNCHANGED poolVars
    PROVE  PointsOK' /\ PoolsCounted' /\ MadeCounted' /\ Disjoint' /\ UsedByOne'
<1>1. /\ entry' = entry /\ pools' = pools /\ idle' = idle /\ count' = count /\ made' = made /\ failed' = failed
      /\ raced' = raced
  BY DEF poolVars
<1>2. PointOK(caller'[c], entry', pools', made')
  <2>1. PointOK(caller[c], entry, pools, made)
    BY DEF IInv, PointsOK
  <2> QED
    BY <1>1, <2>1 DEF PointOK, Using
<1>3. PointsOK'
  <2>1. pools <= pools /\ made <= made
    BY Numbers DEF IInv
  <2> QED
    BY <1>1, <1>2, <2>1, PointsKept DEF IInv
<1>4. AtMake' = AtMake /\ AtAdd' = AtAdd
  BY DEF AtMake, AtAdd, Using
<1>5. PoolsCounted'
  BY <1>1, <1>4 DEF IInv, PoolsCounted
<1>6. MadeCounted'
  BY <1>1 DEF IInv, MadeCounted
<1>7. Disjoint'
  BY <1>1 DEF IInv, Disjoint
<1>8. UsedByOne'
  BY <1>1, UsersKept DEF IInv
<1> QED
  BY <1>3, <1>5, <1>6, <1>7, <1>8

\* The point of a caller changes and nothing else of it.
LEMMA GotoFacts ==
    ASSUME TypeOK, NEW c \in Callers,
           NEW point \in {"idle", "connect", "lookup", "make", "add", "get", "publish",
                          "await", "put"},
           Goto(c, point)
    PROVE  /\ caller' \in [Callers -> CallerRecords]
           /\ \A d \in Callers \ {c} : caller'[d] = caller[d]
           /\ caller'[c].pc = point /\ caller'[c].pub = caller[c].pub
           /\ caller'[c].pool = caller[c].pool /\ caller'[c].msg = caller[c].msg
<1> DEFINE q == [caller[c] EXCEPT !.pc = point]
<1>1. caller[c] \in CallerRecords
  BY DEF TypeOK, CallerRecords
<1>2. /\ q \in CallerRecords /\ q.pc = point /\ q.pub = caller[c].pub
      /\ q.pool = caller[c].pool /\ q.msg = caller[c].msg
  BY <1>1 DEF CallerRecords
<1>3. caller' = [caller EXCEPT ![c] = q]
  BY DEF Goto
<1> HIDE DEF q
<1> QED
  BY <1>2, <1>3, CallerTyped

\* A publisher in use is one of those made, and only its user awaits it.
LEMMA InUse ==
    ASSUME IInv, NEW c \in Callers, caller[c].pc \in Using
    PROVE  /\ caller[c].pub \in Publishers /\ caller[c].msg \in Messages /\ entry \in Pools
           /\ \A d \in Callers \ {c} : caller[d].pub # caller[c].pub
           /\ \A k \in Pools : caller[c].pub \notin idle[k]
           /\ caller[c].pub \in 1..made
<1>1. /\ PointOK(caller[c], entry, pools, made) /\ caller[c].pub \in Publishers \cup {None}
      /\ entry \in Pools \cup {None} /\ made \in Nat
  BY Numbers DEF IInv, PointsOK, TypeOK
<1>2. caller[c].pub \in 1..made /\ caller[c].msg \in Messages /\ entry # None
  BY <1>1 DEF PointOK, Using
<1>3. caller[c].pub # None
  BY <1>1, <1>2, NoneIsNone
<1> QED
  BY <1>1, <1>2, <1>3 DEF IInv, UsedByOne

\* The message joins an empty queue: its sender is the only user of the publisher.
LEMMA PublishInv == ASSUME IInv, NEW c \in Callers, Publish(c) PROVE IInv'
<1> USE PublisherAssumption
<1> DEFINE p == caller[c].pub
           m == caller[c].msg
<1>1. /\ caller[c].pc = "publish"
      /\ UNCHANGED <<connected, cancelled, poolVars, pcChannel, confirmed, sent, interrupted>>
      /\ TypeOK
  BY DEF Publish, IInv
<1>2. p \in Publishers /\ m \in Messages /\ \A d \in Callers \ {c} : caller[d].pub # p
  BY <1>1, InUse DEF Using
<1>3. ASSUME unanswered' = [unanswered EXCEPT ![p] = Append(@, m)], Goto(c, "await"),
             UNCHANGED succeeded
      PROVE  IInv'
  <2>1. /\ caller' \in [Callers -> CallerRecords]
        /\ \A d \in Callers \ {c} : caller'[d] = caller[d]
        /\ caller'[c].pc = "await" /\ caller'[c].pub = p
        /\ caller'[c].pool = caller[c].pool /\ caller'[c].msg = m
    BY <1>1, <1>3, GotoFacts
  <2>2. unanswered \in [Publishers -> Seq(Messages)] /\ unanswered[p] \in Seq(Messages)
    BY <1>1, <1>2 DEF TypeOK
  <2>3. Append(unanswered[p], m) \in Seq(Messages)
    BY <1>2, <2>2
  <2>4. /\ unanswered' \in [Publishers -> Seq(Messages)]
        /\ unanswered'[p] = Append(unanswered[p], m)
        /\ \A o \in Publishers \ {p} : unanswered'[o] = unanswered[o]
    BY <1>2, <1>3, <2>2, <2>3
  <2>5. TypeOK'
    BY <1>1, <1>3, <2>1, <2>4 DEF TypeOK, CallerRecords, poolVars
  <2>6. PointsOK' /\ PoolsCounted' /\ MadeCounted' /\ Disjoint' /\ UsedByOne'
    BY <1>1, <2>1, <2>5, UseMove DEF Using
  <2>7. OwnAnswers'
    <3>1. /\ pcChannel' = pcChannel /\ confirmed' = confirmed /\ succeeded' = succeeded
          /\ interrupted' = interrupted
      BY <1>1, <1>3
    <3> SUFFICES ASSUME Confirm, interrupted = {}
                 PROVE  /\ succeeded \subseteq confirmed
                        /\ \A d \in Callers : caller'[d].pc = "await"
                                               => InFlight(caller[d].pub, caller[d].msg)'
                        /\ \A o \in Publishers : (\A d \in Callers : ~Awaits(d, o)')
                              => unanswered'[o] = <<>> /\ pcChannel[o] = <<>>
      BY <3>1 DEF OwnAnswers
    <3>2. unanswered[p] = <<>> /\ pcChannel[p] = <<>>
      <4>1. \A d \in Callers : ~Awaits(d, p)
        BY <1>1, <1>2 DEF Awaits
      <4> QED
        BY <1>2, <4>1 DEF IInv, OwnAnswers
    <3>3. unanswered'[p] = <<m>>
      BY <2>4, <3>2
    <3>4. ASSUME NEW d \in Callers, caller'[d].pc = "await"
          PROVE  InFlight(caller[d].pub, caller[d].msg)'
      <4>1. CASE d = c
        BY <2>1, <3>1, <3>2, <3>3, <4>1 DEF InFlight
      <4>2. CASE d # c
        <5>1. caller'[d] = caller[d] /\ caller[d].pc = "await" /\ caller[d].pub # p
          BY <1>2, <2>1, <3>4, <4>2
        <5>2. InFlight(caller[d].pub, caller[d].msg) /\ caller[d].pub \in Publishers
          BY <5>1, InUse DEF IInv, OwnAnswers, Using
        <5>3. unanswered'[caller[d].pub] = unanswered[caller[d].pub]
          BY <2>4, <5>1, <5>2
        <5> QED
          BY <3>1, <5>1, <5>2, <5>3 DEF InFlight
      <4> QED
        BY <4>1, <4>2
    <3>5. ASSUME NEW o \in Publishers, \A d \in Callers : ~Awaits(d, o)'
          PROVE  unanswered'[o] = <<>> /\ pcChannel[o] = <<>>
      <4>1. o # p
        BY <2>1, <3>5 DEF Awaits
      <4>2. \A d \in Callers : ~Awaits(d, o)
        <5>1. ASSUME NEW d \in Callers, Awaits(d, o) PROVE FALSE
          <6>1. d # c
            BY <1>1, <5>1 DEF Awaits
          <6>2. Awaits(d, o)'
            BY <2>1, <5>1, <6>1 DEF Awaits
          <6> QED
            BY <3>5, <6>2
        <5> QED
          BY <5>1
      <4> QED
        BY <2>4, <4>1, <4>2 DEF IInv, OwnAnswers
    <3> QED
      BY <3>4, <3>5 DEF IInv, OwnAnswers
  <2> QED
    BY <2>5, <2>6, <2>7 DEF IInv
<1>4. ASSUME Goto(c, "put"), UNCHANGED unanswered,
             succeeded' = succeeded \/ (~Confirm /\ succeeded' = succeeded \cup {m})
      PROVE  IInv'
  <2>1. /\ caller' \in [Callers -> CallerRecords]
        /\ \A d \in Callers \ {c} : caller'[d] = caller[d]
        /\ caller'[c].pc = "put" /\ caller'[c].pub = p
        /\ caller'[c].pool = caller[c].pool /\ caller'[c].msg = m
    BY <1>1, <1>4, GotoFacts
  <2>2. TypeOK'
    <3>1. succeeded' \subseteq Messages
      BY <1>1, <1>2, <1>4 DEF TypeOK
    <3> QED
      BY <1>1, <1>4, <2>1, <3>1 DEF TypeOK, CallerRecords, poolVars
  <2>3. PointsOK' /\ PoolsCounted' /\ MadeCounted' /\ Disjoint' /\ UsedByOne'
    BY <1>1, <2>1, <2>2, UseMove DEF Using
  <2>4. OwnAnswers'
    <3>1. CASE succeeded' = succeeded
      BY <1>1, <1>4, <2>1, <3>1, AnswersKept DEF IInv
    <3>2. CASE ~Confirm
      BY <3>2 DEF OwnAnswers
    <3> QED
      BY <1>4, <3>1, <3>2
  <2> QED
    BY <2>2, <2>3, <2>4 DEF IInv
<1> HIDE DEF p, m
<1> QED
  BY <1>3, <1>4 DEF Publish, p, m

\* An answer: the message at the head is the one its sender awaits, or a caller has
\* given up.
LEMMA AnswerInv == ASSUME IInv, NEW p \in Publishers, Answer(p) PROVE IInv'
<1> USE PublisherAssumption
<1> DEFINE h == Head(unanswered[p])
<1>1. PICK ok \in BOOLEAN :
        /\ pcChannel' = [pcChannel EXCEPT ![p] = <<[msg |-> h, ok |-> ok]>>]
        /\ confirmed' = IF ok THEN confirmed \cup {h} ELSE confirmed
  BY DEF Answer
<1>2. /\ unanswered[p] # <<>> /\ pcChannel[p] = <<>>
      /\ unanswered' = [unanswered EXCEPT ![p] = Tail(@)]
      /\ caller' = caller /\ succeeded' = succeeded /\ interrupted' = interrupted
      /\ entry' = entry /\ pools' = pools /\ idle' = idle /\ count' = count /\ made' = made /\ failed' = failed
      /\ raced' = raced /\ closed' = closed /\ sent' = sent /\ connected' = connected
      /\ cancelled' = cancelled
      /\ TypeOK
  BY DEF Answer, IInv, poolVars
<1>3. /\ unanswered \in [Publishers -> Seq(Messages)] /\ unanswered[p] \in Seq(Messages)
      /\ pcChannel \in [Publishers -> Seq([msg : Messages, ok : BOOLEAN])]
  BY <1>2 DEF TypeOK
<1>4. h \in Messages /\ Tail(unanswered[p]) \in Seq(Messages)
  BY <1>2, <1>3
<1> HIDE DEF h
<1> DEFINE a == [msg |-> h, ok |-> ok]
<1>5. a \in [msg : Messages, ok : BOOLEAN]
  BY <1>4
<1>6. pcChannel' = [pcChannel EXCEPT ![p] = <<a>>]
  BY <1>1
<1> HIDE DEF a
<1>7. <<a>> \in Seq([msg : Messages, ok : BOOLEAN]) /\ Len(<<a>>) = 1
  BY <1>5
<1>8. /\ pcChannel' \in [Publishers -> Seq([msg : Messages, ok : BOOLEAN])]
      /\ pcChannel'[p] = <<a>>
      /\ \A o \in Publishers \ {p} : pcChannel'[o] = pcChannel[o]
  BY <1>3, <1>6, <1>7
<1>9. /\ unanswered' \in [Publishers -> Seq(Messages)]
      /\ unanswered'[p] = Tail(unanswered[p])
      /\ \A o \in Publishers \ {p} : unanswered'[o] = unanswered[o]
  BY <1>2, <1>3, <1>4
<1>10. confirmed' \subseteq Messages /\ confirmed \subseteq confirmed'
  <2>1. confirmed \subseteq Messages
    BY <1>2 DEF TypeOK
  <2> QED
    BY <1>1, <1>4, <2>1
<1>11. TypeOK'
  <2>1. \A o \in Publishers : Len(pcChannel'[o]) <= 1
    <3>1. Len(pcChannel'[p]) <= 1
      BY <1>7, <1>8
    <3>2. \A o \in Publishers : Len(pcChannel[o]) <= 1
      BY <1>2 DEF TypeOK
    <3> QED
      BY <1>8, <3>1, <3>2
  <2> QED
    BY <1>2, <1>8, <1>9, <1>10, <2>1 DEF TypeOK
<1>12. PointsOK' /\ PoolsCounted' /\ MadeCounted' /\ Disjoint' /\ UsedByOne'
  <2>1. PointsOK'
    BY <1>2 DEF IInv, PointsOK
  <2>2. AtMake' = AtMake /\ AtAdd' = AtAdd
    BY <1>2 DEF AtMake, AtAdd
  <2>3. PoolsCounted'
    BY <1>2, <2>2 DEF IInv, PoolsCounted
  <2>4. MadeCounted' /\ Disjoint' /\ UsedByOne'
    BY <1>2 DEF IInv, MadeCounted, Disjoint, UsedByOne
  <2> QED
    BY <2>1, <2>3, <2>4
<1>13. OwnAnswers'
  <2> SUFFICES ASSUME Confirm, interrupted = {}
               PROVE  /\ succeeded \subseteq confirmed'
                      /\ \A d \in Callers : caller[d].pc = "await"
                                             => InFlight(caller[d].pub, caller[d].msg)'
                      /\ \A o \in Publishers : (\A d \in Callers : ~Awaits(d, o))
                            => unanswered'[o] = <<>> /\ pcChannel'[o] = <<>>
    BY <1>2 DEF OwnAnswers, Awaits
  <2>1. ASSUME NEW d \in Callers, caller[d].pc = "await"
        PROVE  InFlight(caller[d].pub, caller[d].msg)'
    <3>1. InFlight(caller[d].pub, caller[d].msg) /\ caller[d].pub \in Publishers
      BY <2>1, InUse DEF IInv, OwnAnswers, Using
    <3>2. CASE caller[d].pub = p
      <4>1. unanswered[p] = <<caller[d].msg>>
        BY <1>2, <3>1, <3>2 DEF InFlight
      <4>2. h = caller[d].msg /\ unanswered'[p] = <<>>
        BY <1>9, <4>1 DEF h
      <4>3. pcChannel'[p] = <<[msg |-> caller[d].msg, ok |-> ok]>> /\ (ok => caller[d].msg \in confirmed')
        BY <1>1, <1>8, <4>2 DEF a
      <4> QED
        BY <1>2, <3>2, <4>2, <4>3 DEF InFlight
    <3>3. CASE caller[d].pub # p
      <4>1. /\ unanswered'[caller[d].pub] = unanswered[caller[d].pub]
            /\ pcChannel'[caller[d].pub] = pcChannel[caller[d].pub]
        BY <1>8, <1>9, <3>1, <3>3
      <4> QED
        BY <1>2, <1>10, <3>1, <4>1 DEF InFlight
    <3> QED
      BY <3>2, <3>3
  <2>2. ASSUME NEW o \in Publishers, \A d \in Callers : ~Awaits(d, o)
        PROVE  unanswered'[o] = <<>> /\ pcChannel'[o] = <<>>
    <3>1. unanswered[o] = <<>> /\ pcChannel[o] = <<>>
      BY <2>2 DEF IInv, OwnAnswers
    <3> QED
      BY <1>2, <1>8, <1>9, <3>1
  <2>3. succeeded \subseteq confirmed'
    BY <1>10 DEF IInv, OwnAnswers
  <2> QED
    BY <2>1, <2>2, <2>3
<1> QED
  BY <1>11, <1>12, <1>13 DEF IInv

\* The empty sequence is one of every element type.
LEMMA EmptyIsSeq == ASSUME NEW T PROVE <<>> \in Seq(T)
OBVIOUS

\* The answer that a caller takes is the one of its message, unless a caller has
\* given up.
LEMMA AwaitInv == ASSUME IInv, NEW c \in Callers, Await(c) PROVE IInv'
<1> USE PublisherAssumption
<1> DEFINE p == caller[c].pub
           m == caller[c].msg
<1>1. /\ caller[c].pc = "await" /\ pcChannel[p] # <<>> /\ Goto(c, "put")
      /\ pcChannel' = [pcChannel EXCEPT ![p] = <<>>]
      /\ succeeded' = IF Head(pcChannel[p]).ok THEN succeeded \cup {m} ELSE succeeded
      /\ unanswered' = unanswered /\ confirmed' = confirmed /\ interrupted' = interrupted
      /\ sent' = sent /\ connected' = connected /\ cancelled' = cancelled
      /\ UNCHANGED poolVars
      /\ TypeOK
  BY DEF Await, IInv
<1>2. p \in Publishers /\ m \in Messages /\ \A d \in Callers \ {c} : caller[d].pub # p
  BY <1>1, InUse DEF Using
<1>3. /\ caller' \in [Callers -> CallerRecords]
      /\ \A d \in Callers \ {c} : caller'[d] = caller[d]
      /\ caller'[c].pc = "put" /\ caller'[c].pub = p
      /\ caller'[c].pool = caller[c].pool /\ caller'[c].msg = m
  BY <1>1, GotoFacts
<1> HIDE DEF p, m
<1>4. pcChannel \in [Publishers -> Seq([msg : Messages, ok : BOOLEAN])]
  BY <1>1 DEF TypeOK
<1>5. /\ pcChannel' \in [Publishers -> Seq([msg : Messages, ok : BOOLEAN])]
      /\ pcChannel'[p] = <<>>
      /\ \A o \in Publishers \ {p} : pcChannel'[o] = pcChannel[o]
  <2> DEFINE S == Seq([msg : Messages, ok : BOOLEAN])
  <2>1. <<>> \in S /\ pcChannel \in [Publishers -> S]
    BY <1>4, EmptyIsSeq
  <2> HIDE DEF S
  <2>2. /\ pcChannel' \in [Publishers -> S] /\ pcChannel'[p] = <<>>
        /\ \A o \in Publishers \ {p} : pcChannel'[o] = pcChannel[o]
    BY <1>1, <1>2, <2>1
  <2> QED
    BY <2>2 DEF S
<1>6. TypeOK'
  <2>1. \A o \in Publishers : Len(pcChannel'[o]) <= 1
    BY <1>1, <1>5 DEF TypeOK
  <2>2. succeeded' \subseteq Messages
    BY <1>1, <1>2 DEF TypeOK
  <2> QED
    BY <1>1, <1>3, <1>5, <2>1, <2>2 DEF TypeOK, CallerRecords, poolVars
<1>7. PointsOK' /\ PoolsCounted' /\ MadeCounted' /\ Disjoint' /\ UsedByOne'
  BY <1>1, <1>3, <1>6, UseMove DEF Using, p, m
<1>8. OwnAnswers'
  <2> SUFFICES ASSUME Confirm, interrupted = {}
               PROVE  /\ succeeded' \subseteq confirmed
                      /\ \A d \in Callers : caller'[d].pc = "await"
                                             => InFlight(caller[d].pub, caller[d].msg)'
                      /\ \A o \in Publishers : (\A d \in Callers : ~Awaits(d, o)')
                            => unanswered[o] = <<>> /\ pcChannel'[o] = <<>>
    BY <1>1 DEF OwnAnswers
  <2>1. InFlight(p, m)
    BY <1>1 DEF IInv, OwnAnswers, p, m
  <2>2. PICK ok \in BOOLEAN : /\ pcChannel[p] = <<[msg |-> m, ok |-> ok]>>
                              /\ ok => m \in confirmed
    BY <1>1, <2>1 DEF InFlight
  <2>3. unanswered[p] = <<>>
    BY <1>1, <2>1 DEF InFlight
  <2>4. succeeded' \subseteq confirmed
    <3>1. Head(pcChannel[p]).ok = ok
      BY <2>2
    <3> QED
      BY <1>1, <2>2, <3>1 DEF IInv, OwnAnswers
  <2>5. ASSUME NEW d \in Callers, caller'[d].pc = "await"
        PROVE  InFlight(caller[d].pub, caller[d].msg)'
    <3>1. d # c /\ caller'[d] = caller[d] /\ caller[d].pc = "await" /\ caller[d].pub # p
      BY <1>2, <1>3, <2>5
    <3>2. InFlight(caller[d].pub, caller[d].msg) /\ caller[d].pub \in Publishers
      BY <3>1, InUse DEF IInv, OwnAnswers, Using
    <3>3. pcChannel'[caller[d].pub] = pcChannel[caller[d].pub]
      BY <1>5, <3>1, <3>2
    <3> QED
      BY <1>1, <3>1, <3>2, <3>3 DEF InFlight
  <2>6. ASSUME NEW o \in Publishers, \A d \in Callers : ~Awaits(d, o)'
        PROVE  unanswered[o] = <<>> /\ pcChannel'[o] = <<>>
    <3>1. CASE o = p
      BY <1>5, <2>3, <3>1
    <3>2. CASE o # p
      <4>1. \A d \in Callers : ~Awaits(d, o)
        <5>1. ASSUME NEW d \in Callers, Awaits(d, o) PROVE FALSE
          <6>1. d # c
            BY <3>2, <5>1 DEF Awaits, p
          <6>2. Awaits(d, o)'
            BY <1>3, <5>1, <6>1 DEF Awaits
          <6> QED
            BY <2>6, <6>2
        <5> QED
          BY <5>1
      <4> QED
        BY <1>5, <3>2, <4>1 DEF IInv, OwnAnswers
    <3> QED
      BY <3>1, <3>2
  <2> QED
    BY <2>4, <2>5, <2>6
<1> QED
  BY <1>6, <1>7, <1>8 DEF IInv

\* A caller gives up: the answers are no longer compared.
LEMMA InterruptInv == ASSUME IInv, NEW c \in Callers, Interrupt(c) PROVE IInv'
<1> USE PublisherAssumption
<1>1. /\ caller[c].pc = "await" /\ Goto(c, "put")
      /\ interrupted' = interrupted \cup {caller[c].pub}
      /\ UNCHANGED <<connected, cancelled, poolVars, brokerVars, sent, succeeded>>
      /\ TypeOK
  BY DEF Interrupt, IInv
<1>2. caller[c].pub \in Publishers
  BY <1>1, InUse DEF Using
<1>3. /\ caller' \in [Callers -> CallerRecords]
      /\ \A d \in Callers \ {c} : caller'[d] = caller[d]
      /\ caller'[c].pc = "put" /\ caller'[c].pub = caller[c].pub
      /\ caller'[c].pool = caller[c].pool /\ caller'[c].msg = caller[c].msg
  BY <1>1, GotoFacts
<1>4. TypeOK'
  BY <1>1, <1>2, <1>3 DEF TypeOK, CallerRecords, poolVars, brokerVars
<1>5. PointsOK' /\ PoolsCounted' /\ MadeCounted' /\ Disjoint' /\ UsedByOne'
  BY <1>1, <1>3, <1>4, UseMove DEF Using
<1>6. OwnAnswers'
  <2>1. interrupted' # {}
    BY <1>1
  <2> QED
    BY <2>1 DEF OwnAnswers
<1> QED
  BY <1>4, <1>5, <1>6 DEF IInv

\* The publisher goes to the pool of the key, which may not be the one it came from,
\* or is closed.
LEMMA PutInv == ASSUME IInv, NEW c \in Callers, PutPublisher(c) PROVE IInv'
<1> USE PublisherAssumption
<1> DEFINE p == caller[c].pub
<1>1. /\ caller[c].pc = "put" /\ caller' = [caller EXCEPT ![c] = Idle]
      /\ connected' = connected /\ cancelled' = cancelled /\ entry' = entry /\ pools' = pools
      /\ count' = count /\ made' = made /\ failed' = failed /\ raced' = raced /\ sent' = sent
      /\ UNCHANGED <<unanswered, pcChannel, confirmed, succeeded, interrupted>>
      /\ TypeOK
  BY DEF PutPublisher, IInv, brokerVars
<1>2. /\ p \in Publishers /\ entry \in Pools /\ p \in 1..made
      /\ \A d \in Callers \ {c} : caller[d].pub # p
      /\ \A k \in Pools : p \notin idle[k]
  BY <1>1, InUse DEF Using
<1>3. /\ caller' \in [Callers -> CallerRecords] /\ caller'[c] = Idle
      /\ \A d \in Callers \ {c} : caller'[d] = caller[d]
  BY <1>1, IdleOK, CallerTyped
<1>4. \/ /\ Cardinality(idle[entry]) < Limit
         /\ idle' = [idle EXCEPT ![entry] = @ \cup {p}] /\ closed' = closed
      \/ closed' = closed \cup {p} /\ idle' = idle
  BY DEF PutPublisher
<1> HIDE DEF p
<1>5. idle \in [Pools -> SUBSET Publishers] /\ \A k \in Pools : Cardinality(idle[k]) <= Limit
  BY <1>1 DEF TypeOK
<1>6. /\ \A k \in Pools : idle'[k] = idle[k] \/ (k = entry /\ idle'[k] = idle[k] \cup {p})
      /\ idle' \in [Pools -> SUBSET Publishers] /\ closed' \subseteq Publishers
      /\ \A k \in Pools : Cardinality(idle'[k]) <= Limit
  <2>1. CASE closed' = closed \cup {p} /\ idle' = idle
    BY <1>1, <1>2, <1>5, <2>1 DEF TypeOK
  <2>2. CASE /\ Cardinality(idle[entry]) < Limit
             /\ idle' = [idle EXCEPT ![entry] = @ \cup {p}] /\ closed' = closed
    <3>1. /\ idle'[entry] = idle[entry] \cup {p} /\ idle' \in [Pools -> SUBSET Publishers]
          /\ \A k \in Pools \ {entry} : idle'[k] = idle[k]
      BY <1>2, <1>5, <2>2
    <3>2. IsFiniteSet(idle[entry])
      <4>1. IsFiniteSet(1..MaxPublishers)
        BY FS_Interval
      <4> QED
        BY <1>2, <1>5, <4>1, FS_Subset DEF Publishers
    <3>3. Cardinality(idle'[entry]) = Cardinality(idle[entry]) + 1 /\ Cardinality(idle[entry]) \in Nat
      BY <1>2, <3>1, <3>2, FS_AddElement, FS_CardinalityType
    <3>4. Cardinality(idle'[entry]) <= Limit
      BY <2>2, <3>3
    <3>5. closed' \subseteq Publishers
      BY <1>1, <2>2 DEF TypeOK
    <3> QED
      BY <1>5, <3>1, <3>4, <3>5
  <2> QED
    BY <1>4, <2>1, <2>2
<1>7. TypeOK'
  BY <1>1, <1>3, <1>6 DEF TypeOK, CallerRecords
<1>8. PointsOK'
  <2>1. pools <= pools' /\ made <= made'
    BY <1>1, Numbers
  <2> QED
    BY <1>1, <1>3, <1>7, <2>1, IdleOK, PointsKept DEF IInv
<1>9. PoolsCounted'
  <2>1. AtMake' = AtMake /\ AtAdd' = AtAdd
    BY <1>1, <1>3, IdleOK DEF AtMake, AtAdd
  <2> QED
    BY <1>1, <2>1 DEF IInv, PoolsCounted
<1>10. MadeCounted'
  BY <1>1 DEF IInv, MadeCounted
<1>11. Disjoint'
  BY <1>1, <1>2, <1>6 DEF IInv, Disjoint
<1>12. UsedByOne'
  BY <1>2, <1>3, <1>6, IdleOK DEF IInv, UsedByOne
<1>13. OwnAnswers'
  BY <1>1, <1>3, IdleOK, AnswersKept DEF IInv
<1> QED
  BY <1>7, <1>8, <1>9, <1>10, <1>11, <1>12, <1>13 DEF IInv

\* A disconnect, or a step that changes nothing.
LEMMA OtherInv ==
    ASSUME IInv, cancelled' \in BOOLEAN,
           UNCHANGED <<connected, poolVars, caller, brokerVars, sent, succeeded, interrupted>>
    PROVE  IInv'
<1>1. /\ entry' = entry /\ pools' = pools /\ idle' = idle /\ count' = count /\ made' = made /\ failed' = failed
      /\ raced' = raced /\ caller' = caller /\ unanswered' = unanswered
      /\ pcChannel' = pcChannel /\ confirmed' = confirmed /\ succeeded' = succeeded
      /\ interrupted' = interrupted /\ closed' = closed /\ sent' = sent
      /\ connected' = connected
  BY DEF poolVars, brokerVars
<1>2. TypeOK'
  BY <1>1 DEF IInv, TypeOK
<1>3. PointsOK' /\ MadeCounted' /\ Disjoint' /\ UsedByOne'
  BY <1>1 DEF IInv, PointsOK, MadeCounted, Disjoint, UsedByOne
<1>4. PoolsCounted'
  BY <1>1 DEF IInv, PoolsCounted, AtMake, AtAdd
<1>5. OwnAnswers'
  BY <1>1 DEF IInv, OwnAnswers, InFlight, Awaits
<1> QED
  BY <1>2, <1>3, <1>4, <1>5 DEF IInv

\* Every step keeps the invariant.
LEMMA StepInv == IInv /\ [Next]_vars => IInv'
<1> SUFFICES ASSUME IInv, [Next]_vars PROVE IInv'
  OBVIOUS
<1>1. ASSUME NEW c \in Callers, Call(c) \/ CallerStep(c) \/ Interrupt(c) PROVE IInv'
  BY <1>1, CallInv, ConnectInv, LookupInv, MakeInv, AddInv, GetInv, PublishInv, AwaitInv,
     PutInv, InterruptInv DEF CallerStep
<1>2. ASSUME NEW p \in Publishers, Answer(p) PROVE IInv'
  BY <1>2, AnswerInv
<1>3. CASE Close
  BY <1>3, OtherInv DEF Close
<1>4. CASE UNCHANGED vars
  <2>1. cancelled' \in BOOLEAN
    BY <1>4 DEF vars, IInv, TypeOK
  <2> QED
    BY <1>4, <2>1, OtherInv DEF vars, poolVars, brokerVars
<1> QED
  BY <1>1, <1>2, <1>3, <1>4 DEF Next

\* The invariant holds in every reachable state.
LEMMA InvHolds == Spec => []IInv
BY InitInv, StepInv, PTL DEF Spec
-----------------------------------------------------------------------------
\* A key (stream, publisher name, confirmed or not) never has more open publishers
\* than the limit of its pool, unless two first calls have overlapped, and each
\* publisher has one user, whatever newPublisher returns (GetPublisher,
\* PutPublisher), for any number of callers, tries, publishers and any limit.
THEOREM KeyPublishersAreExclusive == Spec => []PublisherExclusive
<1>1. IInv => PublisherExclusive
  <2> SUFFICES ASSUME IInv PROVE PublisherExclusive
    OBVIOUS
  <2> USE PublisherAssumption
  <2>1. ASSUME ~raced PROVE made - Cardinality(closed) <= Limit
    <3>1. Cardinality(closed) \in Nat
      <4>1. IsFiniteSet(1..MaxPublishers)
        BY FS_Interval
      <4>2. closed \subseteq 1..MaxPublishers
        BY DEF IInv, TypeOK, Publishers
      <4> QED
        BY <4>1, <4>2, FS_Subset, FS_CardinalityType
    <3>2. pools \in Nat /\ made \in Nat /\ pools <= Cardinality(Callers) /\ ~(pools > 1)
      BY <2>1, Numbers DEF IInv, PoolsCounted
    <3>3. made <= Limit
      <4>1. CASE pools = 0
        BY <4>1 DEF IInv, MadeCounted
      <4>2. CASE pools = 1
        <5>1. 1 \in Pools /\ made + failed = count[1]
          BY <3>2, <4>2, CallersFinite DEF IInv, MadeCounted, Pools
        <5>2. count[1] \in 0..Limit /\ failed \in Nat
          BY <5>1 DEF IInv, TypeOK
        <5> QED
          BY <3>2, <5>1, <5>2
      <4> QED
        BY <3>2, <4>1, <4>2
    <3> QED
      BY <3>1, <3>2, <3>3
  <2> QED
    BY <2>1 DEF IInv, PublisherExclusive, OnePublisherPerKey
<1> QED
  BY <1>1, InvHolds, PTL

\* Success is reported for confirmed messages only, as long as no caller gives up:
\* the answer in the slot is the one of the caller's message, although
\* streamPrepareAndSend does not compare them.
THEOREM ConfirmationsAreOwn == Spec => []OwnConfirmation
<1>1. IInv => OwnConfirmation
  BY DEF IInv, OwnAnswers, OwnConfirmation
<1> QED
  BY <1>1, InvHolds, PTL
-----------------------------------------------------------------------------
\* The publisher in the hands of a caller is what its record says.
LEMMA HandsMove ==
    ASSUME NEW c \in Callers, \A d \in Callers \ {c} : caller'[d] = caller[d]
    PROVE  /\ InHands[c] = caller[c].pub
           /\ InHands' = [InHands EXCEPT ![c] = caller'[c].pub]
           /\ caller'[c].pub = caller[c].pub => InHands' = InHands
BY DEF InHands

\* What ItemPool calls existing is idle or in use, and of the publishers made.
LEMMA ExistingMade == ASSUME IInv PROVE Promised!Existing \subseteq 1..made
<1>1. ASSUME NEW c \in Callers PROVE InHands[c] \in 1..made \cup {None}
  <2>1. PointOK(caller[c], entry, pools, made)
    BY DEF IInv, PointsOK
  <2> QED
    BY <2>1 DEF PointOK, InHands
<1>2. IdlePublishers \subseteq 1..made
  BY DEF IInv, Disjoint, IdlePublishers
<1> QED
  BY <1>1, <1>2 DEF Promised!Existing, Promised!Held

\* A subset of the first n numbers without one of them has fewer than n elements.
LEMMA FewerThan ==
    ASSUME NEW n \in Nat, NEW S, S \subseteq 1..n, NEW p \in 1..n, p \notin S
    PROVE  Cardinality(S) \in Nat /\ Cardinality(S) < n
<1>1. IsFiniteSet(1..n) /\ Cardinality(1..n) = n
  BY FS_Interval
<1>2. /\ IsFiniteSet((1..n) \ {p}) /\ Cardinality((1..n) \ {p}) = n - 1
  BY <1>1, FS_RemoveElement
<1>3. S \in SUBSET ((1..n) \ {p})
  OBVIOUS
<1>4. IsFiniteSet(S) /\ Cardinality(S) <= Cardinality((1..n) \ {p})
  BY <1>2, <1>3, FS_Subset
<1>5. Cardinality(S) \in Nat
  BY <1>4, FS_CardinalityType
<1> QED
  BY <1>2, <1>4, <1>5

\* With one pool for the key, its count covers the publishers made.
LEMMA OnlyPool ==
    ASSUME IInv, ~raced
    PROVE  /\ made \in Nat /\ made <= Limit
           /\ \A c \in Callers : caller[c].pc = "get" => made <= count[caller[c].pool]
<1> USE PublisherAssumption
<1>1. pools \in Nat /\ made \in Nat /\ pools <= Cardinality(Callers) /\ ~(pools > 1)
  BY Numbers DEF IInv, PoolsCounted
<1>2. pools = 1 => 1 \in Pools /\ count[1] \in 0..Limit /\ made <= count[1]
  <2> SUFFICES ASSUME pools = 1 PROVE 1 \in Pools /\ count[1] \in 0..Limit /\ made <= count[1]
    OBVIOUS
  <2>1. 1 \in Pools
    BY <1>1, CallersFinite DEF Pools
  <2>2. count[1] \in 0..Limit /\ failed \in Nat /\ made + failed = count[1]
    BY <2>1 DEF IInv, TypeOK, MadeCounted
  <2> QED
    BY <1>1, <2>1, <2>2
<1>3. made <= Limit
  BY <1>1, <1>2 DEF IInv, MadeCounted
<1>4. ASSUME NEW c \in Callers, caller[c].pc = "get" PROVE made <= count[caller[c].pool]
  <2>1. caller[c].pool \in 1..pools
    BY <1>4 DEF IInv, PointsOK, PointOK
  <2>2. pools = 1 /\ caller[c].pool = 1
    BY <1>1, <2>1
  <2> QED
    BY <1>2, <2>2
<1> QED
  BY <1>1, <1>3, <1>4

\* pool.Get takes an idle publisher, makes one below the limit, or returns nil.
LEMMA GetPromised ==
    ASSUME IInv, NEW c \in Callers, PoolGet(c), ~raced
    PROVE  Promised!Take(c) \/ Promised!Make(c) \/ UNCHANGED <<IdlePublishers, InHands, cancelled>>
<1> USE PublisherAssumption
<1> DEFINE k == caller[c].pool
<1>1. caller[c].pc = "get" /\ cancelled' = cancelled /\ TypeOK
  BY DEF PoolGet, IInv
<1>2. caller[c] \in CallerRecords /\ PointOK(caller[c], entry, pools, made)
  BY <1>1 DEF TypeOK, CallerRecords, IInv, PointsOK
<1>3. k \in Pools /\ caller[c].pub = None
  BY <1>1, <1>2 DEF PointOK, CallerRecords, Using
<1>4. ASSUME NEW p \in Publishers, caller' = [caller EXCEPT ![c].pc = "publish", ![c].pub = p]
      PROVE  InHands[c] = None /\ InHands' = [InHands EXCEPT ![c] = p]
  <2> DEFINE q == [caller[c] EXCEPT !.pc = "publish", !.pub = p]
  <2>1. q \in CallerRecords /\ q.pub = p
    BY <1>2 DEF CallerRecords
  <2>2. caller' = [caller EXCEPT ![c] = q]
    BY <1>4
  <2> HIDE DEF q
  <2>3. caller'[c] = q /\ \A d \in Callers \ {c} : caller'[d] = caller[d]
    BY <1>1, <2>1, <2>2, CallerTyped
  <2> QED
    BY <1>3, <2>1, <2>3, HandsMove
<1> HIDE DEF k
<1>5. ASSUME NEW p \in idle[k], idle' = [idle EXCEPT ![k] = @ \ {p}],
             caller' = [caller EXCEPT ![c].pc = "publish", ![c].pub = p]
      PROVE  Promised!Take(c)
  <2>1. idle \in [Pools -> SUBSET Publishers]
    BY <1>1 DEF TypeOK
  <2>2. p \in Publishers /\ p \in IdlePublishers
    BY <1>3, <2>1 DEF IdlePublishers
  <2>3. \A j \in Pools \ {k} : p \notin idle[j] /\ idle'[j] = idle[j]
    BY <1>3, <1>5, <2>1 DEF IInv, Disjoint
  <2>4. idle'[k] = idle[k] \ {p}
    BY <1>3, <1>5, <2>1
  <2>5. \A j \in Pools : idle'[j] = idle[j] \ {p}
    BY <2>3, <2>4
  <2>6. IdlePublishers' = IdlePublishers \ {p}
    BY <2>5 DEF IdlePublishers
  <2>7. InHands[c] = None /\ InHands' = [InHands EXCEPT ![c] = p]
    BY <1>4, <1>5, <2>2
  <2> QED
    BY <1>1, <2>2, <2>6, <2>7 DEF Promised!Take
<1>6. ASSUME count[k] < Limit, made < MaxPublishers, idle' = idle,
             caller' = [caller EXCEPT ![c].pc = "publish", ![c].pub = made + 1]
      PROVE  Promised!Make(c)
  <2>1. made \in Nat /\ made <= count[k] /\ count[k] \in Nat
    BY <1>1, <1>3, OnlyPool DEF k, TypeOK
  <2>2. made + 1 \in Publishers /\ made + 1 \in 1..(made + 1) /\ made + 1 \notin 1..made
    BY <1>6, <2>1 DEF Publishers
  <2>3. Promised!Existing \subseteq 1..(made + 1) /\ made + 1 \notin Promised!Existing
    <3>1. 1..made \subseteq 1..(made + 1)
      BY <2>1
    <3> QED
      BY <2>2, <3>1, ExistingMade
  <2>4. Cardinality(Promised!Existing) < Limit
    <3> DEFINE E == Promised!Existing
               n == made + 1
    <3>1. n \in Nat /\ n \in 1..n /\ E \subseteq 1..n /\ n \notin E
      BY <2>1, <2>2, <2>3
    <3>2. n <= Limit
      BY <1>6, <2>1
    <3> HIDE DEF E, n
    <3>3. Cardinality(E) \in Nat /\ Cardinality(E) < n
      BY <3>1, FewerThan
    <3>4. Cardinality(E) < Limit
      BY <3>1, <3>2, <3>3
    <3> QED
      BY <3>4 DEF E
  <2>5. Promised!Cardinality(Promised!Existing) = Cardinality(Promised!Existing)
    BY Zenon DEF Promised!Cardinality, Cardinality, Promised!IsFiniteSet, IsFiniteSet
  <2>6. InHands[c] = None /\ InHands' = [InHands EXCEPT ![c] = made + 1]
    BY <1>4, <1>6, <2>2
  <2>7. IdlePublishers' = IdlePublishers
    BY <1>6 DEF IdlePublishers
  <2> QED
    BY <1>1, <2>2, <2>3, <2>4, <2>5, <2>6, <2>7 DEF Promised!Make
<1>7. ASSUME idle' = idle, ReturnNil(c)
      PROVE  UNCHANGED <<IdlePublishers, InHands, cancelled>>
  <2>1. caller'[c].pub = None /\ \A d \in Callers \ {c} : caller'[d] = caller[d]
    BY <1>1, <1>2, <1>7, NilFacts
  <2> QED
    BY <1>1, <1>3, <1>7, <2>1, HandsMove DEF IdlePublishers
<1> QED
  BY <1>5, <1>6, <1>7 DEF PoolGet, newPublisher, k

\* PutPublisher finds room in the pool of the key: a publisher is closed only after
\* the client has disconnected.
LEMMA PutPromised ==
    ASSUME IInv, NEW c \in Callers, PutPublisher(c), ~raced
    PROVE  Promised!GiveBack(c) \/ Promised!Discard(c)
<1> USE PublisherAssumption
<1> DEFINE p == caller[c].pub
<1>1. /\ caller[c].pc = "put" /\ caller' = [caller EXCEPT ![c] = Idle]
      /\ cancelled' = cancelled /\ TypeOK
  BY DEF PutPublisher, IInv
<1>2. /\ p \in Publishers /\ entry \in Pools /\ p \in 1..made
      /\ \A k \in Pools : p \notin idle[k]
  BY <1>1, InUse DEF Using
<1>3. caller'[c] = Idle /\ \A d \in Callers \ {c} : caller'[d] = caller[d]
  BY <1>1, IdleOK, CallerTyped
<1>4. InHands[c] = p /\ InHands' = [InHands EXCEPT ![c] = None]
  BY <1>3, IdleOK, HandsMove
<1>5. p # None
  BY <1>2, NoneIsNone
<1>6. ~(Cardinality(idle[entry]) >= Limit)
  <2>1. made \in Nat /\ made <= Limit
    BY OnlyPool
  <2>2. idle[entry] \subseteq 1..made
    BY <1>2 DEF IInv, Disjoint
  <2>3. Cardinality(idle[entry]) \in Nat /\ Cardinality(idle[entry]) < made
    BY <1>2, <2>1, <2>2, FewerThan
  <2> QED
    BY <2>1, <2>3
<1>7. \/ idle' = [idle EXCEPT ![entry] = @ \cup {p}]
      \/ cancelled /\ idle' = idle
  BY <1>6 DEF PutPublisher
<1> HIDE DEF p
<1>8. CASE idle' = [idle EXCEPT ![entry] = @ \cup {p}]
  <2>1. idle \in [Pools -> SUBSET Publishers]
    BY <1>1 DEF TypeOK
  <2>2. idle'[entry] = idle[entry] \cup {p} /\ \A j \in Pools \ {entry} : idle'[j] = idle[j]
    BY <1>2, <1>8, <2>1
  <2>3. IdlePublishers' = IdlePublishers \cup {p}
    BY <1>2, <2>2 DEF IdlePublishers
  <2> QED
    BY <1>1, <1>4, <1>5, <2>3 DEF Promised!GiveBack
<1>9. CASE cancelled /\ idle' = idle
  BY <1>1, <1>4, <1>5, <1>9 DEF Promised!Discard, IdlePublishers
<1> QED
  BY <1>7, <1>8, <1>9

\* A call begins, connects, and looks up, makes or adds a pool, without a publisher.
LEMMA BeforeGet ==
    ASSUME IInv, NEW c \in Callers,
           Call(c) \/ getStreamConnection(c) \/ PoolLookup(c) \/ PoolMake(c) \/ PoolAdd(c)
    PROVE  UNCHANGED <<IdlePublishers, InHands, cancelled>>
<1>1. caller[c].pub = None /\ TypeOK /\ caller[c] \in CallerRecords
  <2>1. caller[c].pc \in {"idle", "connect", "lookup", "make", "add"}
    BY DEF Call, getStreamConnection, PoolLookup, PoolMake, PoolAdd
  <2> QED
    BY <2>1 DEF IInv, PointsOK, PointOK, Using, TypeOK, CallerRecords
<1>2. idle' = idle /\ cancelled' = cancelled
  BY DEF Call, getStreamConnection, PoolLookup, PoolMake, PoolAdd, poolVars
<1>3. PICK q : q.pub = None /\ caller' = [caller EXCEPT ![c] = q]
  <2>1. CASE Call(c)
    <3> DEFINE q == [Idle EXCEPT !.pc = "connect", !.msg = sent + 1]
    <3>1. q.pub = None /\ caller' = [caller EXCEPT ![c] = q]
      BY <2>1 DEF Call, Idle
    <3> QED
      BY <3>1
  <2>2. ASSUME NEW point, Goto(c, point)
        PROVE  \E q : q.pub = None /\ caller' = [caller EXCEPT ![c] = q]
    <3> DEFINE q == [caller[c] EXCEPT !.pc = point]
    <3>1. q.pub = None
      BY <1>1 DEF CallerRecords
    <3>2. caller' = [caller EXCEPT ![c] = q]
      BY <2>2 DEF Goto
    <3> QED
      BY <3>1, <3>2
  <2>3. CASE getStreamConnection(c)
    BY <2>2, <2>3, IdleOK DEF getStreamConnection
  <2>4. CASE PoolAdd(c)
    BY <2>2, <2>4 DEF PoolAdd
  <2>5. ASSUME NEW point, NEW k,
               caller' = [caller EXCEPT ![c].pc = point, ![c].pool = k]
        PROVE  \E q : q.pub = None /\ caller' = [caller EXCEPT ![c] = q]
    <3> DEFINE q == [caller[c] EXCEPT !.pc = point, !.pool = k]
    <3>1. q.pub = None
      BY <1>1 DEF CallerRecords
    <3>2. caller' = [caller EXCEPT ![c] = q]
      BY <2>5
    <3> QED
      BY <3>1, <3>2
  <2>6. CASE PoolLookup(c)
    BY <2>5, <2>6 DEF PoolLookup
  <2>7. CASE PoolMake(c)
    BY <2>5, <2>7 DEF PoolMake
  <2> QED
    BY <2>1, <2>3, <2>4, <2>6, <2>7
<1>4. caller'[c].pub = caller[c].pub /\ \A d \in Callers \ {c} : caller'[d] = caller[d]
  BY <1>1, <1>3 DEF TypeOK
<1>5. InHands' = InHands
  BY <1>4, HandsMove
<1> QED
  BY <1>2, <1>5 DEF IdlePublishers

\* A caller keeps its publisher while it publishes, awaits the answer or gives up.
LEMMA WhileUsed ==
    ASSUME IInv, NEW c \in Callers, Publish(c) \/ Await(c) \/ Interrupt(c)
    PROVE  UNCHANGED <<IdlePublishers, InHands, cancelled>>
<1>1. idle' = idle /\ cancelled' = cancelled /\ TypeOK
  BY DEF Publish, Await, Interrupt, poolVars, IInv
<1>2. Goto(c, "await") \/ Goto(c, "put")
  BY DEF Publish, Await, Interrupt
<1>3. caller'[c].pub = caller[c].pub /\ \A d \in Callers \ {c} : caller'[d] = caller[d]
  BY <1>1, <1>2, GotoFacts
<1>4. InHands' = InHands
  BY <1>3, HandsMove
<1> QED
  BY <1>1, <1>4 DEF IdlePublishers

\* Until two pools are made for the key, GetPublisher and PutPublisher keep the promise
\* of one pool: every step makes a publisher below the limit, takes or gives back one,
\* closes one of a client that has left, or shows nothing to a user of the pool.
THEOREM PublishersShareOnePool == Spec => OnePool
<1> DEFINE Shown == UNCHANGED <<IdlePublishers, InHands, cancelled>>
<1>1. IInv /\ [Next]_vars => [~raced' => Promised!Next \/ Shown]_vars
  <2> SUFFICES ASSUME IInv, Next, ~raced' PROVE Promised!Next \/ Shown
    OBVIOUS
  <2>1. ASSUME NEW c \in Callers, Call(c) \/ CallerStep(c) \/ Interrupt(c)
        PROVE  Promised!Next \/ Shown
    <3>1. CASE PoolGet(c)
      <4>1. ~raced
        BY <3>1 DEF PoolGet
      <4> QED
        BY <3>1, <4>1, GetPromised DEF Promised!Next
    <3>2. CASE PutPublisher(c)
      <4>1. ~raced
        BY <3>2 DEF PutPublisher
      <4> QED
        BY <3>2, <4>1, PutPromised DEF Promised!Next
    <3> QED
      BY <2>1, <3>1, <3>2, BeforeGet, WhileUsed DEF CallerStep
  <2>2. ASSUME NEW p \in Publishers, Answer(p) PROVE Shown
    BY <2>2 DEF Answer, poolVars, IdlePublishers, InHands
  <2>3. CASE Close
    BY <2>3 DEF Close, poolVars, IdlePublishers, InHands, Promised!Next, Promised!Close
  <2> QED
    BY <2>1, <2>2, <2>3 DEF Next
<1> QED
  BY <1>1, InvHolds, PTL DEF Spec, OnePool
=============================================================================
