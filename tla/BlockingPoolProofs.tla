------------------------- MODULE BlockingPoolProofs -------------------------
(***************************************************************************)
(* Proofs about BlockingPool for any number of goroutines, any limit, with *)
(* and without Validate, and whether or not New can fail.                  *)
(*                                                                         *)
(* The bound on the items is not inductive: a compare-and-swap reserves a  *)
(* slot before its item exists, and a retired item leaves before count     *)
(* drops.  The invariant therefore charges to count whatever occupies a    *)
(* slot (Charged): idle items, items in use and reservations; until the    *)
(* client disconnects, the rest of count is what failed constructors cost. *)
(***************************************************************************)
EXTENDS BlockingPool, FiniteSetTheorems, TLAPS

\* What the program point of a goroutine says of its locals.
Points ==
    \A t \in Threads :
        /\ pc[t] \in {"retire", "hold", "send", "retirePut"} <=> held[t] # None
        /\ pc[t] = "cas" => current[t] < Limit

\* Every occupied slot has been counted, and nothing else but failed
\* constructors until the client disconnects.
Slots ==
    /\ IsFiniteSet(Charged)
    /\ Cardinality(Charged) <= count
    /\ ExactCount

IInv == TypeOK /\ Points /\ Exclusive /\ Slots
-----------------------------------------------------------------------------
\* Adding an element to a finite set adds at most one to its cardinality, and
\* removing one never increases it.
LEMMA CardinalityBounds ==
    ASSUME NEW S, IsFiniteSet(S), NEW x
    PROVE  /\ Cardinality(S) \in Nat
           /\ IsFiniteSet(S \cup {x}) /\ IsFiniteSet(S \ {x})
           /\ Cardinality(S \cup {x}) \in Nat /\ Cardinality(S \ {x}) \in Nat
           /\ Cardinality(S \cup {x}) <= Cardinality(S) + 1
           /\ Cardinality(S \ {x}) <= Cardinality(S)
<1>1. IsFiniteSet(S \cup {x}) /\ IsFiniteSet(S \ {x})
  BY FS_AddElement, FS_RemoveElement
<1>2. /\ Cardinality(S) \in Nat
      /\ Cardinality(S \cup {x}) \in Nat /\ Cardinality(S \ {x}) \in Nat
  BY <1>1, FS_CardinalityType
<1>3. Cardinality(S \cup {x}) <= Cardinality(S) + 1
  <2>1. Cardinality(S \cup {x}) =
          IF x \in S THEN Cardinality(S) ELSE Cardinality(S) + 1
    BY FS_AddElement
  <2> QED
    BY <2>1, <1>2
<1>4. Cardinality(S \ {x}) <= Cardinality(S)
  <2>1. S \ {x} \in SUBSET S
    OBVIOUS
  <2> QED
    BY <2>1, FS_Subset
<1> QED
  BY <1>1, <1>2, <1>3, <1>4

\* A step that leaves the occupied slots and the counter alone keeps Slots.
LEMMA SameSlots ==
    ASSUME Slots, Charged' = Charged, count' = count, failed' = failed,
           cancelled' = cancelled
    PROVE  Slots'
BY DEF Slots, ExactCount

\* A goroutine that is given the idle item i: the slot stays occupied.
LEMMA ReceiveKeepsSlots ==
    ASSUME IInv, NEW t \in Threads, pc[t] \in {"try", "wait"},
           NEW i \in pool, Receive(t, i)
    PROVE  IInv'
<1> USE PoolAssumption
<1>1. TypeOK' /\ Points' /\ Exclusive'
  BY DEF IInv, TypeOK, Points, Exclusive, Receive, Goto, PCs
<1>2. held[t] = None
  BY DEF IInv, Points
<1>3. HeldItems' = HeldItems \cup {i}
  BY <1>2 DEF HeldItems, Receive, IInv, TypeOK
<1>4. {u \in Threads : pc'[u] = "new"} = {u \in Threads : pc[u] = "new"}
  BY DEF Receive, Goto, IInv, TypeOK
<1>5. Charged' = Charged
  BY <1>3, <1>4 DEF Charged, Receive
<1>6. Slots'
  BY <1>5, SameSlots DEF IInv, Receive
<1> QED
  BY <1>1, <1>6 DEF IInv

\* A goroutine that gives up the item it holds frees exactly that slot.
LEMMA ReleaseItem ==
    ASSUME IInv, NEW t \in Threads, held[t] # None,
           held' = [held EXCEPT ![t] = None], pool' = pool,
           \A u \in Threads : pc'[u] = "new" <=> pc[u] = "new"
    PROVE  /\ Charged' = Charged \ {held[t]}
           /\ held[t] \in Charged
           /\ IsFiniteSet(Charged')
           /\ Cardinality(Charged') = Cardinality(Charged) - 1
<1> USE PoolAssumption
<1>1. HeldItems' = HeldItems \ {held[t]}
  BY DEF HeldItems, IInv, TypeOK, Exclusive
<1>2. held[t] \in HeldItems /\ held[t] \in Items
  BY DEF HeldItems, IInv, TypeOK
<1>3. held[t] \notin pool /\ held[t] \notin Threads
  BY <1>2 DEF IInv, Exclusive
<1>4. {u \in Threads : pc'[u] = "new"} = {u \in Threads : pc[u] = "new"}
  OBVIOUS
<1>5. Charged' = Charged \ {held[t]} /\ held[t] \in Charged
  BY <1>1, <1>2, <1>3, <1>4 DEF Charged
<1> QED
  BY <1>5, FS_RemoveElement DEF IInv, Slots
\* A goroutine about to send its item back finds room for it.
LEMMA RoomForPut == IInv => PutNeverFull
<1> SUFFICES ASSUME IInv, NEW t \in Threads, pc[t] = "send"
             PROVE  Cardinality(pool) < Limit
  BY DEF PutNeverFull
<1>1. held[t] \in HeldItems /\ held[t] \notin pool
  BY DEF IInv, Points, HeldItems, Exclusive
<1>2. pool \cup {held[t]} \in SUBSET Charged
  BY <1>1 DEF Charged
<1>3. IsFiniteSet(Charged) /\ pool \in SUBSET Charged
  BY DEF Charged, IInv, Slots
<1>4. IsFiniteSet(pool)
  BY <1>3, FS_Subset
<1>5. Cardinality(pool \cup {held[t]}) = Cardinality(pool) + 1
  BY <1>1, <1>4, FS_AddElement
<1>6. Cardinality(pool \cup {held[t]}) <= Cardinality(Charged)
  BY <1>2, <1>3, FS_Subset
<1>7. Cardinality(pool) \in Nat /\ Cardinality(Charged) \in Nat
  BY <1>3, <1>4, FS_CardinalityType
<1> QED
  BY <1>5, <1>6, <1>7, PoolAssumption DEF IInv, Slots, TypeOK
-----------------------------------------------------------------------------
\* The initial states satisfy the inductive invariant.
LEMMA InitInv == Init => IInv
<1> SUFFICES ASSUME Init PROVE IInv
  OBVIOUS
<1> USE PoolAssumption
<1>1. TypeOK /\ Points /\ Exclusive
  <2>1. 0 \in 0..Limit /\ 0 \in 0..MaxTries
    OBVIOUS
  <2>2. TypeOK
    BY <2>1 DEF Init, TypeOK, PCs
  <2>3. Points /\ Exclusive
    BY DEF Init, Points, Exclusive
  <2> QED
    BY <2>2, <2>3
<1>2. Charged = {}
  BY DEF Init, Charged, HeldItems
<1>3. Slots
  BY <1>2, FS_EmptySet DEF Init, Slots, ExactCount
<1> QED
  BY <1>1, <1>3 DEF IInv

\* Every step keeps the inductive invariant.
LEMMA StepInv == IInv /\ [Next]_vars => IInv'
<1> SUFFICES ASSUME IInv, [Next]_vars PROVE IInv'
  OBVIOUS
<1> USE PoolAssumption
<1>1. ASSUME NEW t \in Threads, Call(t) PROVE IInv'
  <2>1. TypeOK' /\ Points' /\ Exclusive'
    BY <1>1 DEF IInv, TypeOK, Points, Exclusive, Call, Goto, PCs
  <2>2. Charged' = Charged
    BY <1>1 DEF Charged, HeldItems, Call, Goto, IInv, TypeOK
  <2> QED
    BY <2>1, <2>2, <1>1, SameSlots DEF IInv, Call
<1>2. ASSUME NEW t \in Threads, GetFast(t) PROVE IInv'
  <2>1. CASE \E i \in pool : Receive(t, i)
    BY <2>1, <1>2, ReceiveKeepsSlots DEF GetFast
  <2>2. CASE ~ \E i \in pool : Receive(t, i)
    <3>0. /\ pc[t] = "try" /\ Goto(t, "load")
          /\ UNCHANGED <<pool, count, cancelled, stale, held, current, tries,
                        failed>>
      BY <2>2, <1>2 DEF GetFast
    <3>1. TypeOK' /\ Points' /\ Exclusive'
      BY <3>0 DEF IInv, TypeOK, Points, Exclusive, Goto, PCs
    <3>2. Charged' = Charged
      BY <3>0 DEF Charged, HeldItems, Goto, IInv, TypeOK
    <3> QED
      BY <3>0, <3>1, <3>2, SameSlots DEF IInv
  <2> QED
    BY <2>1, <2>2
<1>3. ASSUME NEW t \in Threads, LoadCount(t) PROVE IInv'
  <2>1. TypeOK' /\ Points' /\ Exclusive'
    BY <1>3 DEF IInv, TypeOK, Points, Exclusive, LoadCount, Goto, PCs
  <2>2. Charged' = Charged
    BY <1>3 DEF Charged, HeldItems, LoadCount, Goto, IInv, TypeOK
  <2> QED
    BY <2>1, <2>2, <1>3, SameSlots DEF IInv, LoadCount
<1>4. ASSUME NEW t \in Threads, CompareAndSwap(t) PROVE IInv'
  <2>1. TypeOK' /\ Points' /\ Exclusive'
    BY <1>4 DEF IInv, TypeOK, Points, Exclusive, CompareAndSwap, Goto, PCs
  <2>2. CASE count = current[t]
    <3>1. Charged' = Charged \cup {t}
      BY <2>2, <1>4 DEF Charged, HeldItems, CompareAndSwap, Goto, IInv, TypeOK
    <3>2. /\ IsFiniteSet(Charged')
          /\ Cardinality(Charged') <= Cardinality(Charged) + 1
          /\ Cardinality(Charged) \in Nat
      BY <3>1, CardinalityBounds DEF IInv, Slots
    <3>3. Slots'
      <4>1. count' = count + 1 /\ count \in Nat
        BY <2>2, <1>4 DEF CompareAndSwap, IInv, TypeOK
      <4>2. Cardinality(Charged') \in Nat
        BY <3>2, FS_CardinalityType
      <4>3. Cardinality(Charged') = Cardinality(Charged) + 1
        <5>1. t \notin Charged
          BY <1>4 DEF Charged, HeldItems, CompareAndSwap, IInv, TypeOK
        <5> QED
          BY <5>1, <3>1, FS_AddElement DEF IInv, Slots
      <4>4. cancelled' = cancelled /\ failed' = failed /\ failed \in Nat
        BY <1>4 DEF CompareAndSwap, IInv, TypeOK
      <4> QED
        BY <4>1, <4>2, <4>3, <4>4, <3>2 DEF IInv, Slots, ExactCount
    <3> QED
      BY <2>1, <3>3 DEF IInv
  <2>3. CASE count # current[t]
    <3>1. /\ Charged' = Charged /\ count' = count
          /\ failed' = failed /\ cancelled' = cancelled
      BY <2>3, <1>4 DEF Charged, HeldItems, CompareAndSwap, Goto, IInv, TypeOK
    <3> QED
      BY <2>1, <3>1, SameSlots DEF IInv
  <2> QED
    BY <2>2, <2>3
<1>5. ASSUME NEW t \in Threads, NewItem(t) PROVE IInv'
  <2>0. /\ pc[t] = "new" /\ held[t] = None
        /\ UNCHANGED <<pool, count, cancelled, current>>
        /\ t \in Charged /\ t \notin pool /\ t \notin HeldItems
    BY <1>5 DEF NewItem, IInv, Points, TypeOK, Charged, HeldItems
  <2>1. CASE \E i \in Items \ (pool \cup HeldItems) :
                /\ held' = [held EXCEPT ![t] = i]
                /\ stale' = stale \ {i}
                /\ Goto(t, "hold")
                /\ UNCHANGED <<tries, failed>>
    <3>0. PICK i \in Items \ (pool \cup HeldItems) :
                /\ held' = [held EXCEPT ![t] = i]
                /\ stale' = stale \ {i}
                /\ Goto(t, "hold")
                /\ UNCHANGED <<tries, failed>>
      BY <2>1
    <3>1. \A u \in Threads : held[u] # i
      BY <3>0 DEF HeldItems
    <3>2. TypeOK' /\ Points' /\ Exclusive'
      BY <2>0, <3>0, <3>1 DEF IInv, TypeOK, Points, Exclusive, Goto, PCs
    <3>3. HeldItems' = HeldItems \cup {i}
      BY <2>0, <3>0 DEF HeldItems, IInv, TypeOK
    <3>4. {u \in Threads : pc'[u] = "new"} = {u \in Threads : pc[u] = "new"} \ {t}
      BY <2>0, <3>0 DEF Goto, IInv, TypeOK
    <3>5. Charged' = (Charged \ {t}) \cup {i}
      BY <2>0, <3>3, <3>4 DEF Charged
    <3>6. /\ IsFiniteSet(Charged \ {t})
          /\ Cardinality(Charged \ {t}) = Cardinality(Charged) - 1
      BY <2>0, FS_RemoveElement DEF IInv, Slots
    <3>7. /\ IsFiniteSet(Charged')
          /\ Cardinality(Charged') <= Cardinality(Charged)
      <4>1. /\ IsFiniteSet(Charged')
            /\ Cardinality(Charged') <= Cardinality(Charged \ {t}) + 1
        BY <3>5, <3>6, CardinalityBounds
      <4>2. Cardinality(Charged) \in Nat
        BY FS_CardinalityType DEF IInv, Slots
      <4> QED
        BY <4>1, <4>2, <3>6
    <3>8. Cardinality(Charged') = Cardinality(Charged)
      <4>1. i \notin Charged \ {t}
        BY <3>0 DEF Charged
      <4>2. Cardinality(Charged') = Cardinality(Charged \ {t}) + 1
        BY <4>1, <3>5, <3>6, FS_AddElement
      <4>3. Cardinality(Charged) \in Nat
        BY FS_CardinalityType DEF IInv, Slots
      <4> QED
        BY <4>2, <4>3, <3>6
    <3>9. Slots'
      BY <2>0, <3>0, <3>7, <3>8 DEF IInv, Slots, ExactCount
    <3> QED
      BY <3>2, <3>9 DEF IInv
  <2>2. CASE /\ MayFail /\ ReturnNil(t) /\ failed' = failed + 1
             /\ UNCHANGED <<held, stale>>
    <3>1. TypeOK' /\ Points' /\ Exclusive'
      BY <2>0, <2>2
         DEF IInv, TypeOK, Points, Exclusive, ReturnNil, Goto, PCs
    <3>2. Charged' = Charged \ {t}
      BY <2>0, <2>2 DEF Charged, HeldItems, ReturnNil, Goto, IInv, TypeOK
    <3>3. /\ IsFiniteSet(Charged')
          /\ Cardinality(Charged') <= Cardinality(Charged)
      BY <3>2, CardinalityBounds DEF IInv, Slots
    <3>4. Cardinality(Charged') = Cardinality(Charged) - 1
      BY <2>0, <3>2, FS_RemoveElement DEF IInv, Slots
    <3>5. Cardinality(Charged) \in Nat /\ failed \in Nat /\ count \in Nat
      BY FS_CardinalityType DEF IInv, Slots, TypeOK
    <3>6. Slots'
      BY <2>0, <2>2, <3>3, <3>4, <3>5 DEF IInv, Slots, ExactCount
    <3> QED
      BY <3>1, <3>6 DEF IInv
  <2> QED
    BY <1>5, <2>1, <2>2 DEF NewItem
<1>6. ASSUME NEW t \in Threads, GetWait(t) PROVE IInv'
  <2>1. CASE \E i \in pool : Receive(t, i)
    BY <2>1, <1>6, ReceiveKeepsSlots DEF GetWait
  <2>2. CASE ~ \E i \in pool : Receive(t, i)
    <3>0. /\ pc[t] = "wait" /\ ReturnNil(t)
          /\ UNCHANGED <<pool, count, cancelled, stale, held, current, failed>>
      BY <2>2, <1>6 DEF GetWait
    <3>1. TypeOK' /\ Points' /\ Exclusive'
      BY <3>0 DEF IInv, TypeOK, Points, Exclusive, ReturnNil, Goto, PCs
    <3>2. Charged' = Charged
      BY <3>0 DEF Charged, HeldItems, ReturnNil, Goto, IInv, TypeOK
    <3> QED
      BY <3>0, <3>1, <3>2, SameSlots DEF IInv
  <2> QED
    BY <2>1, <2>2
<1>7. ASSUME NEW t \in Threads, Retire(t) PROVE IInv'
  <2>0. held[t] # None /\ count' = count - 1 /\ pool' = pool
    BY <1>7 DEF Retire, IInv, Points
  <2>1. \A u \in Threads : pc'[u] = "new" <=> pc[u] = "new"
    BY <1>7 DEF Retire, Goto, IInv, TypeOK
  <2>2. /\ held[t] \in Charged
        /\ IsFiniteSet(Charged')
        /\ Cardinality(Charged') = Cardinality(Charged) - 1
    BY <2>0, <2>1, <1>7, ReleaseItem DEF Retire
  <2>3. Cardinality(Charged) \in Nat /\ Cardinality(Charged') \in Nat
    BY <2>2, FS_CardinalityType DEF IInv, Slots
  <2>4. count \in 1..Limit
    BY <2>2, <2>3 DEF IInv, Slots, TypeOK
  <2>5. TypeOK' /\ Points' /\ Exclusive'
    BY <2>4, <1>7 DEF IInv, TypeOK, Points, Exclusive, Retire, Goto, PCs
  <2>6. cancelled' = cancelled /\ failed' = failed /\ failed \in Nat
    BY <1>7 DEF Retire, IInv, TypeOK
  <2>7. Slots'
    BY <2>0, <2>2, <2>3, <2>4, <2>6 DEF IInv, Slots, ExactCount
  <2> QED
    BY <2>5, <2>7 DEF IInv
<1>8. ASSUME NEW t \in Threads, PutValidate(t) PROVE IInv'
  <2>1. TypeOK' /\ Points' /\ Exclusive'
    BY <1>8 DEF IInv, TypeOK, Points, Exclusive, PutValidate, Goto, PCs
  <2>2. Charged' = Charged
    BY <1>8 DEF Charged, HeldItems, PutValidate, Goto, IInv, TypeOK
  <2> QED
    BY <2>1, <2>2, <1>8, SameSlots DEF IInv, PutValidate
<1>9. ASSUME NEW t \in Threads, PutSend(t) PROVE IInv'
  <2>0. /\ pc[t] = "send" /\ held[t] # None /\ held[t] \in Items
        /\ held' = [held EXCEPT ![t] = None] /\ Goto(t, "idle")
        /\ tries' = [tries EXCEPT ![t] = 0]
        /\ UNCHANGED <<count, cancelled, stale, current, failed>>
    BY <1>9 DEF PutSend, IInv, Points, TypeOK
  <2>1. CASE pool' = pool \cup {held[t]}
    <3>1. TypeOK' /\ Points' /\ Exclusive'
      BY <2>0, <2>1 DEF IInv, TypeOK, Points, Exclusive, Goto, PCs
    <3>2. HeldItems' = HeldItems \ {held[t]} /\ held[t] \in HeldItems
      BY <2>0 DEF HeldItems, IInv, TypeOK, Exclusive
    <3>3. {u \in Threads : pc'[u] = "new"} = {u \in Threads : pc[u] = "new"}
      BY <2>0 DEF Goto, IInv, TypeOK
    <3>4. Charged' = Charged
      BY <3>2, <3>3, <2>1 DEF Charged
    <3> QED
      BY <2>0, <3>1, <3>4, SameSlots DEF IInv
  <2>2. CASE pool' = pool /\ (cancelled \/ Cardinality(pool) >= Limit)
    <3>1. TypeOK' /\ Points' /\ Exclusive'
      BY <2>0, <2>2 DEF IInv, TypeOK, Points, Exclusive, Goto, PCs
    <3>2. \A u \in Threads : pc'[u] = "new" <=> pc[u] = "new"
      BY <2>0 DEF Goto, IInv, TypeOK
    <3>3. /\ IsFiniteSet(Charged')
          /\ Cardinality(Charged') = Cardinality(Charged) - 1
      BY <2>0, <2>2, <3>2, ReleaseItem
    <3>4. IsFiniteSet(pool)
      <4>1. pool \in SUBSET Charged /\ IsFiniteSet(Charged)
        BY DEF Charged, IInv, Slots
      <4> QED
        BY <4>1, FS_Subset
    <3>5. cancelled'
      <4>1. Cardinality(pool) < Limit /\ Cardinality(pool) \in Nat
        BY <2>0, <3>4, RoomForPut, FS_CardinalityType DEF PutNeverFull
      <4>2. ~ (Cardinality(pool) >= Limit)
        BY <4>1
      <4> QED
        BY <2>0, <2>2, <4>2
    <3>6. Slots'
      BY <2>0, <3>3, <3>5, FS_CardinalityType
         DEF IInv, Slots, TypeOK, ExactCount
    <3> QED
      BY <3>1, <3>6 DEF IInv
  <2> QED
    BY <1>9, <2>1, <2>2 DEF PutSend
<1>10. ASSUME NEW t \in Threads, ItemReopened(t) PROVE IInv'
  <2>1. TypeOK' /\ Points' /\ Exclusive'
    BY <1>10 DEF IInv, TypeOK, Points, Exclusive, ItemReopened, PCs
  <2>2. Charged' = Charged
    BY <1>10 DEF Charged, HeldItems, ItemReopened
  <2> QED
    BY <2>1, <2>2, <1>10, SameSlots DEF IInv, ItemReopened
<1>11. ASSUME NEW i \in Items, ItemFails(i) PROVE IInv'
  <2>1. TypeOK' /\ Points' /\ Exclusive'
    BY <1>11 DEF IInv, TypeOK, Points, Exclusive, ItemFails, PCs
  <2>2. Charged' = Charged
    BY <1>11 DEF Charged, HeldItems, ItemFails
  <2> QED
    BY <2>1, <2>2, <1>11, SameSlots DEF IInv, ItemFails
<1>12. ASSUME Cancel PROVE IInv'
  <2>1. TypeOK' /\ Points' /\ Exclusive'
    BY <1>12 DEF IInv, TypeOK, Points, Exclusive, Cancel, PCs
  <2>2. Charged' = Charged
    BY <1>12 DEF Charged, HeldItems, Cancel
  <2> QED
    BY <2>1, <2>2, <1>12 DEF IInv, Cancel, Slots, ExactCount
<1>13. CASE UNCHANGED vars
  <2>1. TypeOK' /\ Points' /\ Exclusive'
    BY <1>13 DEF IInv, TypeOK, Points, Exclusive, vars
  <2>2. /\ Charged' = Charged /\ count' = count
        /\ failed' = failed /\ cancelled' = cancelled
    BY <1>13 DEF Charged, HeldItems, vars
  <2> QED
    BY <2>1, <2>2, SameSlots DEF IInv
<1> QED
  BY <1>1, <1>2, <1>3, <1>4, <1>5, <1>6, <1>7, <1>8, <1>9, <1>10, <1>11,
     <1>12, <1>13 DEF Next, ThreadStep
-----------------------------------------------------------------------------
\* The inductive invariant holds of every reachable state of the pool.
THEOREM PoolInductive == Spec => []IInv
<1>1. IInv /\ [Next]_vars => IInv'
  BY StepInv
<1> QED
  BY InitInv, <1>1, PTL DEF Spec

\* The counter stays within 0..Limit and every variable keeps its type.
THEOREM PoolTyped == Spec => []TypeOK
<1>1. IInv => TypeOK
  BY DEF IInv
<1> QED
  BY <1>1, PoolInductive, PTL

\* blocking_pool.go never lets more items exist than the limit.
THEOREM PoolIsBounded == Spec => []PoolBound
<1>1. IInv => PoolBound
  <2> SUFFICES ASSUME IInv PROVE PoolBound
    OBVIOUS
  <2>1. pool \cup HeldItems \in SUBSET Charged
    BY DEF Charged
  <2>2. /\ Cardinality(pool \cup HeldItems) <= Cardinality(Charged)
        /\ IsFiniteSet(pool \cup HeldItems)
    BY <2>1, FS_Subset DEF IInv, Slots
  <2>3. Cardinality(pool \cup HeldItems) \in Nat /\ Cardinality(Charged) \in Nat
    BY <2>2, FS_CardinalityType DEF IInv, Slots
  <2> QED
    BY <2>2, <2>3, PoolAssumption DEF IInv, Slots, TypeOK, PoolBound
<1> QED
  BY <1>1, PoolInductive, PTL

\* No channel is ever used by two publishes at once, or idle while in use.
THEOREM PoolIsExclusive == Spec => []Exclusive
<1>1. IInv => Exclusive
  BY DEF IInv
<1> QED
  BY <1>1, PoolInductive, PTL

\* The "pool is full" branch of Put is unreachable.
THEOREM PutFindsRoom == Spec => []PutNeverFull
BY RoomForPut, PoolInductive, PTL

\* No slot is lost or freed twice: while the client is connected, count is what
\* exists plus the nil results of New.
THEOREM CountIsExact == Spec => []ExactCount
<1>1. IInv => ExactCount
  BY DEF IInv, Slots
<1> QED
  BY <1>1, PoolInductive, PTL
-----------------------------------------------------------------------------
(***************************************************************************)
(* The pool implements ItemPool.  Besides the inductive invariant the      *)
(* mapping needs that Get and Put retire broken items only: between the    *)
(* validation and the decrement nobody repairs the item.                   *)
(***************************************************************************)
Doomed == \A t \in Threads : pc[t] \in {"retire", "retirePut"} => held[t] \in stale

\* An item that failed its validation stays broken until it is retired.
LEMMA DoomedStep == IInv /\ Doomed /\ [Next]_vars => Doomed'
<1> SUFFICES ASSUME IInv, Doomed, [Next]_vars PROVE Doomed'
  OBVIOUS
<1> USE PoolAssumption
<1>0. /\ pc \in [Threads -> PCs] /\ held \in [Threads -> Items \cup {None}]
      /\ stale \subseteq Items /\ pool \subseteq Items
  BY DEF IInv, TypeOK
<1>1. ASSUME NEW t \in Threads,
             Call(t) \/ LoadCount(t) \/ CompareAndSwap(t) \/ Retire(t) \/ PutSend(t)
      PROVE  Doomed'
  BY <1>0, <1>1
     DEF Doomed, Call, LoadCount, CompareAndSwap, Retire, PutSend, Goto
<1>2. ASSUME NEW t \in Threads, NEW i \in pool, Receive(t, i) PROVE Doomed'
  BY <1>0, <1>2 DEF Doomed, Receive, Valid, Goto
<1>3. ASSUME NEW t \in Threads, GetFast(t) PROVE Doomed'
  <2>1. CASE \E i \in pool : Receive(t, i)
    BY <1>2, <2>1
  <2>2. CASE Goto(t, "load") /\ UNCHANGED <<stale, held>>
    BY <1>0, <2>2 DEF Doomed, Goto
  <2> QED
    BY <1>3, <2>1, <2>2 DEF GetFast
<1>4. ASSUME NEW t \in Threads, GetWait(t) PROVE Doomed'
  <2>1. CASE \E i \in pool : Receive(t, i)
    BY <1>2, <2>1
  <2>2. CASE ReturnNil(t) /\ UNCHANGED <<stale, held>>
    BY <1>0, <2>2 DEF Doomed, ReturnNil, Goto
  <2> QED
    BY <1>4, <2>1, <2>2 DEF GetWait
<1>5. ASSUME NEW t \in Threads, NewItem(t) PROVE Doomed'
  <2>1. CASE \E i \in Items \ (pool \cup HeldItems) :
                /\ held' = [held EXCEPT ![t] = i]
                /\ stale' = stale \ {i} /\ Goto(t, "hold")
    <3>1. PICK i \in Items \ (pool \cup HeldItems) :
                /\ held' = [held EXCEPT ![t] = i]
                /\ stale' = stale \ {i} /\ Goto(t, "hold")
      BY <2>1
    <3>2. \A u \in Threads : held[u] # i
      BY <1>0, <3>1 DEF HeldItems
    <3> QED
      BY <1>0, <3>1, <3>2 DEF Doomed, Goto
  <2>2. CASE ReturnNil(t) /\ UNCHANGED <<held, stale>>
    BY <1>0, <2>2 DEF Doomed, ReturnNil, Goto
  <2> QED
    BY <1>5, <2>1, <2>2 DEF NewItem
<1>6. ASSUME NEW t \in Threads, PutValidate(t) PROVE Doomed'
  BY <1>0, <1>6 DEF Doomed, PutValidate, Valid, Goto
<1>7. ASSUME NEW t \in Threads, ItemReopened(t) PROVE Doomed'
  <2>1. held[t] # None
    BY <1>7 DEF IInv, Points, ItemReopened
  <2>2. \A u \in Threads : u # t => held[u] # held[t]
    BY <2>1 DEF IInv, Exclusive
  <2> QED
    BY <1>0, <1>7, <2>2 DEF Doomed, ItemReopened
<1>8. ASSUME NEW i \in Items, ItemFails(i) PROVE Doomed'
  BY <1>8 DEF Doomed, ItemFails
<1>9. CASE Cancel \/ UNCHANGED vars
  BY <1>9 DEF Doomed, Cancel, vars
<1> QED
  BY <1>1, <1>3, <1>4, <1>5, <1>6, <1>7, <1>8, <1>9 DEF Next, ThreadStep

\* A reservation leaves room for the item New is about to make.
LEMMA RoomForNew ==
    ASSUME IInv, NEW t \in Threads, pc[t] = "new"
    PROVE  Cardinality(pool \cup HeldItems) < Limit
<1> USE PoolAssumption
<1> DEFINE E == pool \cup HeldItems
<1>1. t \in Charged /\ t \notin E /\ E \subseteq Charged \ {t}
  BY DEF Charged, HeldItems, IInv, TypeOK
<1>2. /\ IsFiniteSet(Charged) /\ Cardinality(Charged) <= count
      /\ count \in 0..Limit
  BY DEF IInv, Slots, TypeOK
<1>3. /\ IsFiniteSet(Charged \ {t})
      /\ Cardinality(Charged \ {t}) = Cardinality(Charged) - 1
  BY <1>1, <1>2, FS_RemoveElement
<1>4. IsFiniteSet(E) /\ Cardinality(E) <= Cardinality(Charged \ {t})
  <2> HIDE DEF E
  <2>1. E \in SUBSET (Charged \ {t})
    BY <1>1
  <2> QED
    BY <1>3, <2>1, FS_Subset
<1>5. Cardinality(E) \in Nat /\ Cardinality(Charged) \in Nat
  <2> HIDE DEF E
  <2> QED
    BY <1>2, <1>4, FS_CardinalityType
<1> QED
  BY <1>2, <1>3, <1>4, <1>5

\* Every step of Get, Put, their callers and the broker is a step of ItemPool
\* or leaves what ItemPool shows alone.
LEMMA PoolStep ==
    IInv /\ Doomed /\ [Next]_vars
        => [Promised!Next]_<<pool, held, stale, cancelled>>
<1> SUFFICES ASSUME IInv, Doomed, [Next]_vars
             PROVE  [Promised!Next]_<<pool, held, stale, cancelled>>
  OBVIOUS
<1> USE PoolAssumption
<1> DEFINE Same == UNCHANGED <<pool, held, stale, cancelled>>
<1>0. Promised!Existing = pool \cup HeldItems
  BY DEF Promised!Existing, Promised!Held, HeldItems
<1>1. ASSUME NEW t \in Threads,
             Call(t) \/ LoadCount(t) \/ CompareAndSwap(t) \/ PutValidate(t)
      PROVE  Same
  BY <1>1 DEF Call, LoadCount, CompareAndSwap, PutValidate
<1>2. ASSUME NEW t \in Threads, pc[t] \in {"try", "wait"}, NEW i \in pool, Receive(t, i)
      PROVE  Promised!Take(t)
  BY <1>2 DEF Receive, Promised!Take, IInv, Points
<1>3. ASSUME NEW t \in Threads, GetFast(t) \/ GetWait(t) PROVE Promised!Take(t) \/ Same
  BY <1>2, <1>3 DEF GetFast, GetWait
<1>4. ASSUME NEW t \in Threads, NewItem(t) PROVE Promised!Make(t) \/ Same
  <2>1. pc[t] = "new" /\ held[t] = None
    BY <1>4 DEF NewItem, IInv, Points
  <2>2. Cardinality(pool \cup HeldItems) < Limit
    BY <2>1, RoomForNew
  <2>3. Promised!Cardinality(Promised!Existing) = Cardinality(pool \cup HeldItems)
    BY <1>0, Zenon DEF Promised!Cardinality, Cardinality, Promised!IsFiniteSet, IsFiniteSet
  <2>4. ASSUME NEW i \in Items \ (pool \cup HeldItems),
               held' = [held EXCEPT ![t] = i], stale' = stale \ {i},
               UNCHANGED <<pool, cancelled>>
        PROVE  Promised!Make(t)
    BY <1>0, <2>1, <2>2, <2>3, <2>4 DEF Promised!Make
  <2> QED
    BY <1>4, <2>4 DEF NewItem
<1>5. ASSUME NEW t \in Threads, Retire(t) PROVE Promised!Discard(t)
  <2>1. held[t] # None /\ held[t] \in stale
    BY <1>5 DEF Retire, IInv, Points, Doomed
  <2> QED
    BY <1>5, <2>1 DEF Retire, Promised!Discard
<1>6. ASSUME NEW t \in Threads, PutSend(t)
      PROVE  Promised!GiveBack(t) \/ Promised!Discard(t)
  <2>1. held[t] # None
    BY <1>6 DEF PutSend, IInv, Points
  <2>2. ~(Cardinality(pool) >= Limit)
    <3>1. Cardinality(pool) < Limit
      BY <1>6, RoomForPut DEF PutNeverFull, PutSend
    <3>2. IsFiniteSet(Charged) /\ pool \in SUBSET Charged
      BY DEF Charged, IInv, Slots
    <3>3. Cardinality(pool) \in Nat
      BY <3>2, FS_Subset, FS_CardinalityType
    <3> QED
      BY <3>1, <3>3
  <2> QED
    BY <1>6, <2>1, <2>2 DEF PutSend, Promised!GiveBack, Promised!Discard
<1>7. ASSUME NEW t \in Threads, ItemReopened(t) PROVE Promised!Mend(t)
  BY <1>7 DEF ItemReopened, Promised!Mend
<1>8. ASSUME NEW i \in Items, ItemFails(i) PROVE Promised!Break
  BY <1>0, <1>8 DEF ItemFails, Promised!Break
<1>9. CASE Cancel
  BY <1>9 DEF Cancel, Promised!Close, Promised!Next
<1>10. CASE UNCHANGED vars
  BY <1>10 DEF vars
<1> QED
  BY <1>1, <1>3, <1>4, <1>5, <1>6, <1>7, <1>8, <1>9, <1>10
     DEF Next, ThreadStep, Promised!Next

\* blocking_pool.go implements ItemPool for every number of goroutines and every
\* limit: seen from outside, Get makes an item or takes an idle one, Put gives it
\* back, and an item that works is given up only after the client has left.
THEOREM PoolImplemented == Spec => ImplementsPool
<1>1. Init => Promised!Init
  BY DEF Init, Promised!Init
<1>2. Init => Doomed
  BY DEF Init, Doomed
<1>3. IInv /\ IInv' /\ Doomed /\ [Next]_vars => Doomed'
  BY DoomedStep
<1>4. IInv /\ Doomed /\ [Next]_vars => [Promised!Next]_<<pool, held, stale, cancelled>>
  BY PoolStep
<1> QED
  BY PoolInductive, <1>1, <1>2, <1>3, <1>4, PTL DEF Spec, ImplementsPool, Promised!Spec
=============================================================================
