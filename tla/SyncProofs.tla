----------------------------- MODULE SyncProofs -----------------------------
(***************************************************************************)
(* Proofs about semaphores, conditions and barriers, for every number of   *)
(* threads: what the counts of each version say, and that each semaphore   *)
(* implements CountingSemaphore and each barrier CyclicBarrier.            *)
(***************************************************************************)
EXTENDS MCSync, FiniteSetTheorems, TLAPS

-----------------------------------------------------------------------------
(* Counting.                                                               *)

LEMMA PartOfThreads ==
    ASSUME NEW A, A \subseteq Threads
    PROVE  /\ IsFiniteSet(A) /\ Cardinality(A) \in Nat /\ Cardinality(A) <= Cardinality(Threads)
           /\ Cardinality(Threads) \in Nat
           /\ Cardinality(A) = 0 <=> A = {}
           /\ Cardinality(A) = Cardinality(Threads) => A = Threads
<1>1. IsFiniteSet(A) /\ Cardinality(A) <= Cardinality(Threads) /\ (Cardinality(Threads) = Cardinality(A) => Threads = A)
  BY FS_Subset, SyncStateAssumption
<1> QED
  BY <1>1, FS_CardinalityType, FS_EmptySet, SyncStateAssumption

\* Two sets of threads that differ in t at most.
LEMMA CountOneThread ==
    ASSUME NEW A, NEW B, NEW t \in Threads, A \subseteq Threads, B \subseteq Threads,
           \A u \in Threads : u # t => (u \in A <=> u \in B)
    PROVE  /\ Cardinality(B) = Cardinality(A) + (IF t \in B THEN 1 ELSE 0) - (IF t \in A THEN 1 ELSE 0)
           /\ Cardinality(A) \in Nat /\ Cardinality(B) \in Nat
           /\ t \in A => Cardinality(A) > 0
<1>1. B = IF t \in B THEN A \cup {t} ELSE A \ {t}
  OBVIOUS
<1>2. Cardinality(A \cup {t}) = IF t \in A THEN Cardinality(A) ELSE Cardinality(A) + 1
  BY PartOfThreads, FS_AddElement
<1>3. Cardinality(A \ {t}) = IF t \in A THEN Cardinality(A) - 1 ELSE Cardinality(A)
  BY PartOfThreads, FS_RemoveElement
<1>4. /\ Cardinality(A) \in Nat /\ (Cardinality(A) = 0 <=> A = {})
      /\ Cardinality(B) \in Nat
  BY PartOfThreads
<1>5. t \in A => Cardinality(A) > 0
  BY <1>4
<1>6. CASE t \in B
  BY <1>1, <1>2, <1>4, <1>5, <1>6
<1>7. CASE t \notin B
  BY <1>1, <1>3, <1>4, <1>5, <1>7
<1> QED
  BY <1>6, <1>7

\* When thread t alone moves, the number of threads at a set of labels changes by
\* what becomes of t.
LEMMA CountAt ==
    ASSUME NEW t \in Threads, \A u \in Threads : u # t => pc'[u] = pc[u], NEW L
    PROVE  /\ Cardinality(At(L)') = Cardinality(At(L))
                  + (IF pc'[t] \in L THEN 1 ELSE 0) - (IF pc[t] \in L THEN 1 ELSE 0)
           /\ Cardinality(At(L)) \in Nat /\ Cardinality(At(L)') \in Nat
           /\ pc[t] \in L => Cardinality(At(L)) > 0
<1>1. (t \in At(L) <=> pc[t] \in L) /\ (t \in At(L)' <=> pc'[t] \in L)
  BY DEF At
<1>2. \A u \in Threads : u # t => (u \in At(L) <=> u \in At(L)')
  BY DEF At
<1>3. At(L) \subseteq Threads /\ At(L)' \subseteq Threads
  BY DEF At
<1> QED
  BY <1>1, <1>2, <1>3, CountOneThread
-----------------------------------------------------------------------------
(* The barrier over two semaphores.                                        *)

\* The last thread of a round, r, is about to let the others go.
Opening(r) ==
    /\ opened = Threads /\ Cardinality(Threads) = Height
    /\ \A t \in Threads : mine[t] = index
    /\ pc[r] \in {"reset", "post"} /\ \A t \in Threads : t # r => pc[t] = "wait"
    /\ sema[index] = 0 /\ sema[1 - index] = 0
    /\ current = IF pc[r] = "reset" THEN 0 ELSE Height

\* It did, and nobody has left.
Opened ==
    /\ opened = Threads
    /\ \A t \in Threads : mine[t] = index
    /\ \A t \in Threads : pc[t] \in {"wait", "toggle"}
    /\ sema[index] = Cardinality(At({"wait"})) /\ sema[1 - index] = 0
    /\ current = Height

\* Somebody has left and toggled the index: those who come now are of a new round.
Turned ==
    /\ \A t \in opened : pc[t] \in {"wait", "toggle"} /\ mine[t] = 1 - index
    /\ \A t \in Threads \ opened :
          pc[t] \in {"idle", "count", "wait"} /\ (pc[t] # "idle" => mine[t] = index)
    /\ sema[index] = 0 /\ sema[1 - index] = Cardinality(At({"wait"}) \cap opened)
    /\ current = Height - Cardinality(At({"wait"}) \ opened)

BarrierTypes ==
    /\ mutex = None /\ opened \subseteq Threads
    /\ result \in [Threads -> {"none", "primary", "secondary", "timeout", "error"}]
    /\ cycle \in 0 .. CycleModulus - 1 /\ current \in Int
    /\ index \in 0 .. 1 /\ sema \in [0 .. 1 -> Nat]

PortableBarrierInv ==
    /\ BarrierTypes
    /\ pc \in [Threads -> {"idle", "count", "wait", "reset", "post", "toggle"}]
    /\ mine \in [Threads -> 0 .. 1]
    /\ (\E r \in Threads : Opening(r)) \/ Opened \/ Turned

\* Threads of the round that is under way.
LEMMA PortableInside ==
    ASSUME kind = "portableBarrier", kind \in BarrierKinds, pc \in [Threads -> {"idle", "count", "wait", "reset", "post", "toggle"}]
    PROVE  Inside = At({"wait"}) \ opened
BY DEF Inside, At
-----------------------------------------------------------------------------
(* Steps of the abstract barrier.                                          *)

PromiseStep == [BarrierPromise!Next]_<<[t \in Threads |-> Place(t)], Primary>>

LEMMA PromiseSame == \A A : BarrierPromise!Cardinality(A) = Cardinality(A)
BY DEF BarrierPromise!Cardinality, Cardinality, BarrierPromise!IsFiniteSet, IsFiniteSet

LEMMA PromisePlaces ==
    /\ \A t : Place(t) = IF t \in opened THEN "through" ELSE IF t \in Inside THEN "in" ELSE "out"
    /\ \A t : Place(t)' = IF t \in opened' THEN "through" ELSE IF t \in Inside' THEN "in" ELSE "out"
    /\ Inside \cap opened = {} /\ Inside \subseteq Threads
    /\ Inside' \cap opened' = {} /\ Inside' \subseteq Threads
BY DEF Place, Inside, At

LEMMA PromiseIn ==
    ASSUME opened \subseteq Threads
    PROVE  BarrierPromise!In("in") = Inside /\ BarrierPromise!In("through") = opened
BY PromisePlaces DEF BarrierPromise!In

LEMMA PromiseArrive ==
    ASSUME opened \subseteq Threads, NEW t \in Threads, t \notin opened, t \notin Inside,
           Cardinality(Inside) + 1 < Height, opened' = opened, Inside' = Inside \cup {t}, Primary' = Primary
    PROVE  PromiseStep
<1>1. [u \in Threads |-> Place(u)]' = [[u \in Threads |-> Place(u)] EXCEPT ![t] = "in"]
  BY PromisePlaces
<1>2. [u \in Threads |-> Place(u)][t] = "out"
  BY PromisePlaces
<1>3. BarrierPromise!Cardinality(BarrierPromise!In("in")) + 1 < Height
  BY PromiseIn, PromiseSame
<1>4. BarrierPromise!Arrive(t)
  BY <1>1, <1>2, <1>3 DEF BarrierPromise!Arrive
<1> QED
  BY <1>4 DEF PromiseStep, BarrierPromise!Next

LEMMA PromiseOpen ==
    ASSUME opened = {}, NEW t \in Threads, t \notin Inside, Cardinality(Inside) + 1 = Height,
           opened' = Inside \cup {t}, Inside' = {}, Primary' = FALSE
    PROVE  PromiseStep
<1>1. [u \in Threads |-> Place(u)]' =
          [u \in Threads |-> IF u = t \/ [v \in Threads |-> Place(v)][u] = "in" THEN "through"
                             ELSE [v \in Threads |-> Place(v)][u]]
  BY PromisePlaces
<1>2. [u \in Threads |-> Place(u)][t] = "out"
  BY PromisePlaces
<1>3. BarrierPromise!Cardinality(BarrierPromise!In("in")) + 1 = Height /\ BarrierPromise!In("through") = {}
  BY PromiseIn, PromiseSame
<1>4. BarrierPromise!Open(t)
  BY <1>1, <1>2, <1>3 DEF BarrierPromise!Open
<1> QED
  BY <1>4 DEF PromiseStep, BarrierPromise!Next

LEMMA PromisePass ==
    ASSUME opened \subseteq Threads, NEW t, t \in opened, opened' = opened \ {t}, Inside' = Inside,
           Primary \in BOOLEAN,
           Primary' = TRUE \/ (Primary' = Primary /\ opened # {t})
    PROVE  PromiseStep
<1>0. t \in Threads /\ t \notin Inside
  BY PromisePlaces
<1>1. [u \in Threads |-> Place(u)]' = [[u \in Threads |-> Place(u)] EXCEPT ![t] = "out"]
  BY <1>0, PromisePlaces
<1>2. [u \in Threads |-> Place(u)][t] = "through"
  BY <1>0, PromisePlaces
<1>3. CASE ~Primary /\ Primary'
  <2>1. BarrierPromise!PassPrimary(t)
    BY <1>0, <1>1, <1>2, <1>3 DEF BarrierPromise!PassPrimary
  <2> QED
    BY <1>0, <2>1 DEF PromiseStep, BarrierPromise!Next
<1>4. CASE Primary' = Primary /\ (Primary \/ opened # {t})
  <2>1. BarrierPromise!PassSecondary(t)
    BY <1>0, <1>1, <1>2, <1>4, PromiseIn DEF BarrierPromise!PassSecondary
  <2> QED
    BY <1>0, <2>1 DEF PromiseStep, BarrierPromise!Next
<1> QED
  BY <1>3, <1>4

LEMMA PromiseStays ==
    ASSUME opened' = opened, Inside' = Inside, Primary' = Primary
    PROVE  PromiseStep
<1>1. [u \in Threads |-> Place(u)]' = [u \in Threads |-> Place(u)]
  BY PromisePlaces
<1> QED
  BY <1>1 DEF PromiseStep
-----------------------------------------------------------------------------
(* The steps of the barrier over two semaphores.                           *)

PortablePlaces ==
    /\ kind = "portableBarrier" /\ kind' = kind /\ kind \in BarrierKinds
    /\ pc \in [Threads -> {"idle", "count", "wait", "reset", "post", "toggle"}]
    /\ pc' \in [Threads -> {"idle", "count", "wait", "reset", "post", "toggle"}]

LEMMA PortableMapped ==
    ASSUME PortablePlaces
    PROVE  /\ Inside = At({"wait"}) \ opened /\ Inside' = At({"wait"})' \ opened'
           /\ Primary <=> \A t \in opened : index # mine[t]
           /\ Primary' <=> \A t \in opened' : index' # mine'[t]
           /\ Primary \in BOOLEAN /\ Primary' \in BOOLEAN
BY DEF PortablePlaces, Inside, Primary, At

LEMMA BarrierReadsIndex ==
    ASSUME PortableBarrierInv, kind = "portableBarrier", kind \in BarrierKinds, NEW t \in Threads, ReadIndex(t)
    PROVE  PortableBarrierInv' /\ PromiseStep
<1> USE DEF ReadIndex, Goto
<1>0. pc[t] = "idle" /\ pc' = [pc EXCEPT ![t] = "count"] /\ mine' = [mine EXCEPT ![t] = index]
      /\ PortablePlaces /\ BarrierTypes' /\ mine' \in [Threads -> 0 .. 1]
  BY DEF PortableBarrierInv, BarrierTypes, PortablePlaces
<1>1. Turned /\ t \notin opened
  BY <1>0 DEF PortableBarrierInv, Opening, Opened, Turned
<1>2. At({"wait"})' = At({"wait"})
  BY <1>0 DEF At, PortablePlaces
<1>3. Turned'
  BY <1>0, <1>1, <1>2 DEF Turned, PortablePlaces, PortableBarrierInv
<1>4. Inside' = Inside /\ Primary' = Primary
  BY <1>0, <1>1, <1>2, PortableMapped DEF PortableBarrierInv, BarrierTypes
<1> QED
  BY <1>0, <1>3, <1>4, PromiseStays DEF PortableBarrierInv, PortablePlaces

LEMMA BarrierCounts ==
    ASSUME PortableBarrierInv, kind = "portableBarrier", kind \in BarrierKinds, NEW t \in Threads, CountArrival(t),
           Cardinality(Threads) <= Height
    PROVE  PortableBarrierInv' /\ PromiseStep
<1> USE DEF CountArrival, Goto
<1>0. /\ pc[t] = "count" /\ pc' = [pc EXCEPT ![t] = IF current' = 0 THEN "reset" ELSE "wait"]
      /\ current' = current - 1 /\ PortablePlaces /\ BarrierTypes' /\ mine' = mine
  BY DEF PortableBarrierInv, BarrierTypes, PortablePlaces, At
<1>1. Turned /\ t \notin opened /\ mine[t] = index
  BY <1>0 DEF PortableBarrierInv, Opening, Opened, Turned
<1> DEFINE A == At({"wait"}) \ opened
<1>2. A \subseteq Threads /\ t \notin A /\ A \cup {t} \subseteq Threads
  BY <1>0 DEF At
<1>3. /\ Cardinality(A \cup {t}) = Cardinality(A) + 1 /\ Cardinality(A) \in Nat
      /\ Cardinality(A \cup {t}) <= Cardinality(Threads) /\ Cardinality(Threads) \in Nat
      /\ Cardinality(A \cup {t}) = Cardinality(Threads) => A \cup {t} = Threads
  BY <1>2, PartOfThreads, FS_AddElement
<1>4. current = Height - Cardinality(A) /\ Height \in Nat \ {0} /\ Inside = A
  BY <1>0, <1>1, PortableMapped, BarriersAssumption DEF Turned
<1>5. CASE current' # 0
  <2>1. Cardinality(A) + 1 < Height
    BY <1>0, <1>3, <1>4, <1>5
  <2>2. opened' = opened /\ At({"wait"})' = At({"wait"}) \cup {t} /\ sema' = sema /\ index' = index
    BY <1>0, <1>5 DEF At, PortableBarrierInv
  <2>3. At({"wait"})' \ opened' = A \cup {t} /\ At({"wait"})' \cap opened' = At({"wait"}) \cap opened
    BY <1>1, <2>2
  <2>4. Turned'
    <3>1. \A u \in opened' : pc'[u] \in {"wait", "toggle"} /\ mine'[u] = 1 - index'
      BY <1>0, <1>1, <2>2 DEF Turned, PortableBarrierInv, BarrierTypes
    <3>2. \A u \in Threads \ opened' :
             pc'[u] \in {"idle", "count", "wait"} /\ (pc'[u] # "idle" => mine'[u] = index')
      BY <1>0, <1>1, <1>5, <2>2 DEF Turned, PortableBarrierInv
    <3>3. sema'[index'] = 0 /\ sema'[1 - index'] = Cardinality(At({"wait"})' \cap opened')
      BY <1>1, <2>2, <2>3 DEF Turned
    <3>4. current' = Height - Cardinality(At({"wait"})' \ opened')
      <4>1. Cardinality(At({"wait"})' \ opened') = Cardinality(A) + 1 /\ Cardinality(A) \in Nat
        BY <1>3, <2>3
      <4>2. current' = current - 1 /\ current = Height - Cardinality(A) /\ Height \in Nat
        BY <1>0, <1>4
      <4> HIDE DEF A
      <4> QED
        BY <4>1, <4>2
    <3> QED
      BY <3>1, <3>2, <3>3, <3>4 DEF Turned
  <2>5. Inside' = Inside \cup {t} /\ Primary' = Primary
    BY <1>0, <1>4, <2>2, <2>3, PortableMapped
  <2>6. t \notin Inside
    BY <1>2, <1>4
  <2>7. PromiseStep
    BY <1>1, <1>4, <2>1, <2>2, <2>5, <2>6, PromiseArrive DEF PortableBarrierInv, BarrierTypes
  <2> QED
    BY <1>0, <2>4, <2>7 DEF PortableBarrierInv, PortablePlaces
<1>6. CASE current' = 0
  <2>1. Cardinality(A) + 1 = Height
    BY <1>0, <1>3, <1>4, <1>6
  <2>2. A \cup {t} = Threads /\ Cardinality(Threads) = Height
    BY <1>3, <1>4, <2>1
  <2>3. opened = {} /\ At({"wait"}) = A
    BY <1>1, <2>2 DEF PortableBarrierInv, BarrierTypes
  <2>4. opened' = Threads /\ At({"wait"})' = A /\ sema' = sema /\ index' = index /\ pc'[t] = "reset"
    BY <1>0, <1>6, <2>2, <2>3 DEF At, PortableBarrierInv
  <2>5. Cardinality(At({"wait"}) \cap opened) = 0
    BY <2>3, FS_EmptySet
  <2>6. \A u \in Threads : u # t => pc[u] = "wait" /\ mine[u] = index
    BY <1>1, <2>2, <2>3 DEF At, Turned
  <2>7. Opening(t)'
    BY <1>0, <1>1, <1>6, <2>2, <2>4, <2>5, <2>6 DEF Opening, Turned, PortableBarrierInv
  <2>8. Inside' = {} /\ ~Primary'
    BY <1>0, <1>1, <1>2, <2>4, PortableMapped
  <2>9. t \notin Inside /\ opened' = Inside \cup {t}
    BY <1>2, <1>4, <2>2, <2>4
  <2>10. PromiseStep
    BY <1>0, <1>4, <2>1, <2>3, <2>8, <2>9, PromiseOpen, PortableMapped
  <2> QED
    BY <1>0, <2>7, <2>10 DEF PortableBarrierInv, PortablePlaces
<1> QED
  BY <1>5, <1>6

LEMMA BarrierOpens ==
    ASSUME PortableBarrierInv, kind = "portableBarrier", kind \in BarrierKinds, NEW t \in Threads,
           ResetCount(t) \/ PostOthers(t)
    PROVE  PortableBarrierInv' /\ PromiseStep
<1> USE DEF ResetCount, PostOthers, PostSome, Goto
<1>0. /\ pc[t] \in {"reset", "post"} /\ opened' = opened /\ mine' = mine /\ index' = index
      /\ pc' = [pc EXCEPT ![t] = IF pc[t] = "reset" /\ Height > 1 THEN "post" ELSE "toggle"]
      /\ IF pc[t] = "reset" THEN current' = Height /\ sema' = sema
         ELSE current' = current /\ sema' = [sema EXCEPT ![mine[t]] = @ + (Height - 1)]
  OBVIOUS
<1>1. Opening(t) /\ Height \in Nat \ {0} /\ current' = Height
  BY <1>0, BarriersAssumption DEF PortableBarrierInv, Opening, Opened, Turned
<1>2. PortablePlaces /\ mine' \in [Threads -> 0 .. 1] /\ mine[t] = index
  BY <1>0, <1>1 DEF PortableBarrierInv, PortablePlaces, Opening
<1>3. BarrierTypes'
  BY <1>0, <1>1, <1>2 DEF PortableBarrierInv, BarrierTypes
<1>4. At({"wait"})' = At({"wait"}) /\ At({"wait"}) = Threads \ {t}
  BY <1>0, <1>1 DEF At, PortableBarrierInv, Opening
<1>5. Cardinality(At({"wait"})) = Height - 1
  <2>1. Cardinality(Threads \ {t}) = Cardinality(Threads) - 1
    BY FS_RemoveElement, SyncStateAssumption
  <2> QED
    BY <1>1, <1>4, <2>1 DEF Opening
<1>6. Inside' = Inside /\ Primary' = Primary
  BY <1>0, <1>2, <1>4, PortableMapped
<1>7. CASE pc[t] = "reset" /\ Height > 1
  <2>1. Opening(t)'
    BY <1>0, <1>1, <1>2, <1>7 DEF Opening, PortablePlaces
  <2> QED
    BY <1>0, <1>2, <1>3, <1>6, <2>1, PromiseStays DEF PortableBarrierInv, PortablePlaces
<1>8. CASE ~(pc[t] = "reset" /\ Height > 1)
  <2>1. sema'[index] = Height - 1 /\ sema'[1 - index] = 0
    <3>1. CASE pc[t] = "reset"
      BY <1>0, <1>1, <1>8, <3>1 DEF Opening
    <3>2. CASE pc[t] = "post"
      BY <1>0, <1>1, <1>2, <3>2 DEF Opening, PortableBarrierInv, BarrierTypes
    <3> QED
      BY <1>0, <3>1, <3>2
  <2>2. \A u \in Threads : pc'[u] \in {"wait", "toggle"} /\ mine'[u] = index'
    BY <1>0, <1>1, <1>2, <1>8 DEF Opening, PortablePlaces
  <2>3. Opened'
    BY <1>0, <1>1, <1>4, <1>5, <2>1, <2>2 DEF Opened, Opening
  <2> QED
    BY <1>0, <1>2, <1>3, <1>6, <2>3, PromiseStays DEF PortableBarrierInv, PortablePlaces
<1> QED
  BY <1>7, <1>8

LEMMA BarrierWaits ==
    ASSUME PortableBarrierInv, kind = "portableBarrier", kind \in BarrierKinds, NEW t \in Threads, WaitSemaphore(t),
           BarrierTimeouts = FALSE
    PROVE  PortableBarrierInv' /\ PromiseStep
<1> USE DEF WaitSemaphore, Goto
<1>0. /\ pc[t] = "wait" /\ pc' = [pc EXCEPT ![t] = "toggle"] /\ sema[mine[t]] > 0
      /\ sema' = [sema EXCEPT ![mine[t]] = @ - 1] /\ opened' = opened /\ mine' = mine /\ index' = index
      /\ current' = current /\ PortablePlaces
  BY DEF PortableBarrierInv, PortablePlaces
<1>1. mine[t] \in 0 .. 1 /\ index \in 0 .. 1 /\ sema \in [0 .. 1 -> Nat]
  BY DEF PortableBarrierInv, BarrierTypes
<1>2. BarrierTypes'
  BY <1>0, <1>1 DEF PortableBarrierInv, BarrierTypes, WaitSemaphore
<1>3. Opened \/ Turned
  BY <1>0, <1>1 DEF PortableBarrierInv, Opening
<1>4. At({"wait"})' = At({"wait"}) \ {t} /\ t \in At({"wait"}) /\ At({"wait"}) \subseteq Threads
  BY <1>0 DEF At, PortablePlaces
<1>5. CASE Opened
  <2>1. Cardinality(At({"wait"})') = Cardinality(At({"wait"})) - 1
    BY <1>4, PartOfThreads, FS_RemoveElement
  <2>2. sema'[index] = sema[index] - 1 /\ sema'[1 - index] = sema[1 - index]
    BY <1>0, <1>1, <1>5 DEF Opened
  <2>3. \A u \in Threads : pc'[u] \in {"wait", "toggle"} /\ mine'[u] = index'
    BY <1>0, <1>5 DEF Opened, PortablePlaces
  <2>4. Opened'
    BY <1>0, <1>5, <2>1, <2>2, <2>3 DEF Opened
  <2>5. Inside' = Inside /\ Primary' = Primary
    BY <1>0, <1>4, <1>5, PortableMapped DEF Opened
  <2> QED
    BY <1>0, <1>1, <1>2, <2>4, <2>5, PromiseStays DEF PortableBarrierInv, PortablePlaces
<1>6. CASE Turned
  <2>1. t \in opened /\ mine[t] = 1 - index
    BY <1>0, <1>1, <1>6 DEF Turned
  <2>2. At({"wait"})' \ opened' = At({"wait"}) \ opened
        /\ At({"wait"})' \cap opened' = (At({"wait"}) \cap opened) \ {t}
    BY <1>0, <1>4, <2>1
  <2>3. Cardinality((At({"wait"}) \cap opened) \ {t}) = Cardinality(At({"wait"}) \cap opened) - 1
    BY <1>4, <2>1, PartOfThreads, FS_RemoveElement
  <2>4. sema'[1 - index] = sema[1 - index] - 1 /\ sema'[index] = sema[index]
    BY <1>0, <1>1, <2>1
  <2>5. \A u \in Threads : pc'[u] = (IF u = t THEN "toggle" ELSE pc[u]) /\ mine'[u] = mine[u]
    BY <1>0 DEF PortablePlaces
  <2>6. Turned'
    <3>1. \A u \in opened' : pc'[u] \in {"wait", "toggle"} /\ mine'[u] = 1 - index'
      BY <1>0, <1>6, <2>5 DEF Turned, PortableBarrierInv, BarrierTypes
    <3>2. \A u \in Threads \ opened' :
             pc'[u] \in {"idle", "count", "wait"} /\ (pc'[u] # "idle" => mine'[u] = index')
      BY <1>0, <1>6, <2>1, <2>5 DEF Turned
    <3>3. sema'[index'] = 0 /\ sema'[1 - index'] = Cardinality(At({"wait"})' \cap opened')
      BY <1>0, <1>6, <2>2, <2>3, <2>4 DEF Turned
    <3>4. current' = Height - Cardinality(At({"wait"})' \ opened')
      BY <1>0, <1>6, <2>2 DEF Turned
    <3> QED
      BY <3>1, <3>2, <3>3, <3>4 DEF Turned
  <2>7. Inside' = Inside /\ Primary' = Primary
    BY <1>0, <2>2, PortableMapped
  <2> QED
    BY <1>0, <1>1, <1>2, <2>6, <2>7, PromiseStays DEF PortableBarrierInv, PortablePlaces
<1> QED
  BY <1>3, <1>5, <1>6

LEMMA BarrierToggles ==
    ASSUME PortableBarrierInv, kind = "portableBarrier", kind \in BarrierKinds, NEW t \in Threads, ToggleIndex(t)
    PROVE  PortableBarrierInv' /\ PromiseStep
<1> USE DEF ToggleIndex, Ends, Goto
<1>0. /\ pc[t] = "toggle" /\ pc' = [pc EXCEPT ![t] = "idle"] /\ opened' = opened \ {t}
      /\ mine' = mine /\ sema' = sema /\ current' = current /\ PortablePlaces
      /\ index' = IF index = mine[t] THEN 1 - index ELSE index
  BY DEF PortableBarrierInv, PortablePlaces
<1>1. mine[t] \in 0 .. 1 /\ index \in 0 .. 1
  BY DEF PortableBarrierInv, BarrierTypes
<1>2. BarrierTypes'
  BY <1>0, <1>1 DEF PortableBarrierInv, BarrierTypes
<1>3. t \in opened /\ (Opened \/ Turned)
  BY <1>0 DEF PortableBarrierInv, Opening, Opened, Turned
<1>4. At({"wait"})' = At({"wait"}) /\ t \notin At({"wait"})
  BY <1>0 DEF At, PortablePlaces
<1>5. Inside' = Inside
  BY <1>0, <1>4, PortableMapped
<1>6. \A u \in Threads : pc'[u] = IF u = t THEN "idle" ELSE pc[u]
  BY <1>0 DEF PortablePlaces
<1>7. Turned' /\ Primary' = TRUE
  <2>1. CASE Opened
    <3>1. index' = 1 - index /\ 1 - index' = index
      BY <1>0, <1>1, <2>1 DEF Opened
    <3>2. At({"wait"}) \ opened' = {} /\ At({"wait"}) \cap opened' = At({"wait"})
      BY <1>0, <1>4, <2>1 DEF Opened, At
    <3>3. Height \in Nat /\ Cardinality({}) = 0
      BY BarriersAssumption, FS_EmptySet
    <3>4. \A u \in opened' : pc'[u] \in {"wait", "toggle"} /\ mine'[u] = 1 - index'
      BY <1>0, <1>6, <2>1, <3>1 DEF Opened
    <3>5. \A u \in Threads \ opened' :
             pc'[u] \in {"idle", "count", "wait"} /\ (pc'[u] # "idle" => mine'[u] = index')
      BY <1>0, <1>6, <2>1 DEF Opened
    <3>6. Turned'
      BY <1>0, <1>4, <2>1, <3>1, <3>2, <3>3, <3>4, <3>5 DEF Turned, Opened
    <3>7. Primary'
      BY <1>0, <1>1, <2>1, <3>1, PortableMapped DEF Opened
    <3>8. Primary' = TRUE
      BY <1>0, <3>7, PortableMapped
    <3> QED
      BY <3>6, <3>8
  <2>2. CASE Turned
    <3>1. index' = index
      BY <1>0, <1>1, <1>3, <2>2 DEF Turned
    <3>2. At({"wait"}) \ opened' = At({"wait"}) \ opened /\ At({"wait"}) \cap opened' = At({"wait"}) \cap opened
      BY <1>0, <1>4
    <3>3. \A u \in opened' : pc'[u] \in {"wait", "toggle"} /\ mine'[u] = 1 - index'
      BY <1>0, <1>6, <2>2, <3>1 DEF Turned
    <3>4. \A u \in Threads \ opened' :
             pc'[u] \in {"idle", "count", "wait"} /\ (pc'[u] # "idle" => mine'[u] = index')
      BY <1>0, <1>6, <2>2, <3>1 DEF Turned
    <3>5. Turned'
      BY <1>0, <1>4, <2>2, <3>1, <3>2, <3>3, <3>4 DEF Turned
    <3>6. Primary'
      BY <1>0, <1>1, <2>2, <3>1, PortableMapped DEF Turned
    <3>7. Primary' = TRUE
      BY <1>0, <3>6, PortableMapped
    <3> QED
      BY <3>5, <3>7
  <2> QED
    BY <1>3, <2>1, <2>2
<1>8. PromiseStep
  <2>1. opened \subseteq Threads /\ Primary \in BOOLEAN /\ opened' = opened \ {t}
    BY <1>0, PortableMapped DEF PortableBarrierInv, BarrierTypes
  <2>2. Primary' = TRUE \/ (Primary' = Primary /\ opened # {t})
    BY <1>7
  <2>3. t \in opened
    BY <1>3
  <2> HIDE DEF ToggleIndex, Ends, Goto
  <2> QED
    BY <1>5, <2>1, <2>2, <2>3, PromisePass
<1> QED
  BY <1>0, <1>2, <1>7, <1>8 DEF PortableBarrierInv, PortablePlaces
-----------------------------------------------------------------------------
(* The barriers with a mutex and a condition.                              *)

LockedLabels == {"idle", "sleep", "woken", "primary"}
LockedKind == kind \in {"unixBarrier", "kettleBarrier"} /\ kind \in BarrierKinds

\* Who was woken may find the cycle it came in, after the number went round, and
\* sleep on though a round let it through; there is one primary thread at a time,
\* unless there are threads enough for a round to open while the last one leaves.
LockedBarrierInv ==
    /\ BarrierTypes
    /\ pc \in [Threads -> LockedLabels] /\ mine \in [Threads -> 0 .. CycleModulus - 1]
    /\ \A t \in Threads : pc[t] \in {"woken", "primary"} => t \in opened
    /\ \A t \in Threads : pc[t] = "idle" => t \notin opened
    /\ \A t \in Threads : pc[t] = "sleep" /\ t \notin opened => mine[t] = cycle
    /\ Cardinality(Threads) <= Height =>
          \A t, u \in Threads : pc[t] = "primary" /\ pc[u] = "primary" => t = u
    /\ current = Height - Cardinality(At({"sleep"}) \ opened) /\ current \in 1 .. Height

LEMMA LockedMapped ==
    ASSUME LockedKind, kind' = kind, pc \in [Threads -> LockedLabels], pc' \in [Threads -> LockedLabels]
    PROVE  /\ Inside = At({"sleep"}) \ opened /\ Inside' = At({"sleep"})' \ opened'
           /\ Primary <=> \A t \in Threads : pc[t] # "primary"
           /\ Primary' <=> \A t \in Threads : pc'[t] # "primary"
           /\ Primary \in BOOLEAN /\ Primary' \in BOOLEAN
BY DEF LockedKind, LockedLabels, Inside, Primary, At

LEMMA LockedArrives ==
    ASSUME LockedBarrierInv, LockedKind, CyclesFit, NEW t \in Threads, ArriveLocked(t)
    PROVE  LockedBarrierInv' /\ (Cardinality(Threads) <= Height => PromiseStep)
<1> USE DEF ArriveLocked, ArriveLast, ArriveFirst, Goto
<1> DEFINE A == At({"sleep"}) \ opened
<1>0. pc[t] = "idle" /\ t \notin opened /\ kind' = kind /\ pc \in [Threads -> LockedLabels]
      /\ opened \subseteq Threads /\ mutex' = None /\ index' = index /\ sema' = sema
  BY DEF LockedBarrierInv, BarrierTypes
<1>1. A \subseteq Threads /\ t \notin A /\ A \cup {t} \subseteq Threads
  BY <1>0 DEF At
<1>2. /\ Cardinality(A \cup {t}) = Cardinality(A) + 1 /\ Cardinality(A) \in Nat
      /\ Cardinality(A \cup {t}) <= Cardinality(Threads) /\ Cardinality(Threads) \in Nat
      /\ Cardinality(A \cup {t}) = Cardinality(Threads) => A \cup {t} = Threads
  BY <1>1, PartOfThreads, FS_AddElement
<1>3. current = Height - Cardinality(A) /\ Height \in Nat \ {0} /\ current \in 1 .. Height
  BY BarriersAssumption DEF LockedBarrierInv
<1>4. cycle \in 0 .. CycleModulus - 1 /\ CycleModulus \in Nat /\ CycleModulus > 1
  BY BarriersAssumption DEF LockedBarrierInv, BarrierTypes
<1>5. CASE current = 1
  <2>1. /\ result' = result /\ current' = Height /\ mine' = mine /\ cycle' = (cycle + 1) % CycleModulus
        /\ opened' = opened \cup {t} \cup At({"wait", "sleep"})
        /\ pc' = [u \in Threads |-> IF u = t THEN "primary" ELSE IF pc[u] = "sleep" THEN "woken" ELSE pc[u]]
    BY <1>5 DEF Opens
  <2>2. \A u \in Threads : pc'[u] = IF u = t THEN "primary" ELSE IF pc[u] = "sleep" THEN "woken" ELSE pc[u]
    BY <2>1
  <2>3. At({"wait", "sleep"}) = At({"sleep"})
    BY <1>0 DEF At, LockedLabels
  <2>4. opened' = opened \cup {t} \cup At({"sleep"}) /\ opened' \subseteq Threads
    BY <1>0, <2>1, <2>3 DEF At
  <2>5. At({"sleep"})' = {}
    BY <2>2 DEF At
  <2>6. cycle' \in 0 .. CycleModulus - 1
    BY <1>4, <2>1
  <2>7. BarrierTypes'
    BY <1>0, <1>3, <2>1, <2>4, <2>6 DEF BarrierTypes, LockedBarrierInv
  <2>8. current' = Height - Cardinality(At({"sleep"})' \ opened') /\ current' \in 1 .. Height
    <3>1. Cardinality(At({"sleep"})' \ opened') = 0
      BY <2>5, FS_EmptySet
    <3> QED
      BY <1>3, <2>1, <3>1
  <2>9. pc' \in [Threads -> LockedLabels] /\ mine' \in [Threads -> 0 .. CycleModulus - 1]
    <3>1. \A u \in Threads : pc'[u] \in LockedLabels
      BY <1>0, <2>2 DEF LockedLabels
    <3> QED
      BY <2>1, <3>1 DEF LockedBarrierInv
  <2>10. Cardinality(A) + 1 = Height
    <3> HIDE DEF A
    <3> QED
      BY <1>2, <1>3, <1>5
  \* As many threads as the height: all others wait.
  <2>11. ASSUME Cardinality(Threads) <= Height
         PROVE  opened = {} /\ A \cup {t} = Threads /\ \A u \in Threads : u # t => pc[u] = "sleep"
    <3>1. A \cup {t} = Threads
      <4>1. Cardinality(A \cup {t}) = Cardinality(Threads)
        <5> HIDE DEF A
        <5> QED
          BY <1>2, <1>3, <2>10, <2>11
      <4> QED
        BY <1>2, <4>1
    <3> QED
      BY <1>0, <1>1, <3>1 DEF At
  <2>12. LockedBarrierInv'
    <3>1. \A u \in Threads : pc'[u] \in {"woken", "primary"} => u \in opened'
      BY <2>2, <2>4 DEF LockedBarrierInv, At
    <3>2. \A u \in Threads : pc'[u] = "idle" => u \notin opened'
      BY <2>2, <2>4 DEF LockedBarrierInv, At
    <3>3. \A u \in Threads : pc'[u] # "sleep"
      BY <2>2
    <3>4. Cardinality(Threads) <= Height =>
             \A u, v \in Threads : pc'[u] = "primary" /\ pc'[v] = "primary" => u = v
      BY <2>2, <2>11
    <3> QED
      BY <2>7, <2>8, <2>9, <3>1, <3>2, <3>3, <3>4 DEF LockedBarrierInv
  <2>13. ASSUME Cardinality(Threads) <= Height PROVE PromiseStep
    <3>1. opened = {} /\ A \cup {t} = Threads
      BY <2>11, <2>13
    <3>2. Inside = A /\ Inside' = {} /\ ~Primary'
      BY <1>0, <2>2, <2>5, <2>9, LockedMapped
    <3>3. Primary' = FALSE
      BY <3>2, <1>0, <2>9, LockedMapped
    <3>4. t \notin Inside /\ opened' = Inside \cup {t}
      BY <1>1, <2>4, <3>1, <3>2
    <3>5. Cardinality(Inside) + 1 = Height
      BY <2>10, <3>2
    <3> HIDE DEF ArriveLocked, ArriveLast, ArriveFirst, Goto, A
    <3> QED
      BY <3>1, <3>2, <3>3, <3>4, <3>5, PromiseOpen
  <2> QED
    BY <2>12, <2>13
<1>6. CASE current # 1
  \* The cast to unsigned loses nothing, so t sleeps.
  <2>0. cycle % UnsignedModulus = cycle
    <3>1. UnsignedModulus \in Nat \ {0} /\ cycle \in 0 .. UnsignedModulus - 1
      BY <1>4, BarriersAssumption DEF CyclesFit
    <3> QED
      BY ONLY <3>1
  <2>1. /\ current' = current - 1 /\ cycle' = cycle /\ opened' = opened /\ result' = result
        /\ mine' = [mine EXCEPT ![t] = cycle] /\ pc' = [pc EXCEPT ![t] = "sleep"]
    <3>1. mine' = [mine EXCEPT ![t] = cycle] /\ mine'[t] = cycle
      BY <1>6, <2>0 DEF LockedBarrierInv
    <3> QED
      BY <1>6, <3>1
  <2>2. pc' \in [Threads -> LockedLabels] /\ mine' \in [Threads -> 0 .. CycleModulus - 1]
    BY <1>0, <1>4, <2>1 DEF LockedLabels, LockedBarrierInv
  <2>3. \A u \in Threads : pc'[u] = (IF u = t THEN "sleep" ELSE pc[u]) /\ mine'[u] = IF u = t THEN cycle ELSE mine[u]
    BY <1>0, <2>1 DEF LockedBarrierInv
  <2>4. At({"sleep"})' = At({"sleep"}) \cup {t}
    BY <2>3 DEF At
  <2>5. At({"sleep"})' \ opened' = A \cup {t}
    BY <1>0, <2>1, <2>4
  <2>6. Cardinality(At({"sleep"})' \ opened') = Cardinality(A) + 1
    BY <1>2, <2>5
  <2>7. current' = Height - Cardinality(At({"sleep"})' \ opened') /\ current' \in 1 .. Height
    <3> DEFINE m == Cardinality(At({"sleep"})' \ opened')
    <3>1. m = Cardinality(A) + 1
      BY <2>6
    <3> HIDE DEF A, m
    <3>2. current' = Height - m /\ current' \in 1 .. Height
      BY <1>2, <1>3, <1>6, <2>1, <3>1
    <3> QED
      BY <3>2 DEF m
  <2>8. BarrierTypes'
    BY <1>0, <2>1, <2>7 DEF BarrierTypes, LockedBarrierInv
  <2>9. LockedBarrierInv'
    BY <1>0, <2>1, <2>2, <2>3, <2>7, <2>8 DEF LockedBarrierInv
  <2>10. Inside = A /\ Inside' = A \cup {t}
    BY <1>0, <2>2, <2>5, LockedMapped
  <2>11. Primary' = Primary
    BY <1>0, <2>2, <2>3, LockedMapped
  <2>12. Cardinality(Inside) + 1 < Height
    <3>1. Inside = A
      BY <2>10
    <3> HIDE DEF A
    <3> QED
      BY <1>2, <1>3, <1>6, <3>1
  <2>13. t \notin Inside /\ Inside' = Inside \cup {t} /\ opened' = opened
    BY <1>1, <2>1, <2>10
  <2> HIDE DEF ArriveLocked, ArriveLast, ArriveFirst, Goto, A
  <2> QED
    BY <1>0, <2>9, <2>11, <2>12, <2>13, PromiseArrive
<1> QED
  BY <1>5, <1>6

LEMMA LockedRetests ==
    ASSUME LockedBarrierInv, LockedKind, NEW t \in Threads, Retest(t)
    PROVE  LockedBarrierInv' /\ PromiseStep
<1> USE DEF Retest, Goto, Ends
<1>0. /\ pc[t] \in {"sleep", "woken"} /\ kind' = kind /\ pc \in [Threads -> LockedLabels]
      /\ mutex' = None /\ mine' = mine /\ index' = index /\ sema' = sema /\ cycle' = cycle
      /\ current' = current /\ opened \subseteq Threads
  BY DEF LockedBarrierInv, BarrierTypes
<1>1. CASE cycle = mine[t]
  <2>1. pc' = [pc EXCEPT ![t] = "sleep"] /\ opened' = opened /\ result' = result
    BY <1>1
  <2>2. pc' \in [Threads -> LockedLabels] /\ \A u \in Threads : pc'[u] = IF u = t THEN "sleep" ELSE pc[u]
    BY <1>0, <2>1 DEF LockedLabels
  <2>3. At({"sleep"})' \ opened' = At({"sleep"}) \ opened
    BY <1>0, <2>1, <2>2 DEF At, LockedBarrierInv
  <2>4. BarrierTypes'
    BY <1>0, <2>1 DEF BarrierTypes, LockedBarrierInv
  <2>5. LockedBarrierInv'
    BY <1>0, <1>1, <2>1, <2>2, <2>3, <2>4 DEF LockedBarrierInv
  <2>6. Inside' = Inside /\ Primary' = Primary
    BY <1>0, <2>2, <2>3, LockedMapped
  <2> QED
    BY <2>1, <2>5, <2>6, PromiseStays
<1>2. CASE cycle # mine[t]
  <2>0. t \in opened
    BY <1>0, <1>2 DEF LockedBarrierInv
  <2>1. pc' = [pc EXCEPT ![t] = "idle"] /\ opened' = opened \ {t} /\ result' = [result EXCEPT ![t] = "secondary"]
    BY <1>2
  <2>2. pc' \in [Threads -> LockedLabels] /\ \A u \in Threads : pc'[u] = IF u = t THEN "idle" ELSE pc[u]
    BY <1>0, <2>1 DEF LockedLabels
  <2>3. At({"sleep"})' \ opened' = At({"sleep"}) \ opened
    BY <2>0, <2>1, <2>2 DEF At
  <2>4. BarrierTypes'
    BY <1>0, <2>1 DEF BarrierTypes, LockedBarrierInv
  <2>5. LockedBarrierInv'
    BY <1>0, <2>1, <2>2, <2>3, <2>4 DEF LockedBarrierInv
  <2>6. Inside' = Inside
    BY <1>0, <2>2, <2>3, LockedMapped
  <2>7. Primary' = Primary
    BY <1>0, <2>2, LockedMapped
  <2>8. Primary' = TRUE \/ (Primary' = Primary /\ opened # {t})
    <3>1. CASE Primary
      <4>1. Primary' = TRUE
        BY <1>0, <2>2, <2>7, <3>1, LockedMapped
      <4> QED
        BY <4>1
    <3>2. CASE ~Primary
      <4>1. PICK u \in Threads : pc[u] = "primary"
        BY <1>0, <2>2, <3>2, LockedMapped
      <4>2. u \in opened /\ u # t
        BY <1>0, <4>1 DEF LockedBarrierInv
      <4> QED
        BY <2>7, <4>2
    <3> QED
      BY <3>1, <3>2
  <2>9. Primary \in BOOLEAN
    BY <1>0, <2>2, LockedMapped
  <2> HIDE DEF Retest, Goto, Ends
  <2> QED
    BY <1>0, <2>0, <2>1, <2>5, <2>6, <2>8, <2>9, PromisePass
<1> QED
  BY <1>1, <1>2

LEMMA LockedLeaves ==
    ASSUME LockedBarrierInv, LockedKind, NEW t \in Threads, Leave(t)
    PROVE  LockedBarrierInv' /\ (Cardinality(Threads) <= Height => PromiseStep)
<1> USE DEF Leave, Goto, Ends
<1>0. /\ pc[t] = "primary" /\ kind' = kind /\ pc \in [Threads -> LockedLabels] /\ t \in opened
      /\ mutex' = None /\ mine' = mine /\ index' = index /\ sema' = sema /\ cycle' = cycle
      /\ current' = current /\ opened \subseteq Threads
  BY DEF LockedBarrierInv, BarrierTypes
<1>1. pc' = [pc EXCEPT ![t] = "idle"] /\ opened' = opened \ {t} /\ result' = [result EXCEPT ![t] = "primary"]
  OBVIOUS
<1>2. pc' \in [Threads -> LockedLabels] /\ \A u \in Threads : pc'[u] = IF u = t THEN "idle" ELSE pc[u]
  BY <1>0, <1>1 DEF LockedLabels
<1>3. At({"sleep"})' \ opened' = At({"sleep"}) \ opened
  BY <1>0, <1>1, <1>2 DEF At
<1>4. BarrierTypes'
  BY <1>0, <1>1 DEF BarrierTypes, LockedBarrierInv
<1>5. LockedBarrierInv'
  BY <1>0, <1>1, <1>2, <1>3, <1>4 DEF LockedBarrierInv
<1>6. Inside' = Inside
  BY <1>0, <1>2, <1>3, LockedMapped
<1> SUFFICES ASSUME Cardinality(Threads) <= Height PROVE PromiseStep
  BY <1>5
<1>7. \A u \in Threads : pc'[u] # "primary"
  BY <1>0, <1>2 DEF LockedBarrierInv
<1>8. Primary' = TRUE /\ Primary \in BOOLEAN
  BY <1>0, <1>2, <1>7, LockedMapped
<1> HIDE DEF Leave, Goto, Ends
<1> QED
  BY <1>0, <1>1, <1>6, <1>8, PromisePass
-----------------------------------------------------------------------------
(* All barriers.                                                           *)

BarrierInv ==
    /\ kind = "portableBarrier" => PortableBarrierInv
    /\ kind \in {"unixBarrier", "kettleBarrier"} => LockedBarrierInv

LEMMA BarrierSteps ==
    ASSUME BarrierInv, kind \in BarrierKinds, BarrierNext, BarrierTimeouts = FALSE, CyclesFit,
           kind = "portableBarrier" => Cardinality(Threads) <= Height
    PROVE  BarrierInv' /\ (Cardinality(Threads) <= Height => PromiseStep) /\ kind' = kind
<1>1. PICK t \in Threads : BarrierStep(t)
  BY DEF BarrierNext
<1>2. CASE kind = "portableBarrier" /\ PortableBarrierWait(t)
  <2>1. kind' = kind
    BY <1>2 DEF PortableBarrierWait, ReadIndex, CountArrival, ResetCount, PostOthers, PostSome, WaitSemaphore, ToggleIndex
  <2>2. PortableBarrierInv
    BY <1>2 DEF BarrierInv
  <2>3. PortableBarrierInv' /\ PromiseStep
    BY <1>2, <2>2, BarrierReadsIndex, BarrierCounts, BarrierOpens, BarrierWaits, BarrierToggles DEF PortableBarrierWait
  <2> QED
    BY <1>2, <2>1, <2>3 DEF BarrierInv
<1>3. CASE /\ kind \in {"unixBarrier", "kettleBarrier"}
           /\ ArriveLocked(t) \/ Retest(t) \/ Leave(t)
  <2>1. kind' = kind
    BY <1>3 DEF ArriveLocked, ArriveLast, ArriveFirst, Retest, Leave
  <2>2. LockedBarrierInv /\ LockedKind
    BY <1>3 DEF BarrierInv, LockedKind
  <2>3. LockedBarrierInv' /\ (Cardinality(Threads) <= Height => PromiseStep)
    BY <1>3, <2>2, LockedArrives, LockedRetests, LockedLeaves
  <2> QED
    BY <1>3, <2>1, <2>3 DEF BarrierInv
<1> QED
  BY <1>1, <1>2, <1>3 DEF BarrierStep, UnixBarrierWait, KettleBarrierWait, Expire

LEMMA BarriersAreExact ==
    ASSUME BarrierInv, kind = "portableBarrier" => kind \in BarrierKinds
    PROVE  BarrierIsExact
<1> SUFFICES ASSUME kind \in BarrierKinds
             PROVE  BarrierIsExact
  BY DEF BarrierIsExact, BarrierTypeOK, CountIsContribution, SemaphoresServeTheirRound
<1>1. CASE kind = "portableBarrier"
  <2>1. PortableBarrierInv
    BY <1>1 DEF BarrierInv
  <2>2. BarrierTypeOK
    BY <2>1 DEF BarrierTypeOK, PortableBarrierInv, BarrierTypes, SyncTypeOK, BarrierLabels
  <2>3. Inside = At({"wait"}) \ opened
    BY <1>1, <2>1, PortableInside DEF PortableBarrierInv
  <2>4. opened = Threads => Cardinality(Inside) = 0
    BY <2>3, FS_EmptySet DEF At
  <2>5. CountIsContribution
    <3> SUFFICES ASSUME At({"reset"}) = {}
                 PROVE  current = Height - Cardinality(Inside)
      BY <1>1 DEF CountIsContribution
    <3>1. Height \in Nat
      BY BarriersAssumption
    <3>2. ASSUME NEW r \in Threads, Opening(r) PROVE current = Height /\ opened = Threads
      BY <3>2 DEF Opening, At
    <3> QED
      BY <2>1, <2>3, <2>4, <3>1, <3>2 DEF PortableBarrierInv, Opened, Turned
  <2>6. SemaphoresServeTheirRound
    <3> SUFFICES ASSUME At({"reset", "post"}) = {}, NEW i \in 0 .. 1
                 PROVE  sema[i] = Cardinality({t \in opened : pc[t] = "wait" /\ mine[t] = i})
      BY DEF SemaphoresServeTheirRound
    <3>0. index \in 0 .. 1 /\ opened \subseteq Threads /\ i \in {index, 1 - index}
      BY <2>1 DEF PortableBarrierInv, BarrierTypes
    <3>1. ASSUME NEW r \in Threads, Opening(r) PROVE FALSE
      BY <3>1 DEF Opening, At
    <3>2. CASE Opened
      <4>1. {t \in opened : pc[t] = "wait" /\ mine[t] = index} = At({"wait"})
        BY <3>2 DEF Opened, At
      <4>2. {t \in opened : pc[t] = "wait" /\ mine[t] = 1 - index} = {}
        BY <3>0, <3>2 DEF Opened
      <4> QED
        BY <3>0, <3>2, <4>1, <4>2, FS_EmptySet DEF Opened
    <3>3. CASE Turned
      <4>1. {t \in opened : pc[t] = "wait" /\ mine[t] = 1 - index} = At({"wait"}) \cap opened
        BY <3>0, <3>3 DEF Turned, At
      <4>2. {t \in opened : pc[t] = "wait" /\ mine[t] = index} = {}
        BY <3>0, <3>3 DEF Turned
      <4> QED
        BY <3>0, <3>3, <4>1, <4>2, FS_EmptySet DEF Turned
    <3> QED
      BY <2>1, <3>1, <3>2, <3>3 DEF PortableBarrierInv
  <2> QED
    BY <2>2, <2>5, <2>6 DEF BarrierIsExact
<1>2. CASE kind \in {"unixBarrier", "kettleBarrier"}
  <2>1. LockedBarrierInv
    BY <1>2 DEF BarrierInv
  <2>2. BarrierTypeOK
    BY <2>1 DEF BarrierTypeOK, LockedBarrierInv, LockedLabels, BarrierTypes, SyncTypeOK, BarrierLabels
  <2>3. Inside = At({"sleep"}) \ opened
    BY <2>1 DEF Inside, At, LockedBarrierInv, LockedLabels
  <2>4. CountIsContribution
    BY <2>1, <2>3 DEF CountIsContribution, LockedBarrierInv
  <2>5. SemaphoresServeTheirRound
    BY <1>2 DEF SemaphoresServeTheirRound
  <2> QED
    BY <2>2, <2>4, <2>5 DEF BarrierIsExact
<1> QED
  BY <1>1, <1>2, KindsAssumption

LEMMA BarriersBegin ==
    ASSUME BarrierInit
    PROVE  BarrierInv
<1> USE DEF BarrierInit, SyncInit, BarrierUsers, NewBarrier, PortableBarrierInit, UnixBarrierInit, KettleBarrierInit
<1>0. BarrierTypes /\ Height \in Nat \ {0}
  BY BarriersAssumption DEF BarrierTypes
<1>1. \A L : "idle" \notin L => At(L) = {}
  BY DEF At
<1>2. At({"wait"}) \ opened = {} /\ At({"wait"}) \cap opened = {} /\ At({"sleep"}) \ opened = {} /\ Cardinality({}) = 0
  BY <1>1, FS_EmptySet
<1>3. Turned
  BY <1>0, <1>2 DEF Turned
<1>4. PortableBarrierInv
  BY <1>0, <1>3 DEF PortableBarrierInv
<1>5. LockedBarrierInv
  <2>1. mine \in [Threads -> 0 .. CycleModulus - 1]
    BY BarriersAssumption
  <2>2. Cardinality(At({"sleep"}) \ opened) = 0
    BY <1>2
  <2>3. current = Height - Cardinality(At({"sleep"}) \ opened) /\ current \in 1 .. Height
    BY <1>0, <2>2
  <2>4. pc \in [Threads -> LockedLabels] /\ \A t \in Threads : pc[t] = "idle" /\ t \notin opened
    BY DEF LockedLabels
  <2> QED
    BY <1>0, <2>1, <2>3, <2>4 DEF LockedBarrierInv
<1> QED
  BY <1>4, <1>5 DEF BarrierInv
-----------------------------------------------------------------------------
(* Units.                                                                  *)

LEMMA SizeOfRange ==
    ASSUME NEW n \in Nat
    PROVE  IsFiniteSet(1 .. n) /\ Cardinality(1 .. n) = n
<1>1. IsFiniteSet(1 .. n) /\ Cardinality(1 .. n) = IF 1 > n THEN 0 ELSE n - 1 + 1
  BY FS_Interval
<1>2. (IF 1 > n THEN 0 ELSE n - 1 + 1) = n
  OBVIOUS
<1> QED
  BY <1>1, <1>2

LEMMA UnitsAreFinite ==
    ASSUME NEW A, A \subseteq Threads, NEW f, \A u \in A : f[u] \in Nat
    PROVE  IsFiniteSet(Units(f, A)) /\ Cardinality(Units(f, A)) \in Nat
<1> DEFINE g == [u \in A |-> {u} \X (1 .. f[u])]
           S == {{u} \X (1 .. f[u]) : u \in A}
<1>1. g \in Surjection(A, S)
  BY DEF Surjection
<1>2. IsFiniteSet(S)
  BY <1>1, PartOfThreads, FS_Surjection
<1>3. \A T \in S : IsFiniteSet(T)
  <2> SUFFICES ASSUME NEW u \in A PROVE IsFiniteSet({u} \X (1 .. f[u]))
    OBVIOUS
  <2>1. IsFiniteSet({u}) /\ IsFiniteSet(1 .. f[u])
    BY FS_Singleton, SizeOfRange
  <2> QED
    BY <2>1, FS_Product
<1> HIDE DEF S
<1>4. IsFiniteSet(UNION S)
  BY <1>2, <1>3, FS_UNION
<1> QED
  BY <1>4, FS_CardinalityType DEF Units, S

LEMMA UnitsOfOne ==
    ASSUME NEW A, A \subseteq Threads, NEW f, \A u \in A : f[u] \in Nat, NEW t \in A
    PROVE  Cardinality(Units(f, A)) = Cardinality(Units(f, A \ {t})) + f[t]
<1> DEFINE B == {t} \X (1 .. f[t])
           R == Units(f, A \ {t})
<1>1. IsFiniteSet({t}) /\ Cardinality({t}) = 1 /\ IsFiniteSet(1 .. f[t]) /\ Cardinality(1 .. f[t]) = f[t]
  BY FS_Singleton, SizeOfRange
<1>2. IsFiniteSet(B) /\ Cardinality(B) = f[t]
  <2>1. IsFiniteSet(B) /\ Cardinality(B) = Cardinality({t}) * Cardinality(1 .. f[t])
    BY <1>1, FS_Product
  <2> QED
    BY <1>1, <2>1
<1>3. IsFiniteSet(R) /\ Cardinality(R) \in Nat
  BY UnitsAreFinite
<1>4. Units(f, A) = R \cup B
  BY DEF Units
<1>5. R \cap B = {}
  BY DEF Units
<1>6. Cardinality(R \cap B) = 0
  BY <1>5, FS_EmptySet
<1> HIDE DEF B, R
<1>7. Cardinality(R \cup B) = Cardinality(R) + Cardinality(B) - Cardinality(R \cap B)
  BY <1>2, <1>3, FS_Union
<1> QED
  BY <1>2, <1>3, <1>4, <1>6, <1>7 DEF R

\* The units of two sets of threads that differ in t, and its units, at most.
LEMMA UnitsMove ==
    ASSUME NEW t \in Threads, NEW A, NEW B, A \subseteq Threads, B \subseteq Threads, NEW f, NEW g,
           \A u \in A : f[u] \in Nat, \A u \in B : g[u] \in Nat,
           \A u \in Threads : u # t => (u \in A <=> u \in B) /\ g[u] = f[u]
    PROVE  /\ Cardinality(Units(g, B)) = Cardinality(Units(f, A)) + (IF t \in B THEN g[t] ELSE 0)
                                                                   - (IF t \in A THEN f[t] ELSE 0)
           /\ Cardinality(Units(f, A)) \in Nat /\ Cardinality(Units(g, B)) \in Nat
           /\ t \in A => Cardinality(Units(f, A)) >= f[t]
<1>1. A \ {t} = B \ {t} /\ \A u \in A \ {t} : g[u] = f[u]
  OBVIOUS
<1>2. Units(f, A \ {t}) = Units(g, B \ {t})
  BY <1>1 DEF Units
<1>3. Cardinality(Units(f, A \ {t})) \in Nat
  BY UnitsAreFinite
<1>4. Cardinality(Units(f, A)) = Cardinality(Units(f, A \ {t})) + IF t \in A THEN f[t] ELSE 0
  <2>1. CASE t \in A
    BY <2>1, UnitsOfOne
  <2>2. CASE t \notin A
    <3>1. A \ {t} = A
      BY <2>2
    <3>2. Units(f, A \ {t}) = Units(f, A)
      BY <3>1
    <3> DEFINE n == Cardinality(Units(f, A))
    <3>3. n \in Nat /\ Cardinality(Units(f, A \ {t})) = n
      BY <1>3, <3>2
    <3> HIDE DEF n
    <3>4. n = n + 0
      BY <3>3
    <3> QED
      BY <2>2, <3>3, <3>4 DEF n
  <2> QED
    BY <2>1, <2>2
<1>5. Cardinality(Units(g, B)) = Cardinality(Units(g, B \ {t})) + IF t \in B THEN g[t] ELSE 0
  <2>1. CASE t \in B
    BY <2>1, UnitsOfOne
  <2>2. CASE t \notin B
    <3>1. B \ {t} = B
      BY <2>2
    <3>2. Cardinality(Units(g, B \ {t})) \in Nat
      BY <1>2, <1>3
    <3> QED
      BY <2>2, <3>1, <3>2
  <2> QED
    BY <2>1, <2>2
<1>6. (t \in A => f[t] \in Nat) /\ (t \in B => g[t] \in Nat)
  OBVIOUS
<1> QED
  BY <1>2, <1>3, <1>4, <1>5, <1>6
-----------------------------------------------------------------------------
(* Conditions.                                                             *)

ConditionTypes ==
    /\ pc \in [Threads -> ConditionLabels] /\ mutex \in Threads \cup {None} /\ unblockLock \in Threads \cup {None}
    /\ lockCount \in 0 .. 1
    /\ issue \in [Threads -> Nat] /\ arg \in [Threads -> BOOLEAN] /\ got \in [Threads -> {"none", "ok", "timeout"}]

\* The mutex is with the thread that is where it must have it, and the lock is
\* counted but for the steps of a system's wait in between.
HasMutex == {"owner", "unlock", "returned"} \cup (IF Portable THEN {} ELSE {"relock"})
MutexIsExact ==
    /\ \A t \in Threads : mutex = t <=> pc[t] \in HasMutex
    /\ lockCount = 1 <=> mutex # None /\ (Portable \/ pc[mutex] \notin {"unlock", "relock"})

InWait == At({"unlock", "sleep", "woken"})
WokenOk == {t \in At({"woken"}) : got[t] = "ok"}

\* mUnblockLock and mSemaphoreBlockLock protect the counts: who is about to cut
\* mnWaitersDone back, or has seen waiters beyond it, still finds it so, and the
\* counts are as blockLock says.
PortableConditionInv ==
    /\ blocked \in Nat /\ toUnblock \in Nat /\ done \in Nat /\ queue \in Nat
    /\ blocked + toUnblock - done = Cardinality(InWait)
    /\ toUnblock > 0 => done = 0
    /\ \A t \in Threads : unblockLock = t <=> pc[t] \in {"trim", "waitLock"}
    /\ \A t \in Threads : pc[t] \in {"trim", "waitLock", "postLock"} => toUnblock = 0
    /\ \A t \in Threads : pc[t] = "waitLock" => blocked > done
    /\ \A t, u \in Threads : pc[t] = "postLock" /\ pc[u] = "postLock" => t = u
    /\ blockLock = IF toUnblock > 0 \/ \E t \in Threads : pc[t] = "postLock" THEN 0 ELSE 1
    /\ \A t \in Threads : pc[t] # "issue" => issue[t] = 0
    /\ toUnblock <= queue + Cardinality(Units(issue, Threads)) + Cardinality(WokenOk)

\* The versions over a condition of the system leave all that alone.
SystemConditionInv ==
    /\ \A t \in Threads : pc[t] \notin {"trim", "postLock", "waitLock", "issue"}
    /\ blocked = 0 /\ toUnblock = 0 /\ done = 0 /\ queue = 0 /\ blockLock = 1 /\ unblockLock = None
    /\ issue = [t \in Threads |-> 0]

ConditionInv ==
    /\ ConditionTypes /\ MutexIsExact
    /\ Portable => PortableConditionInv
    /\ ~Portable => SystemConditionInv

LEMMA MutexUntouched ==
    ASSUME ConditionTypes, MutexIsExact, kind' = kind, mutex' = mutex, lockCount' = lockCount,
           \A u \in Threads : pc'[u] = pc[u] \/ (pc[u] \notin HasMutex /\ pc'[u] \notin HasMutex)
                                             \/ (pc[u] = "owner" /\ pc'[u] = "unlock" /\ Portable)
    PROVE  MutexIsExact'
<1>1. HasMutex' = HasMutex /\ Portable' = Portable
  BY DEF HasMutex, Portable
<1>2. \A u \in Threads : pc'[u] \in HasMutex' <=> pc[u] \in HasMutex
  BY <1>1 DEF HasMutex
<1>3. mutex # None => mutex \in Threads /\ pc[mutex] \in HasMutex
  BY DEF ConditionTypes, MutexIsExact
<1>4. mutex # None => (Portable \/ pc'[mutex] = pc[mutex])
  BY <1>3
<1> QED
  BY <1>1, <1>2, <1>4 DEF MutexIsExact

\* A step of thread t that changes the mutex or its lock count.
LEMMA MutexTouched ==
    ASSUME ConditionTypes, MutexIsExact, NEW t \in Threads, kind' = kind,
           \/ LockMutex(t) \/ UnlockMutex(t)
           \/ Portable /\ (GiveUpMutex(t) \/ Relock(t))
           \/ ~Portable /\ (CountLock(t, "owner", FALSE, "unlock") \/ SystemSleep(t) \/ SystemRelock(t)
                            \/ CountLock(t, "relock", TRUE, "returned"))
    PROVE  MutexIsExact' /\ lockCount' \in 0 .. 1
<1> USE DEF Goto
<1>1. HasMutex' = HasMutex /\ (Portable' <=> Portable) /\ None \notin Threads
  BY SyncStateAssumption DEF HasMutex, Portable
<1>2. pc \in [Threads -> ConditionLabels] /\ mutex \in Threads \cup {None} /\ lockCount \in 0 .. 1
  BY DEF ConditionTypes
<1>3. CASE LockMutex(t) \/ (Portable /\ Relock(t))
  <2>1. mutex = None /\ mutex' = t /\ lockCount' = lockCount + 1 /\ \E l \in {"owner", "returned"} : pc' = [pc EXCEPT ![t] = l]
    BY <1>3 DEF LockMutex, Relock
  <2>2. PICK l \in {"owner", "returned"} : \A u \in Threads : pc'[u] = IF u = t THEN l ELSE pc[u]
    BY <1>2, <2>1
  <2>3. lockCount = 0
    BY <1>2, <2>1 DEF MutexIsExact
  <2>4. \A u \in Threads : mutex' = u <=> pc'[u] \in HasMutex
    BY <1>1, <2>1, <2>2 DEF MutexIsExact, HasMutex
  <2>5. lockCount' = 1 /\ mutex' # None /\ pc'[mutex'] \notin {"unlock", "relock"}
    BY <1>1, <2>1, <2>2, <2>3
  <2> QED
    BY <1>1, <2>4, <2>5 DEF MutexIsExact
<1>4. CASE UnlockMutex(t) \/ (Portable /\ GiveUpMutex(t))
  <2>1. mutex' = None /\ lockCount' = lockCount - 1 /\ pc[t] \in HasMutex /\ (Portable \/ pc[t] \notin {"unlock", "relock"})
        /\ \E l \in {"idle", "sleep"} : pc' = [pc EXCEPT ![t] = l]
    BY <1>4 DEF UnlockMutex, GiveUpMutex, HasMutex
  <2>2. PICK l \in {"idle", "sleep"} : \A u \in Threads : pc'[u] = IF u = t THEN l ELSE pc[u]
    BY <1>2, <2>1
  <2>3. mutex = t /\ lockCount = 1
    BY <1>1, <2>1 DEF MutexIsExact
  <2>4. \A u \in Threads : mutex' = u <=> pc'[u] \in HasMutex
    BY <1>1, <2>1, <2>2, <2>3 DEF MutexIsExact, HasMutex
  <2> QED
    BY <1>1, <2>1, <2>3, <2>4 DEF MutexIsExact
<1>5. CASE ~Portable /\ (CountLock(t, "owner", FALSE, "unlock") \/ CountLock(t, "relock", TRUE, "returned"))
  <2>1. PICK l \in {"unlock", "returned"} :
           /\ pc' = [pc EXCEPT ![t] = l] /\ mutex' = mutex
           /\ pc[t] = IF l = "unlock" THEN "owner" ELSE "relock"
           /\ lockCount' = lockCount + IF l = "unlock" THEN -1 ELSE 1
    BY <1>5 DEF CountLock, SimulateLock
  <2>2. \A u \in Threads : pc'[u] = IF u = t THEN l ELSE pc[u]
    BY <1>2, <2>1
  <2>3. mutex = t /\ lockCount = IF l = "unlock" THEN 1 ELSE 0
    BY <1>1, <1>2, <1>5, <2>1 DEF MutexIsExact, HasMutex
  <2>4. \A u \in Threads : mutex' = u <=> pc'[u] \in HasMutex
    BY <1>1, <1>5, <2>1, <2>2, <2>3 DEF MutexIsExact, HasMutex
  <2>5. lockCount' \in 0 .. 1 /\ (lockCount' = 1 <=> l = "returned")
    BY <2>1, <2>3
  <2> QED
    BY <1>1, <1>5, <2>1, <2>2, <2>3, <2>4, <2>5 DEF MutexIsExact
<1>6. CASE ~Portable /\ (SystemSleep(t) \/ SystemRelock(t))
  <2>1. PICK l \in {"sleep", "relock"} :
           /\ pc' = [pc EXCEPT ![t] = l] /\ lockCount' = lockCount
           /\ pc[t] = IF l = "sleep" THEN "unlock" ELSE "woken"
           /\ IF l = "sleep" THEN mutex' = None ELSE mutex = None /\ mutex' = t
    BY <1>6 DEF SystemSleep, SystemRelock
  <2>2. \A u \in Threads : pc'[u] = IF u = t THEN l ELSE pc[u]
    BY <1>2, <2>1
  <2>3. l = "sleep" => mutex = t
    BY <1>1, <1>6, <2>1 DEF MutexIsExact, HasMutex
  <2>4. lockCount = 0
    BY <1>1, <1>2, <1>6, <2>1, <2>3 DEF MutexIsExact
  <2>5. \A u \in Threads : mutex' = u <=> pc'[u] \in HasMutex
    BY <1>1, <1>6, <2>1, <2>2, <2>3 DEF MutexIsExact, HasMutex
  <2>6. mutex' # None => mutex' = t /\ pc'[mutex'] = "relock"
    BY <1>1, <2>1, <2>2
  <2> QED
    BY <1>1, <1>6, <2>1, <2>4, <2>5, <2>6 DEF MutexIsExact
<1> QED
  BY <1>3, <1>4, <1>5, <1>6

\* A step of thread t that is outside of the protocol of the counts.
PortableCountsSame ==
    /\ blocked' = blocked /\ toUnblock' = toUnblock /\ done' = done /\ queue' = queue
    /\ blockLock' = blockLock /\ unblockLock' = unblockLock /\ issue' = issue

LEMMA PortableQuiet ==
    ASSUME ConditionTypes, PortableConditionInv, PortableCountsSame, NEW t \in Threads, NEW l,
           pc' = [pc EXCEPT ![t] = l],
           {pc[t], l} \cap {"trim", "waitLock", "postLock", "issue", "woken"} = {},
           pc[t] \in {"unlock", "sleep"} <=> l \in {"unlock", "sleep"},
           \A u \in Threads : u # t => got'[u] = got[u]
    PROVE  PortableConditionInv'
<1>1. pc[t] \notin {"trim", "waitLock", "postLock", "issue", "woken"} /\ l \notin {"trim", "waitLock", "postLock", "issue", "woken"}
  OBVIOUS
<1>2. \A u \in Threads : pc'[u] = IF u = t THEN l ELSE pc[u]
  BY DEF ConditionTypes
<1>3. InWait' = InWait
  BY <1>1, <1>2 DEF InWait, At
<1>4. WokenOk' = WokenOk
  BY <1>1, <1>2 DEF WokenOk, At
<1> QED
  BY <1>1, <1>2, <1>3, <1>4 DEF PortableConditionInv, PortableCountsSame

\* How a step of thread t changes the two sets of threads that the counts are about.
LEMMA WaitersMove ==
    ASSUME ConditionTypes, NEW t \in Threads, \A u \in Threads : u # t => pc'[u] = pc[u] /\ got'[u] = got[u]
    PROVE  /\ Cardinality(InWait') = Cardinality(InWait) + (IF pc'[t] \in {"unlock", "sleep", "woken"} THEN 1 ELSE 0)
                                                           - (IF pc[t] \in {"unlock", "sleep", "woken"} THEN 1 ELSE 0)
           /\ Cardinality(InWait) \in Nat /\ Cardinality(InWait') \in Nat
           /\ pc[t] \in {"unlock", "sleep", "woken"} => Cardinality(InWait) > 0
           /\ Cardinality(WokenOk') = Cardinality(WokenOk) + (IF pc'[t] = "woken" /\ got'[t] = "ok" THEN 1 ELSE 0)
                                                             - (IF pc[t] = "woken" /\ got[t] = "ok" THEN 1 ELSE 0)
           /\ Cardinality(WokenOk) \in Nat /\ Cardinality(WokenOk') \in Nat
<1>1. /\ WokenOk \subseteq Threads /\ WokenOk' \subseteq Threads
      /\ \A u \in Threads : u # t => (u \in WokenOk <=> u \in WokenOk')
      /\ t \in WokenOk <=> pc[t] = "woken" /\ got[t] = "ok"
      /\ t \in WokenOk' <=> pc'[t] = "woken" /\ got'[t] = "ok"
  BY DEF WokenOk, At
<1>2. /\ Cardinality(WokenOk') = Cardinality(WokenOk) + (IF t \in WokenOk' THEN 1 ELSE 0) - (IF t \in WokenOk THEN 1 ELSE 0)
      /\ Cardinality(WokenOk) \in Nat /\ Cardinality(WokenOk') \in Nat
  BY <1>1, CountOneThread
<1>3. /\ Cardinality(WokenOk') = Cardinality(WokenOk) + (IF pc'[t] = "woken" /\ got'[t] = "ok" THEN 1 ELSE 0)
                                                        - (IF pc[t] = "woken" /\ got[t] = "ok" THEN 1 ELSE 0)
  BY <1>1, <1>2
<1> QED
  BY <1>2, <1>3, CountAt DEF InWait

LEMMA IssueCount ==
    ASSUME ConditionTypes, ConditionTypes', NEW t \in Threads, \A u \in Threads : u # t => issue'[u] = issue[u]
    PROVE  /\ Cardinality(Units(issue', Threads)) = Cardinality(Units(issue, Threads)) + issue'[t] - issue[t]
           /\ Cardinality(Units(issue, Threads)) \in Nat /\ Cardinality(Units(issue', Threads)) \in Nat
           /\ issue[t] \in Nat /\ issue'[t] \in Nat
<1>1. \A u \in Threads : issue[u] \in Nat /\ issue'[u] \in Nat
  BY DEF ConditionTypes
<1> QED
  BY <1>1, UnitsMove

LEMMA WaiterBegins ==
    ASSUME ConditionTypes, PortableConditionInv, NEW t \in Threads, BeginWait(t)
    PROVE  PortableConditionInv'
<1> USE DEF BeginWait, Goto
<1>1. /\ pc[t] = "owner" /\ blocked' = blocked + 1 /\ toUnblock' = toUnblock /\ done' = done /\ queue' = queue
      /\ blockLock' = blockLock /\ unblockLock' = unblockLock /\ issue' = issue /\ got' = got
  OBVIOUS
<1>2. \A u \in Threads : pc'[u] = IF u = t THEN "unlock" ELSE pc[u]
  BY DEF ConditionTypes
<1>3. Cardinality(InWait') = Cardinality(InWait) + 1 /\ Cardinality(WokenOk') = Cardinality(WokenOk)
      /\ Cardinality(InWait) \in Nat
  BY <1>1, <1>2, WaitersMove
<1>4. blocked' + toUnblock' - done' = Cardinality(InWait')
  BY <1>1, <1>3 DEF PortableConditionInv
<1>5. toUnblock' <= queue' + Cardinality(Units(issue', Threads)) + Cardinality(WokenOk')
  BY <1>1, <1>3 DEF PortableConditionInv
<1>6. \A u \in Threads : pc'[u] = "waitLock" => blocked' > done'
  BY <1>1, <1>2 DEF PortableConditionInv
<1>7. blockLock' = IF toUnblock' > 0 \/ \E u \in Threads : pc'[u] = "postLock" THEN 0 ELSE 1
  BY <1>1, <1>2 DEF PortableConditionInv
<1> HIDE DEF BeginWait
<1> QED
  BY <1>1, <1>2, <1>4, <1>5, <1>6, <1>7 DEF PortableConditionInv

LEMMA WaiterWakes ==
    ASSUME ConditionTypes, PortableConditionInv, NEW t \in Threads, Wake(t)
    PROVE  PortableConditionInv'
<1> USE DEF Wake, Goto
<1>1. /\ pc[t] = "sleep" /\ blocked' = blocked /\ toUnblock' = toUnblock /\ done' = done
      /\ blockLock' = blockLock /\ unblockLock' = unblockLock /\ issue' = issue /\ queue \in Nat
      /\ \A u \in Threads : got'[u] = IF u = t THEN (IF queue' = queue THEN "timeout" ELSE "ok") ELSE got[u]
      /\ queue' = queue \/ queue' = queue - 1
      /\ queue' \in Nat
  BY DEF waiterCounts, ConditionTypes, PortableConditionInv
<1>2. \A u \in Threads : pc'[u] = IF u = t THEN "woken" ELSE pc[u]
  BY DEF ConditionTypes
<1>3. Cardinality(InWait') = Cardinality(InWait) /\ Cardinality(InWait) \in Nat
      /\ Cardinality(WokenOk') = Cardinality(WokenOk) + (IF queue' = queue THEN 0 ELSE 1)
      /\ Cardinality(WokenOk) \in Nat
  BY <1>1, <1>2, WaitersMove
<1>4. blocked' + toUnblock' - done' = Cardinality(InWait')
  BY <1>1, <1>3 DEF PortableConditionInv
<1>5. toUnblock' <= queue' + Cardinality(Units(issue', Threads)) + Cardinality(WokenOk')
  <2> DEFINE n == Cardinality(Units(issue, Threads))
  <2>1. n \in Nat
    BY UnitsAreFinite DEF ConditionTypes
  <2>2. toUnblock <= queue + n + Cardinality(WokenOk) /\ toUnblock \in Nat
    BY DEF PortableConditionInv
  <2>3. Cardinality(Units(issue', Threads)) = n
    BY <1>1
  <2> HIDE DEF n
  <2> QED
    BY <1>1, <1>3, <2>1, <2>2, <2>3
<1>6. blockLock' = IF toUnblock' > 0 \/ \E u \in Threads : pc'[u] = "postLock" THEN 0 ELSE 1
  BY <1>1, <1>2 DEF PortableConditionInv
<1> HIDE DEF Wake
<1> QED
  BY <1>1, <1>2, <1>4, <1>5, <1>6 DEF PortableConditionInv

LEMMA WaiterBooks ==
    ASSUME ConditionTypes, PortableConditionInv, NEW t \in Threads, BookKeep(t)
    PROVE  PortableConditionInv'
<1> USE DEF BookKeep, Goto, LastToUnblock
<1>0. DoneLimit \in Nat \ {0} /\ None \notin Threads
  BY ConditionsAssumption, SyncStateAssumption
<1>1. /\ pc[t] = "woken" /\ blocked' = blocked /\ unblockLock = None
      /\ queue' = queue /\ blockLock' = blockLock /\ issue' = issue /\ got' = got
      /\ \A u \in Threads : pc[u] \notin {"trim", "waitLock"}
  BY <1>0 DEF PortableConditionInv
<1>2. /\ blocked \in Nat /\ toUnblock \in Nat /\ done \in Nat /\ queue \in Nat
      /\ toUnblock > 0 => done = 0
  BY DEF PortableConditionInv
<1>3. Cardinality(InWait') = Cardinality(InWait) - 1 /\ Cardinality(InWait) \in Nat
      /\ Cardinality(WokenOk') >= Cardinality(WokenOk) - 1 /\ Cardinality(WokenOk) \in Nat
      /\ Cardinality(WokenOk') \in Nat
  <2>1. \E l \in {"trim", "postLock", "relock"} : pc' = [pc EXCEPT ![t] = l]
    OBVIOUS
  <2>2. \A u \in Threads : u # t => pc'[u] = pc[u]
    BY <2>1 DEF ConditionTypes
  <2>3. pc'[t] \notin {"unlock", "sleep", "woken"}
    BY <2>1 DEF ConditionTypes
  <2> HIDE DEF BookKeep
  <2>4. /\ Cardinality(InWait') = Cardinality(InWait) - 1 /\ Cardinality(InWait) \in Nat
        /\ Cardinality(WokenOk) \in Nat /\ Cardinality(WokenOk') \in Nat
        /\ Cardinality(WokenOk') = Cardinality(WokenOk) - (IF got[t] = "ok" THEN 1 ELSE 0)
    BY <1>1, <2>2, <2>3, WaitersMove
  <2> QED
    BY <2>4
<1>4. CASE toUnblock # 0
  <2>1. toUnblock' = toUnblock - 1 /\ done' = done /\ done = 0
    BY <1>2, <1>4
  <2>2. unblockLock' = unblockLock /\ pc' = [pc EXCEPT ![t] = IF toUnblock = 1 THEN "postLock" ELSE "relock"]
    BY <1>0, <2>1
  <2>3. \A u \in Threads : pc'[u] = IF u = t THEN (IF toUnblock = 1 THEN "postLock" ELSE "relock") ELSE pc[u]
    BY <2>2 DEF ConditionTypes
  <2>4. blocked' + toUnblock' - done' = Cardinality(InWait')
    BY <1>1, <1>2, <1>3, <2>1 DEF PortableConditionInv
  <2>5. toUnblock' <= queue' + Cardinality(Units(issue', Threads)) + Cardinality(WokenOk')
    <3> DEFINE n == Cardinality(Units(issue, Threads))
    <3>1. n \in Nat
      BY UnitsAreFinite DEF ConditionTypes
    <3>2. toUnblock <= queue + n + Cardinality(WokenOk)
      BY DEF PortableConditionInv
    <3>3. Cardinality(Units(issue', Threads)) = n
      BY <1>1
    <3> HIDE DEF n
    <3> QED
      BY <1>1, <1>2, <1>3, <2>1, <3>1, <3>2, <3>3
  <2>6. blockLock = 0 /\ \A u \in Threads : pc[u] # "postLock"
    BY <1>2, <1>4 DEF PortableConditionInv
  <2>7. blockLock' = IF toUnblock' > 0 \/ \E u \in Threads : pc'[u] = "postLock" THEN 0 ELSE 1
    BY <1>1, <1>2, <1>4, <2>1, <2>3, <2>6
  <2>8. toUnblock' \in Nat /\ (toUnblock = 1 => toUnblock' = 0)
    BY <1>2, <1>4, <2>1
  <2>9. \A u \in Threads : pc'[u] \in {"trim", "waitLock", "postLock"} => toUnblock' = 0
    BY <1>1, <2>3, <2>6, <2>8
  <2>10. \A u, v \in Threads : pc'[u] = "postLock" /\ pc'[v] = "postLock" => u = v
    BY <2>3, <2>6
  <2>11. \A u \in Threads : (unblockLock' = u <=> pc'[u] \in {"trim", "waitLock"})
                            /\ (pc'[u] = "waitLock" => blocked' > done') /\ (pc'[u] # "issue" => issue'[u] = 0)
    BY <1>0, <1>1, <2>2, <2>3 DEF PortableConditionInv
  <2> HIDE DEF BookKeep
  <2> QED
    BY <1>1, <1>2, <2>1, <2>4, <2>5, <2>7, <2>8, <2>9, <2>10, <2>11 DEF PortableConditionInv
<1>5. CASE toUnblock = 0
  <2>1. toUnblock' = toUnblock /\ done' = done + 1
    BY <1>5
  <2>2. /\ unblockLock' = IF done' = DoneLimit THEN t ELSE None
        /\ pc' = [pc EXCEPT ![t] = IF done' = DoneLimit THEN "trim" ELSE "relock"]
    BY <1>1, <1>5
  <2>3. \A u \in Threads : pc'[u] = IF u = t THEN (IF done' = DoneLimit THEN "trim" ELSE "relock") ELSE pc[u]
    BY <2>2 DEF ConditionTypes
  <2>4. blocked' + toUnblock' - done' = Cardinality(InWait')
    BY <1>1, <1>2, <1>3, <2>1 DEF PortableConditionInv
  <2>5. toUnblock' <= queue' + Cardinality(Units(issue', Threads)) + Cardinality(WokenOk')
    <3> DEFINE n == Cardinality(Units(issue, Threads))
    <3>1. n \in Nat
      BY UnitsAreFinite DEF ConditionTypes
    <3>2. Cardinality(Units(issue', Threads)) = n
      BY <1>1
    <3> HIDE DEF n
    <3> QED
      BY <1>1, <1>2, <1>3, <1>5, <2>1, <3>1, <3>2
  <2>6. blockLock' = IF toUnblock' > 0 \/ \E u \in Threads : pc'[u] = "postLock" THEN 0 ELSE 1
    BY <1>1, <2>1, <2>3 DEF PortableConditionInv
  <2>7. \A u, v \in Threads : pc'[u] = "postLock" /\ pc'[v] = "postLock" => u = v
    BY <2>3 DEF PortableConditionInv
  <2>8. \A u \in Threads : (unblockLock' = u <=> pc'[u] \in {"trim", "waitLock"})
                           /\ (pc'[u] = "waitLock" => blocked' > done') /\ (pc'[u] # "issue" => issue'[u] = 0)
    BY <1>0, <1>1, <2>2, <2>3 DEF PortableConditionInv
  <2>9. done' \in Nat /\ toUnblock' = 0
    BY <1>2, <1>5, <2>1
  <2> HIDE DEF BookKeep
  <2> QED
    BY <1>1, <1>2, <2>4, <2>5, <2>6, <2>7, <2>8, <2>9 DEF PortableConditionInv
<1> QED
  BY <1>4, <1>5

LEMMA WaiterTrims ==
    ASSUME ConditionTypes, PortableConditionInv, NEW t \in Threads, TrimDone(t)
    PROVE  PortableConditionInv'
<1> USE DEF TrimDone, Goto
<1>0. None \notin Threads
  BY SyncStateAssumption
<1>1. /\ pc[t] = "trim" /\ blocked' = blocked - done /\ done' = 0 /\ toUnblock' = toUnblock /\ queue' = queue
      /\ blockLock' = blockLock /\ unblockLock' = None /\ issue' = issue /\ got' = got
      /\ unblockLock = t /\ toUnblock = 0
  BY DEF PortableConditionInv
<1>2. \A u \in Threads : pc'[u] = IF u = t THEN "relock" ELSE pc[u]
  BY DEF ConditionTypes
<1>3. InWait' = InWait /\ WokenOk' = WokenOk
  BY <1>1, <1>2 DEF InWait, WokenOk, At
<1>4. Cardinality(InWait) \in Nat
  BY PartOfThreads DEF InWait, At
<1>5. blocked' = Cardinality(InWait) /\ blocked' \in Nat
  BY <1>1, <1>4 DEF PortableConditionInv
<1>6. blocked' + toUnblock' - done' = Cardinality(InWait')
  BY <1>1, <1>3, <1>4, <1>5
<1>7. \A u \in Threads : pc'[u] \notin {"trim", "waitLock"}
  BY <1>1, <1>2 DEF PortableConditionInv
<1>8. blockLock' = IF toUnblock' > 0 \/ \E u \in Threads : pc'[u] = "postLock" THEN 0 ELSE 1
  BY <1>1, <1>2 DEF PortableConditionInv
<1> HIDE DEF TrimDone
<1> QED
  BY <1>0, <1>1, <1>2, <1>3, <1>5, <1>6, <1>7, <1>8 DEF PortableConditionInv

LEMMA WaiterPosts ==
    ASSUME ConditionTypes, PortableConditionInv, NEW t \in Threads, PostBlockLock(t)
    PROVE  PortableConditionInv' /\ blockLock' = 1
<1> USE DEF PostBlockLock, Goto
<1>1. /\ pc[t] = "postLock" /\ blocked' = blocked /\ done' = done /\ toUnblock' = toUnblock /\ queue' = queue
      /\ blockLock' = blockLock + 1 /\ unblockLock' = unblockLock /\ issue' = issue /\ got' = got
      /\ toUnblock = 0 /\ blockLock = 0
  BY DEF PortableConditionInv, waiterCounts
<1>2. \A u \in Threads : pc'[u] = IF u = t THEN "relock" ELSE pc[u]
  BY DEF ConditionTypes
<1>3. InWait' = InWait /\ WokenOk' = WokenOk
  BY <1>1, <1>2 DEF InWait, WokenOk, At
<1>4. \A u \in Threads : pc'[u] # "postLock"
  BY <1>1, <1>2 DEF PortableConditionInv
<1>5. blockLock' = 1
  BY <1>1
<1> HIDE DEF PostBlockLock
<1> QED
  BY <1>1, <1>2, <1>3, <1>4, <1>5 DEF PortableConditionInv

\* Signal t gives n wakeups for waiting threads, or before and waiting of an
\* earlier Signal.
LEMMA SignalIssues ==
    ASSUME ConditionTypes, ConditionTypes', PortableConditionInv, NEW t \in Threads,
           NEW waiting \in Nat \ {0}, NEW before \in Nat,
           Issue(t, waiting, before), waiting + before = blocked + toUnblock - done, before = toUnblock,
           pc[t] \in {"signal", "waitLock"}, pc' = [pc EXCEPT ![t] = "issue"],
           done' = 0, queue' = queue, got' = got, unblockLock' = None,
           \A u \in Threads : u # t => pc[u] \notin {"trim", "waitLock", "postLock"},
           blockLock' = 0
    PROVE  PortableConditionInv'
<1> DEFINE n == IF arg[t] THEN waiting ELSE 1
<1>0. None \notin Threads
  BY SyncStateAssumption
<1>1. n \in Nat /\ n > 0 /\ waiting - n \in Nat
  OBVIOUS
<1>2. blocked' = waiting - n /\ toUnblock' = before + n /\ issue' = [issue EXCEPT ![t] = n]
  BY DEF Issue
<1> HIDE DEF n
<1>3. \A u \in Threads : pc'[u] = IF u = t THEN "issue" ELSE pc[u]
  BY DEF ConditionTypes
<1>4. InWait' = InWait /\ WokenOk' = WokenOk
  BY <1>3 DEF InWait, WokenOk, At
<1>5. Cardinality(InWait) \in Nat /\ Cardinality(WokenOk) \in Nat
  BY PartOfThreads DEF InWait, WokenOk, At
<1>6. blocked' + toUnblock' - done' = Cardinality(InWait')
  BY <1>1, <1>2, <1>4, <1>5 DEF PortableConditionInv
<1>7. issue[t] = 0 /\ issue'[t] = n /\ \A u \in Threads : u # t => issue'[u] = issue[u]
  BY <1>2 DEF ConditionTypes, PortableConditionInv
<1>8. toUnblock' <= queue' + Cardinality(Units(issue', Threads)) + Cardinality(WokenOk')
  <2> DEFINE m == Cardinality(Units(issue, Threads))
             w == Cardinality(WokenOk)
  <2>1. Cardinality(Units(issue', Threads)) = m + n /\ m \in Nat
    BY <1>1, <1>7, IssueCount
  <2>2. toUnblock <= queue + m + w /\ queue \in Nat /\ toUnblock \in Nat
    BY DEF PortableConditionInv
  <2>3. w \in Nat /\ Cardinality(WokenOk') = w
    BY <1>4, <1>5
  <2> HIDE DEF m, w
  <2> QED
    BY <1>1, <1>2, <2>1, <2>2, <2>3
<1>9. \A u \in Threads : pc'[u] \notin {"trim", "waitLock", "postLock"}
  BY <1>3
<1>10. blocked' \in Nat /\ toUnblock' \in Nat /\ toUnblock' > 0
  BY <1>1, <1>2
<1>11. queue' \in Nat /\ \A u \in Threads : pc'[u] # "issue" => issue'[u] = 0
  BY <1>3, <1>7 DEF PortableConditionInv
<1> QED
  BY <1>0, <1>6, <1>8, <1>9, <1>10, <1>11 DEF PortableConditionInv

LEMMA SignalLocks ==
    ASSUME ConditionTypes, ConditionTypes', PortableConditionInv, NEW t \in Threads, SignalLocked(t)
    PROVE  PortableConditionInv'
<1> USE DEF SignalLocked, Goto
<1>0. /\ pc[t] = "signal" /\ queue' = queue /\ blockLock' = blockLock /\ got' = got /\ unblockLock = None
      /\ None \notin Threads /\ \A u \in Threads : pc[u] \notin {"trim", "waitLock"}
  BY SyncStateAssumption DEF PortableConditionInv
<1>1. CASE toUnblock # 0 /\ blocked # 0 /\ Issue(t, blocked, toUnblock) /\ pc' = [pc EXCEPT ![t] = "issue"]
           /\ UNCHANGED <<done, unblockLock>>
  <2>1. blocked \in Nat \ {0} /\ toUnblock \in Nat \ {0} /\ done = 0 /\ done' = 0 /\ unblockLock' = None
    BY <1>0, <1>1 DEF PortableConditionInv
  <2>2. blocked + toUnblock = blocked + toUnblock - done
    BY <2>1
  <2>3. blockLock' = 0 /\ \A u \in Threads : pc[u] # "postLock"
    BY <1>0, <2>1 DEF PortableConditionInv
  <2> HIDE DEF SignalLocked, Goto
  <2> QED
    BY <1>0, <1>1, <2>1, <2>2, <2>3, SignalIssues
<1>2. CASE toUnblock = 0 /\ blocked > done /\ unblockLock' = t /\ pc' = [pc EXCEPT ![t] = "waitLock"]
           /\ UNCHANGED <<waiterCounts, issue>>
  <2>1. blocked' = blocked /\ toUnblock' = toUnblock /\ done' = done /\ issue' = issue
    BY <1>2 DEF waiterCounts
  <2>2. \A u \in Threads : pc'[u] = IF u = t THEN "waitLock" ELSE pc[u]
    BY <1>2 DEF ConditionTypes
  <2>3. InWait' = InWait /\ WokenOk' = WokenOk
    BY <1>0, <2>2 DEF InWait, WokenOk, At
  <2>4. blockLock' = IF toUnblock' > 0 \/ \E u \in Threads : pc'[u] = "postLock" THEN 0 ELSE 1
    BY <1>0, <2>1, <2>2 DEF PortableConditionInv
  <2> HIDE DEF SignalLocked
  <2> QED
    BY <1>0, <1>2, <2>1, <2>2, <2>3, <2>4 DEF PortableConditionInv
<1>3. CASE pc' = [pc EXCEPT ![t] = "idle"] /\ UNCHANGED <<waiterCounts, issue, unblockLock>>
  <2>1. PortableCountsSame
    BY <1>0, <1>3 DEF waiterCounts, PortableCountsSame
  <2> HIDE DEF SignalLocked, Goto
  <2> QED
    BY <1>0, <1>3, <2>1, PortableQuiet
<1> QED
  BY <1>1, <1>2, <1>3

LEMMA SignalIsFirst ==
    ASSUME ConditionTypes, ConditionTypes', PortableConditionInv, NEW t \in Threads, SignalFirst(t)
    PROVE  PortableConditionInv' /\ blockLock' = 0
<1> USE DEF SignalFirst, Goto
<1>1. pc[t] = "waitLock" /\ unblockLock = t /\ toUnblock = 0 /\ blocked > done
  BY DEF PortableConditionInv
<1>2. blockLock = 1 /\ \A u \in Threads : u # t => pc[u] \notin {"trim", "waitLock", "postLock"}
  BY <1>1 DEF PortableConditionInv
<1>3. blockLock' = 0
  BY <1>2
<1>4. blocked \in Nat /\ done \in Nat
  BY DEF PortableConditionInv
<1>5. blocked - done \in Nat \ {0} /\ (blocked - done) + 0 = blocked + toUnblock - done
  BY <1>1, <1>4
<1>6. /\ Issue(t, blocked - done, 0) /\ done' = 0 /\ unblockLock' = None /\ queue' = queue /\ got' = got
      /\ pc' = [pc EXCEPT ![t] = "issue"]
  OBVIOUS
<1> HIDE DEF SignalFirst, Goto
<1> QED
  BY <1>1, <1>2, <1>3, <1>5, <1>6, SignalIssues

LEMMA SignalPosts ==
    ASSUME ConditionTypes, ConditionTypes', PortableConditionInv, NEW t \in Threads, PostQueue(t)
    PROVE  PortableConditionInv'
<1> USE DEF PostQueue, PostUnits, Goto
<1>1. /\ pc[t] = "issue" /\ blocked' = blocked /\ done' = done /\ toUnblock' = toUnblock
      /\ queue' = queue + issue[t] /\ issue' = [issue EXCEPT ![t] = 0]
      /\ blockLock' = blockLock /\ unblockLock' = unblockLock /\ got' = got
  BY DEF waiterCounts
<1>2. \A u \in Threads : pc'[u] = IF u = t THEN "idle" ELSE pc[u]
  BY DEF ConditionTypes
<1>3. InWait' = InWait /\ WokenOk' = WokenOk
  BY <1>1, <1>2 DEF InWait, WokenOk, At
<1>4. issue'[t] = 0 /\ \A u \in Threads : u # t => issue'[u] = issue[u]
  BY <1>1 DEF ConditionTypes
<1>5. queue' \in Nat /\ toUnblock' <= queue' + Cardinality(Units(issue', Threads)) + Cardinality(WokenOk')
  <2> DEFINE m == Cardinality(Units(issue, Threads))
             w == Cardinality(WokenOk)
             i == issue[t]
  <2>1. Cardinality(Units(issue', Threads)) = m + 0 - i /\ m \in Nat /\ i \in Nat
    BY <1>4, IssueCount
  <2>2. toUnblock <= queue + m + w /\ queue \in Nat /\ toUnblock \in Nat
    BY DEF PortableConditionInv
  <2>3. w \in Nat /\ Cardinality(WokenOk') = w /\ queue' = queue + i
    BY <1>1, <1>3, PartOfThreads DEF WokenOk, At
  <2> HIDE DEF m, w, i
  <2> QED
    BY <1>1, <2>1, <2>2, <2>3
<1>6. blockLock' = IF toUnblock' > 0 \/ \E u \in Threads : pc'[u] = "postLock" THEN 0 ELSE 1
  BY <1>1, <1>2 DEF PortableConditionInv
<1> HIDE DEF PostQueue, PostUnits
<1> QED
  BY <1>1, <1>2, <1>3, <1>4, <1>5, <1>6 DEF PortableConditionInv

\* Every step but those that end in the block lock's count keeps the types.
LEMMA ConditionKeepsTypes ==
    ASSUME ConditionTypes, NEW t \in Threads, LockMutex(t) \/ CallSignal(t) \/ ConditionStep(t), kind \in ConditionKinds,
           Portable => PortableConditionInv, lockCount' \in 0 .. 1
    PROVE  ConditionTypes' /\ kind' = kind
<1> USE DEF ConditionTypes, ConditionLabels, Goto, portableVars, waiterCounts
<1>1. CASE LockMutex(t) \/ UnlockMutex(t) \/ CallSignal(t)
  BY <1>1 DEF LockMutex, UnlockMutex, CallSignal
<1>2. CASE BeginWait(t) \/ GiveUpMutex(t) \/ Wake(t) \/ Relock(t)
  BY <1>2 DEF BeginWait, GiveUpMutex, Wake, Relock
<1>3. CASE BookKeep(t) \/ TrimDone(t) \/ PostBlockLock(t)
  BY <1>3 DEF BookKeep, TrimDone, PostBlockLock
<1>4. CASE Portable /\ SignalLocked(t)
  <2>1. blocked \in Nat
    BY <1>4 DEF PortableConditionInv
  <2> QED
    BY <1>4, <2>1 DEF SignalLocked, Issue
<1>5. CASE Portable /\ SignalFirst(t)
  <2>1. blocked - done \in Nat
    BY <1>5 DEF PortableConditionInv, SignalFirst
  <2> QED
    BY <1>5, <2>1 DEF SignalFirst, Issue
<1>6. CASE PostQueue(t)
  BY <1>6 DEF PostQueue, PostUnits
<1>7. CASE CountLock(t, "owner", FALSE, "unlock") \/ CountLock(t, "relock", TRUE, "returned")
  BY <1>7 DEF CountLock
<1>8. CASE SystemSleep(t) \/ SystemWake(t) \/ SystemRelock(t)
  BY <1>8 DEF SystemSleep, SystemWake, SystemRelock
<1>9. CASE SystemSignal(t)
  <2>1. CASE At({"sleep"}) = {}
    BY <1>9, <2>1 DEF SystemSignal
  <2>2. CASE At({"sleep"}) # {}
    BY <1>9, <2>2 DEF SystemSignal
  <2> QED
    BY <2>1, <2>2
<1> QED
  BY <1>1, <1>2, <1>3, <1>4, <1>5, <1>6, <1>7, <1>8, <1>9
     DEF ConditionStep, PortableConditionWait, PortableConditionSignal, UnixConditionWait, UnixConditionSignal,
         KettleConditionWait, KettleConditionSignal, Portable

\* The mutex of the user is right after every step.
LEMMA ConditionKeepsMutex ==
    ASSUME ConditionTypes, MutexIsExact, NEW t \in Threads, LockMutex(t) \/ CallSignal(t) \/ ConditionStep(t), kind \in ConditionKinds
    PROVE  MutexIsExact' /\ lockCount' \in 0 .. 1
<1>0. lockCount \in 0 .. 1 /\ pc \in [Threads -> ConditionLabels]
  BY DEF ConditionTypes
<1>1. CASE \/ LockMutex(t) \/ UnlockMutex(t)
           \/ Portable /\ (GiveUpMutex(t) \/ Relock(t))
           \/ ~Portable /\ (CountLock(t, "owner", FALSE, "unlock") \/ SystemSleep(t) \/ SystemRelock(t)
                            \/ CountLock(t, "relock", TRUE, "returned"))
  <2>1. kind' = kind
    BY <1>1 DEF LockMutex, UnlockMutex, GiveUpMutex, Relock, CountLock, SystemSleep, SystemRelock
  <2> QED
    BY <1>1, <2>1, MutexTouched
<1>2. CASE CallSignal(t) \/ Wake(t) \/ (Portable /\ BeginWait(t))
  <2>1. kind' = kind /\ mutex' = mutex /\ lockCount' = lockCount
    BY <1>2 DEF CallSignal, Wake, BeginWait
  <2>2. \/ pc[t] = "idle" /\ pc' = [pc EXCEPT ![t] = "signal"]
        \/ pc[t] = "sleep" /\ pc' = [pc EXCEPT ![t] = "woken"]
        \/ pc[t] = "owner" /\ pc' = [pc EXCEPT ![t] = "unlock"] /\ Portable
    BY <1>2 DEF CallSignal, Wake, BeginWait, Goto
  <2>3. \A u \in Threads : pc'[u] = pc[u] \/ (pc[u] \notin HasMutex /\ pc'[u] \notin HasMutex)
                                          \/ (pc[u] = "owner" /\ pc'[u] = "unlock" /\ Portable)
    BY <1>0, <2>2 DEF HasMutex
  <2> QED
    BY <1>0, <2>1, <2>3, MutexUntouched
<1>3. CASE Portable /\ (BookKeep(t) \/ TrimDone(t) \/ PostBlockLock(t) \/ SignalLocked(t) \/ SignalFirst(t) \/ PostQueue(t))
  <2>1. kind' = kind /\ mutex' = mutex /\ lockCount' = lockCount
    BY <1>3 DEF BookKeep, TrimDone, PostBlockLock, SignalLocked, SignalFirst, PostQueue, PostUnits
  <2>2. pc[t] \notin HasMutex
    BY <1>3 DEF BookKeep, TrimDone, PostBlockLock, SignalLocked, SignalFirst, PostQueue, PostUnits, HasMutex
  <2>3. \E l \in {"trim", "postLock", "relock", "issue", "waitLock", "idle"} : pc' = [pc EXCEPT ![t] = l]
    BY <1>3 DEF BookKeep, TrimDone, PostBlockLock, SignalLocked, SignalFirst, PostQueue, PostUnits, Goto
  <2>4. \A u \in Threads : pc'[u] = pc[u] \/ (pc[u] \notin HasMutex /\ pc'[u] \notin HasMutex)
    BY <1>0, <1>3, <2>2, <2>3 DEF HasMutex
  <2> QED
    BY <1>0, <2>1, <2>4, MutexUntouched
<1>4. CASE SystemWake(t) \/ SystemSignal(t)
  <2>1. kind' = kind /\ mutex' = mutex /\ lockCount' = lockCount
    BY <1>4 DEF SystemWake, SystemSignal
  <2>2. \A u \in Threads : pc'[u] = pc[u] \/ (pc[u] \in {"sleep", "signal"} /\ pc'[u] \in {"woken", "idle"})
    <3>1. CASE SystemWake(t)
      BY <1>0, <3>1 DEF SystemWake, Goto
    <3>2. CASE SystemSignal(t) /\ At({"sleep"}) = {}
      BY <1>0, <3>2 DEF SystemSignal
    <3>3. CASE SystemSignal(t) /\ At({"sleep"}) # {}
      BY <1>0, <3>3 DEF SystemSignal, At
    <3> QED
      BY <1>4, <3>1, <3>2, <3>3
  <2>3. \A u \in Threads : pc'[u] = pc[u] \/ (pc[u] \notin HasMutex /\ pc'[u] \notin HasMutex)
    BY <2>2 DEF HasMutex
  <2> QED
    BY <1>0, <2>1, <2>3, MutexUntouched
<1> QED
  BY <1>1, <1>2, <1>3, <1>4
     DEF ConditionStep, PortableConditionWait, PortableConditionSignal, UnixConditionWait, UnixConditionSignal,
         KettleConditionWait, KettleConditionSignal, Portable

LEMMA PortableConditionSteps ==
    ASSUME ConditionTypes, ConditionTypes', PortableConditionInv, NEW t \in Threads,
           LockMutex(t) \/ CallSignal(t) \/ UnlockMutex(t) \/ PortableConditionWait(t) \/ PortableConditionSignal(t)
    PROVE  PortableConditionInv'
<1>1. CASE LockMutex(t) \/ CallSignal(t) \/ UnlockMutex(t) \/ GiveUpMutex(t) \/ Relock(t)
  <2>1. PortableCountsSame
    BY <1>1 DEF LockMutex, CallSignal, UnlockMutex, GiveUpMutex, Relock, portableVars, waiterCounts, PortableCountsSame
  <2>2. \A u \in Threads : u # t => got'[u] = got[u]
    BY <1>1 DEF LockMutex, CallSignal, UnlockMutex, GiveUpMutex, Relock, ConditionTypes
  <2>3. \/ pc[t] = "idle" /\ pc' = [pc EXCEPT ![t] = "owner"]
        \/ pc[t] = "idle" /\ pc' = [pc EXCEPT ![t] = "signal"]
        \/ pc[t] = "returned" /\ pc' = [pc EXCEPT ![t] = "idle"]
        \/ pc[t] = "unlock" /\ pc' = [pc EXCEPT ![t] = "sleep"]
        \/ pc[t] = "relock" /\ pc' = [pc EXCEPT ![t] = "returned"]
    BY <1>1 DEF LockMutex, CallSignal, UnlockMutex, GiveUpMutex, Relock, Goto
  <2> QED
    BY <2>1, <2>2, <2>3, PortableQuiet
<1> QED
  BY <1>1, WaiterBegins, WaiterWakes, WaiterBooks, WaiterTrims, WaiterPosts, SignalLocks, SignalIsFirst, SignalPosts
     DEF PortableConditionWait, PortableConditionSignal

LEMMA SystemConditionSteps ==
    ASSUME ConditionTypes, SystemConditionInv, NEW t \in Threads,
           LockMutex(t) \/ CallSignal(t) \/ UnlockMutex(t) \/ UnixConditionWait(t) \/ UnixConditionSignal(t)
    PROVE  SystemConditionInv'
<1>0. pc \in [Threads -> ConditionLabels]
  BY DEF ConditionTypes
<1>1. blocked' = blocked /\ toUnblock' = toUnblock /\ done' = done /\ queue' = queue
      /\ blockLock' = blockLock /\ unblockLock' = unblockLock /\ issue' = issue
  BY DEF LockMutex, CallSignal, UnlockMutex, UnixConditionWait, UnixConditionSignal, CountLock, SystemSleep,
         SystemWake, SystemRelock, SystemSignal, portableVars, waiterCounts
<1>2. CASE SystemSignal(t)
  <2>1. CASE At({"sleep"}) = {}
    BY <1>0, <1>1, <1>2, <2>1 DEF SystemSignal, SystemConditionInv
  <2>2. CASE At({"sleep"}) # {}
    <3>1. \A u \in Threads : pc'[u] \in {"idle", "woken", pc[u]}
      BY <1>0, <1>2, <2>2 DEF SystemSignal
    <3> QED
      BY <1>1, <3>1 DEF SystemConditionInv
  <2> QED
    BY <2>1, <2>2
<1>3. CASE ~SystemSignal(t)
  <2>1. \E l \in {"owner", "signal", "idle", "unlock", "sleep", "woken", "relock", "returned"} : pc' = [pc EXCEPT ![t] = l]
    BY <1>3 DEF LockMutex, CallSignal, UnlockMutex, UnixConditionWait, UnixConditionSignal, CountLock, SystemSleep,
                SystemWake, SystemRelock, Goto
  <2> QED
    BY <1>0, <1>1, <2>1 DEF SystemConditionInv
<1> QED
  BY <1>2, <1>3

LEMMA ConditionSteps ==
    ASSUME ConditionInv, kind \in ConditionKinds, ConditionNext
    PROVE  ConditionInv' /\ kind' = kind
<1>1. PICK t \in Threads : LockMutex(t) \/ CallSignal(t) \/ ConditionStep(t)
  BY DEF ConditionNext
<1>2. ConditionTypes /\ MutexIsExact
  BY DEF ConditionInv
<1>3. MutexIsExact' /\ lockCount' \in 0 .. 1
  BY <1>1, <1>2, ConditionKeepsMutex
<1>4. ConditionTypes' /\ kind' = kind /\ (Portable' <=> Portable)
  BY <1>1, <1>2, <1>3, ConditionKeepsTypes DEF ConditionInv, Portable
<1>5. CASE Portable
  <2>1. LockMutex(t) \/ CallSignal(t) \/ UnlockMutex(t) \/ PortableConditionWait(t) \/ PortableConditionSignal(t)
    BY <1>1, <1>5 DEF ConditionStep, Portable
  <2> QED
    BY <1>2, <1>3, <1>4, <1>5, <2>1, PortableConditionSteps DEF ConditionInv
<1>6. CASE ~Portable
  <2>1. LockMutex(t) \/ CallSignal(t) \/ UnlockMutex(t) \/ UnixConditionWait(t) \/ UnixConditionSignal(t)
    BY <1>1, <1>6 DEF ConditionStep, Portable, KettleConditionWait, KettleConditionSignal, UnixConditionWait, UnixConditionSignal
  <2> QED
    BY <1>2, <1>3, <1>4, <1>6, <2>1, SystemConditionSteps DEF ConditionInv
<1> QED
  BY <1>5, <1>6

LEMMA ConditionsAreExact ==
    ASSUME ConditionInv, Portable => kind \in ConditionKinds
    PROVE  ConditionIsExact
<1>1. CASE Portable
  <2>1. PortableConditionInv /\ ConditionTypes /\ MutexIsExact
    BY <1>1 DEF ConditionInv
  <2>2. ConditionTypeOK
    BY <2>1 DEF ConditionTypeOK, ConditionTypes, PortableConditionInv, SyncTypeOK
  <2>3. WaitersAreCounted
    BY <2>1 DEF WaitersAreCounted, PortableConditionInv, InWait
  <2>4. WakeupsSuffice
    BY <2>1 DEF WakeupsSuffice, PortableConditionInv, WokenOk
  <2>5. BlockLockIsExact
    BY <2>1 DEF BlockLockIsExact, PortableConditionInv, At
  <2>6. LockCountIsExact
    BY <2>1 DEF LockCountIsExact, MutexIsExact
  <2> QED
    BY <2>2, <2>3, <2>4, <2>5, <2>6 DEF ConditionIsExact
<1>2. CASE ~Portable
  <2>1. SystemConditionInv /\ ConditionTypes /\ MutexIsExact
    BY <1>2 DEF ConditionInv
  <2>2. ConditionTypeOK
    BY <2>1 DEF ConditionTypeOK, ConditionTypes, SystemConditionInv, SyncTypeOK
  <2>3. WakeupsSuffice
    <3>1. Cardinality(Units(issue, Threads)) \in Nat
      <4>1. \A u \in Threads : issue[u] \in Nat
        BY <2>1 DEF ConditionTypes
      <4> QED
        BY <4>1, UnitsAreFinite
    <3>2. Cardinality({t \in At({"woken"}) : got[t] = "ok"}) \in Nat
      BY PartOfThreads DEF At
    <3> QED
      BY <2>1, <3>1, <3>2 DEF WakeupsSuffice, SystemConditionInv
  <2>4. LockCountIsExact
    BY <2>1 DEF LockCountIsExact, MutexIsExact
  <2> QED
    BY <1>2, <2>2, <2>3, <2>4 DEF ConditionIsExact, WaitersAreCounted, BlockLockIsExact
<1> QED
  BY <1>1, <1>2

LEMMA ConditionsBegin ==
    ASSUME ConditionInit
    PROVE  ConditionInv
<1> USE DEF ConditionInit, SyncInit, ConditionFresh
<1>0. None \notin Threads
  BY SyncStateAssumption
<1>1. ConditionTypes
  BY DEF ConditionTypes, ConditionLabels
<1>2. MutexIsExact
  BY <1>0 DEF MutexIsExact, HasMutex
<1>3. Cardinality(InWait) = 0 /\ Cardinality(WokenOk) \in Nat /\ Cardinality(Units(issue, Threads)) \in Nat
  <2>1. InWait = {} /\ WokenOk \subseteq Threads
    BY DEF InWait, WokenOk, At
  <2>2. Cardinality(Units(issue, Threads)) \in Nat
    BY UnitsAreFinite
  <2> QED
    BY <2>1, <2>2, FS_EmptySet, PartOfThreads
<1>4. PortableConditionInv
  <2>1. blocked + toUnblock - done = Cardinality(InWait)
    BY <1>3
  <2>2. toUnblock <= queue + Cardinality(Units(issue, Threads)) + Cardinality(WokenOk)
    BY <1>3
  <2> QED
    BY <1>0, <2>1, <2>2 DEF PortableConditionInv
<1>5. SystemConditionInv
  BY DEF SystemConditionInv
<1> QED
  BY <1>1, <1>2, <1>4, <1>5 DEF ConditionInv
-----------------------------------------------------------------------------
(* Semaphores.                                                             *)

PostLabels == {"post", "up", "signal", "undo", "exchange", "refold", "refoldRest", "check", "add", "release"}
FoldLabels == {"cancel", "cancelRest", "refold", "refoldRest"}

\* A thread in Post has units left, and only one that puts cancelled waits back
\* has some of them.
SemaphoreTypes ==
    /\ pc \in [Threads -> SemaphoreLabels] /\ mutex \in Threads \cup {None}
    /\ left \in [Threads -> 0 .. MaxPost] /\ fold \in [Threads -> Nat]
    /\ ret \in [Threads -> {"none", "ok", "failed"}]
    /\ count \in Int /\ cancel \in Nat /\ os \in Nat
    /\ \A t \in Threads : pc[t] \in PostLabels => left[t] >= 1
    /\ \A t \in Threads : pc[t] \notin FoldLabels => fold[t] = 0

\* The versions over a semaphore of the system that posts units one by one, and
\* all at once.
SystemLabels == Waits \cup {"idle", "taken", "post", "up", "signal", "undo"}
OnesInv ==
    /\ \A t \in Threads : pc[t] \in SystemLabels
    /\ count = os + Cardinality(At({"taken", "signal", "undo"})) /\ os <= OSMax
BatchInv ==
    /\ \A t \in Threads : pc[t] \in SystemLabels /\ (kind = "pcSharedSemaphore" => pc[t] # "up")
    /\ count = os + Cardinality(At({"taken"})) + Left({"signal", "undo"}) /\ os <= MaxCount

\* The fast version of Windows.
FastLabels ==
    Waits \cup {"idle", "osWait", "osTimed", "cancel", "cancelRest", "post", "exchange",
                "refold", "refoldRest", "check", "add", "release"}
FastInv ==
    /\ \A t \in Threads : pc[t] \in FastLabels
    /\ count + cancel + Fold + Cardinality(At({"osWait", "osTimed"})) = Clamped(count) + os + Left({"release"})

\* The versions whose count is all there is.
PlainInv ==
    /\ \A t \in Threads : pc[t] \in Waits \cup {"idle", "post"} \cup
             (IF kind = "synthesizedSemaphore" THEN {"cvWait", "cvTimed", "relock", "retime", "expired"} ELSE {})
    /\ kind = "unthreadedSemaphore" /\ kind \in UntimedKinds => \A t \in Threads : pc[t] # "timed"
    /\ count \in 0 .. MaxCount /\ os = 0

SemaphoreInv ==
    /\ SemaphoreTypes
    /\ kind \in {"unixSemaphore", "androidSemaphore", "appleSemaphore"} => OnesInv
    /\ kind \in {"kettleSemaphore", "pcSharedSemaphore"} => BatchInv
    /\ kind = "pcFastSemaphore" => FastInv
    /\ kind \in {"synthesizedSemaphore", "unthreadedSemaphore"} => PlainInv

\* Thread t goes on to label l, with n units left, m cancelled waits to put back,
\* and r returned.
Steps(t, l, n, m, r) ==
    /\ pc' = [pc EXCEPT ![t] = l] /\ left' = [left EXCEPT ![t] = n] /\ fold' = [fold EXCEPT ![t] = m]
    /\ ret' = [ret EXCEPT ![t] = r] /\ kind' = kind

LEMMA ToSteps ==
    ASSUME SemaphoreTypes, NEW t \in Threads, NEW l, To(t, l), kind' = kind
    PROVE  Steps(t, l, left[t], fold[t], ret[t])
BY DEF SemaphoreTypes, To, Goto, Steps

LEMMA ReturnSteps ==
    ASSUME SemaphoreTypes, NEW t \in Threads, NEW r, Return(t, r), kind' = kind
    PROVE  Steps(t, "idle", 0, fold[t], r)
BY DEF SemaphoreTypes, Return, Goto, Steps

LEMMA StepsKeepTypes ==
    ASSUME SemaphoreTypes, NEW t \in Threads, NEW l \in SemaphoreLabels, NEW n \in 0 .. MaxPost, NEW m \in Nat,
           NEW r \in {"none", "ok", "failed"}, Steps(t, l, n, m, r),
           l \in PostLabels => n >= 1, l \notin FoldLabels => m = 0,
           mutex' \in Threads \cup {None}, count' \in Int, cancel' \in Nat, os' \in Nat
    PROVE  SemaphoreTypes'
<1>1. /\ pc' \in [Threads -> SemaphoreLabels] /\ left' \in [Threads -> 0 .. MaxPost] /\ fold' \in [Threads -> Nat]
      /\ ret' \in [Threads -> {"none", "ok", "failed"}]
  BY DEF SemaphoreTypes, Steps
<1>2. \A u \in Threads : pc'[u] = (IF u = t THEN l ELSE pc[u]) /\ left'[u] = (IF u = t THEN n ELSE left[u])
                         /\ fold'[u] = (IF u = t THEN m ELSE fold[u])
  BY DEF SemaphoreTypes, Steps
<1>3. \A u \in Threads : pc'[u] \in PostLabels => left'[u] >= 1
  BY <1>2 DEF SemaphoreTypes
<1>4. \A u \in Threads : pc'[u] \notin FoldLabels => fold'[u] = 0
  BY <1>2 DEF SemaphoreTypes
<1> QED
  BY <1>1, <1>3, <1>4 DEF SemaphoreTypes

LEMMA StepsCount ==
    ASSUME SemaphoreTypes, NEW t \in Threads, NEW l, NEW n, NEW m, NEW r, Steps(t, l, n, m, r), NEW L
    PROVE  /\ Cardinality(At(L)') = Cardinality(At(L)) + (IF l \in L THEN 1 ELSE 0) - (IF pc[t] \in L THEN 1 ELSE 0)
           /\ Cardinality(At(L)) \in Nat
           /\ pc[t] \in L => Cardinality(At(L)) > 0
<1>1. \A u \in Threads : u # t => pc'[u] = pc[u]
  BY DEF SemaphoreTypes, Steps
<1>2. pc'[t] = l
  BY DEF SemaphoreTypes, Steps
<1> QED
  BY <1>1, <1>2, CountAt

LEMMA StepsLeft ==
    ASSUME SemaphoreTypes, NEW t \in Threads, NEW l, NEW n \in 0 .. MaxPost, NEW m, NEW r, Steps(t, l, n, m, r), NEW L
    PROVE  /\ Left(L)' = Left(L) + (IF l \in L THEN n ELSE 0) - (IF pc[t] \in L THEN left[t] ELSE 0)
           /\ Left(L) \in Nat
           /\ pc[t] \in L => Left(L) >= left[t]
<1>0. MaxPost \in Nat
  BY SemaphoresAssumption
<1>1. \A u \in Threads : pc'[u] = (IF u = t THEN l ELSE pc[u]) /\ left'[u] = (IF u = t THEN n ELSE left[u])
  BY DEF SemaphoreTypes, Steps
<1>2. \A u \in Threads : left[u] \in Nat /\ left'[u] \in Nat
  BY <1>0, <1>1 DEF SemaphoreTypes
<1>3. At(L) \subseteq Threads /\ At(L)' \subseteq Threads /\ (t \in At(L) <=> pc[t] \in L) /\ (t \in At(L)' <=> l \in L)
  BY <1>1 DEF At
<1>4. \A u \in Threads : u # t => (u \in At(L) <=> u \in At(L)') /\ left'[u] = left[u]
  BY <1>1 DEF At
<1>5. /\ Cardinality(Units(left', At(L)')) = Cardinality(Units(left, At(L)))
                + (IF t \in At(L)' THEN left'[t] ELSE 0) - (IF t \in At(L) THEN left[t] ELSE 0)
      /\ Cardinality(Units(left, At(L))) \in Nat
      /\ t \in At(L) => Cardinality(Units(left, At(L))) >= left[t]
  BY <1>2, <1>3, <1>4, UnitsMove
<1>6. Left(L) = Cardinality(Units(left, At(L))) /\ Left(L)' = Cardinality(Units(left', At(L)'))
  BY DEF Left, Units, At
<1>7. left'[t] = n
  BY <1>1
<1> QED
  BY <1>3, <1>5, <1>6, <1>7

LEMMA StepsFold ==
    ASSUME SemaphoreTypes, NEW t \in Threads, NEW l, NEW n, NEW m \in Nat, NEW r, Steps(t, l, n, m, r)
    PROVE  Fold' = Fold + m - fold[t] /\ Fold \in Nat /\ Fold >= fold[t] /\ fold[t] \in Nat
<1>1. \A u \in Threads : fold'[u] = IF u = t THEN m ELSE fold[u]
  BY DEF SemaphoreTypes, Steps
<1>2. \A u \in Threads : fold[u] \in Nat /\ fold'[u] \in Nat
  BY <1>1 DEF SemaphoreTypes
<1>3. /\ Cardinality(Units(fold', Threads)) = Cardinality(Units(fold, Threads)) + fold'[t] - fold[t]
      /\ Cardinality(Units(fold, Threads)) \in Nat /\ Cardinality(Units(fold, Threads)) >= fold[t]
  BY <1>1, <1>2, UnitsMove
<1>4. fold'[t] = m
  BY <1>1
<1> QED
  BY <1>2, <1>3, <1>4 DEF Fold

-----------------------------------------------------------------------------
(* Steps of the abstract semaphore.                                        *)

Calls == [t \in Threads |-> CallOf(t)]
SemaphorePromiseStep == [SemaphorePromise!Next]_<<Value, Calls>>

WaitLabels == Waiting \cup {"cancel", "cancelRest", "expired"}
Said(l, r) == IF l \in WaitLabels THEN "wait" ELSE IF l = "taken" THEN "ok" ELSE IF l = "idle" THEN r ELSE "post"

LEMMA SaidByAll ==
    ASSUME kind \in SemaphoreKinds, kind' = kind
    PROVE  \A u : CallOf(u) = Said(pc[u], ret[u]) /\ CallOf(u)' = Said(pc'[u], ret'[u])
BY DEF CallOf, Said, WaitLabels, Waiting, Waits

LEMMA SaidBySteps ==
    ASSUME kind \in SemaphoreKinds, SemaphoreTypes, NEW t \in Threads, NEW l, NEW n, NEW m, NEW r, Steps(t, l, n, m, r)
    PROVE  Calls' = [Calls EXCEPT ![t] = Said(l, r)] /\ Calls[t] = Said(pc[t], ret[t])
<1>0. kind' = kind
  BY DEF Steps
<1>1. \A u \in Threads : pc'[u] = (IF u = t THEN l ELSE pc[u]) /\ ret'[u] = (IF u = t THEN r ELSE ret[u])
  BY DEF SemaphoreTypes, Steps
<1>2. \A u \in Threads : CallOf(u)' = IF u = t THEN Said(l, r) ELSE CallOf(u)
  BY <1>0, <1>1, SaidByAll
<1> QED
  BY <1>0, <1>2, SaidByAll DEF Calls

LEMMA SemaphoreCalls ==
    ASSUME kind \in SemaphoreKinds, SemaphoreTypes, NEW t \in Threads, NEW l, NEW n, NEW m, NEW r, Steps(t, l, n, m, r),
           Said(pc[t], ret[t]) \in {"none", "ok", "failed"}, Said(l, r) \in {"wait", "post"}, Value' = Value
    PROVE  SemaphorePromiseStep
<1>0. Calls' = [Calls EXCEPT ![t] = Said(l, r)] /\ Calls[t] = Said(pc[t], ret[t])
  BY SaidBySteps
<1>1. SemaphorePromise!Move(t, Said(pc[t], ret[t]), Said(l, r))
  BY <1>0 DEF SemaphorePromise!Move, Calls
<1>2. SemaphorePromise!Call(t)
  BY <1>1 DEF SemaphorePromise!Call, SemaphorePromise!Results
<1> QED
  BY <1>2 DEF SemaphorePromiseStep, SemaphorePromise!Next

LEMMA SemaphoreTakes ==
    ASSUME kind \in SemaphoreKinds, SemaphoreTypes, NEW t \in Threads, NEW l, NEW n, NEW m, NEW r, Steps(t, l, n, m, r),
           Said(pc[t], ret[t]) = "wait", Said(l, r) = "ok", Value > 0, Value' = Value - 1
    PROVE  SemaphorePromiseStep
<1>1. SemaphorePromise!Take(t)
  BY SaidBySteps DEF SemaphorePromise!Take, SemaphorePromise!Move, Calls
<1> QED
  BY <1>1 DEF SemaphorePromiseStep, SemaphorePromise!Next

LEMMA SemaphoreGivesUp ==
    ASSUME kind \in SemaphoreKinds, SemaphoreTypes, NEW t \in Threads, NEW l, NEW n, NEW m, NEW r, Steps(t, l, n, m, r),
           Said(pc[t], ret[t]) = "wait", Said(l, r) = "failed", Value' = Value
    PROVE  SemaphorePromiseStep
<1>1. SemaphorePromise!GiveUp(t)
  BY SaidBySteps DEF SemaphorePromise!GiveUp, SemaphorePromise!Move, Calls
<1> QED
  BY <1>1 DEF SemaphorePromiseStep, SemaphorePromise!Next

LEMMA SemaphorePuts ==
    ASSUME kind \in SemaphoreKinds, SemaphoreTypes, NEW t \in Threads, NEW l, NEW n, NEW m, NEW r, Steps(t, l, n, m, r),
           Said(pc[t], ret[t]) = "post", Said(l, r) \in {"post", "ok"},
           NEW i \in 1 .. MaxPost, Value' = Value + i
    PROVE  SemaphorePromiseStep
<1>1. SemaphorePromise!Put(t)
  BY SaidBySteps DEF SemaphorePromise!Put, SemaphorePromise!Move, Calls
<1> QED
  BY <1>1 DEF SemaphorePromiseStep, SemaphorePromise!Next

LEMMA SemaphoreReturns ==
    ASSUME kind \in SemaphoreKinds, SemaphoreTypes, NEW t \in Threads, NEW l, NEW n, NEW m, NEW r, Steps(t, l, n, m, r),
           Said(pc[t], ret[t]) = "post", Said(l, r) \in {"ok", "failed"}, Value' = Value
    PROVE  SemaphorePromiseStep
<1>0. Calls' = [Calls EXCEPT ![t] = Said(l, r)] /\ Calls[t] = Said(pc[t], ret[t])
  BY SaidBySteps
<1>1. SemaphorePromise!Move(t, "post", Said(l, r))
  BY <1>0 DEF SemaphorePromise!Move, Calls
<1>2. SemaphorePromise!Return(t)
  BY <1>1 DEF SemaphorePromise!Return
<1> QED
  BY <1>2 DEF SemaphorePromiseStep, SemaphorePromise!Next

LEMMA SemaphoreStays ==
    ASSUME kind \in SemaphoreKinds, SemaphoreTypes, NEW t \in Threads, NEW l, NEW n, NEW m, NEW r, Steps(t, l, n, m, r),
           Said(pc[t], ret[t]) = Said(l, r), Value' = Value
    PROVE  SemaphorePromiseStep
<1>0. Calls' = [Calls EXCEPT ![t] = Said(l, r)] /\ Calls[t] = Said(pc[t], ret[t])
  BY SaidBySteps
<1>1. Calls' = Calls
  BY <1>0 DEF Calls
<1> QED
  BY <1>1 DEF SemaphorePromiseStep

LEMMA Values ==
    ASSUME kind \in SemaphoreKinds, kind' = kind
    PROVE  /\ kind \in SystemKinds => Value = os /\ Value' = os'
           /\ kind = "pcFastSemaphore" =>
                 /\ Value = Clamped(count) + os + Left({"release"})
                 /\ Value' = Clamped(count') + os' + Left({"release"})'
           /\ kind \in {"synthesizedSemaphore", "unthreadedSemaphore"} => Value = count /\ Value' = count'
<1>1. kind \in SystemKinds => Value = os /\ Value' = os'
  BY DEF Value, SystemKinds
<1>2. kind = "pcFastSemaphore" => /\ Value = Clamped(count) + os + Left({"release"})
                                  /\ Value' = (Clamped(count) + os + Left({"release"}))'
  BY DEF Value, SystemKinds
<1>3. (Clamped(count) + os + Left({"release"}))' = Clamped(count') + os' + Left({"release"})'
  BY DEF Clamped
<1>4. kind \in {"synthesizedSemaphore", "unthreadedSemaphore"} => Value = count /\ Value' = count'
  BY DEF Value, SystemKinds
<1> QED
  BY <1>1, <1>2, <1>3, <1>4

-----------------------------------------------------------------------------
(* Steps that no count is about.                                           *)

QuietLabels == Waits \cup {"idle", "post"}

LEMMA QuietSteps ==
    ASSUME SemaphoreInv, kind \in SemaphoreKinds, NEW t \in Threads, NEW l \in QuietLabels, NEW n \in 0 .. MaxPost,
           NEW r \in {"none", "ok", "failed"}, Steps(t, l, n, fold[t], r), pc[t] \in QuietLabels, l = "post" => n >= 1,
           kind \in UntimedKinds => l # "timed",
           count' = count, cancel' = cancel, os' = os, mutex' \in Threads \cup {None}
    PROVE  SemaphoreInv' /\ Value' = Value
<1>0. SemaphoreTypes /\ kind' = kind /\ fold[t] = 0 /\ fold[t] \in Nat
  BY DEF SemaphoreInv, SemaphoreTypes, Steps, QuietLabels, FoldLabels, Waits
<1>1. l \in SemaphoreLabels /\ (l \in PostLabels => n >= 1)
  BY DEF QuietLabels, SemaphoreLabels, Waiting, Waits, PostLabels
<1>2. SemaphoreTypes'
  <2>1. count' \in Int /\ cancel' \in Nat /\ os' \in Nat
    BY <1>0 DEF SemaphoreTypes
  <2> QED
    BY <1>0, <1>1, <2>1, StepsKeepTypes
<1>3. \A u \in Threads : pc'[u] = IF u = t THEN l ELSE pc[u]
  BY <1>0 DEF SemaphoreTypes, Steps
<1>4. ASSUME NEW L, L \cap QuietLabels = {} PROVE Cardinality(At(L)') = Cardinality(At(L)) /\ Left(L)' = Left(L)
  <2>1. l \notin L /\ pc[t] \notin L
    BY <1>4
  <2>2. Cardinality(At(L)') = Cardinality(At(L))
    BY <1>0, <2>1, StepsCount
  <2>3. Left(L)' = Left(L)
    BY <1>0, <2>1, StepsLeft
  <2> QED
    BY <2>2, <2>3
<1>5. /\ Cardinality(At({"taken", "signal", "undo"})') = Cardinality(At({"taken", "signal", "undo"}))
      /\ Cardinality(At({"taken"})') = Cardinality(At({"taken"})) /\ Left({"signal", "undo"})' = Left({"signal", "undo"})
      /\ Cardinality(At({"osWait", "osTimed"})') = Cardinality(At({"osWait", "osTimed"}))
      /\ Left({"release"})' = Left({"release"})
  BY <1>4 DEF QuietLabels, Waits
<1>6. Fold' = Fold
  BY <1>0, StepsFold
<1>7. l \in SystemLabels /\ l \in FastLabels /\ l # "up" /\ l \in Waits \cup {"idle", "post"}
  BY DEF SystemLabels, FastLabels, QuietLabels, Waits
<1>8. OnesInv => OnesInv'
  BY <1>3, <1>5, <1>7 DEF OnesInv
<1>9. BatchInv => BatchInv'
  BY <1>0, <1>3, <1>5, <1>7 DEF BatchInv
<1>10. FastInv => FastInv'
  <2>1. Clamped(count)' = Clamped(count)
    BY DEF Clamped
  <2> QED
    BY <1>3, <1>5, <1>6, <1>7, <2>1 DEF FastInv
<1>11. PlainInv => PlainInv'
  BY <1>0, <1>3, <1>7 DEF PlainInv
<1>12. SemaphoreInv'
  BY <1>0, <1>2, <1>8, <1>9, <1>10, <1>11 DEF SemaphoreInv
<1>13. Value' = Value
  <2>1. Clamped(count') = Clamped(count)
    BY DEF Clamped
  <2>2. kind \in SystemKinds \cup {"pcFastSemaphore", "synthesizedSemaphore", "unthreadedSemaphore"}
    BY KindsAssumption DEF SystemKinds
  <2> QED
    BY <1>0, <1>5, <2>1, <2>2, Values
<1> QED
  BY <1>12, <1>13

LEMMA SemaphoreCalled ==
    ASSUME SemaphoreInv, kind \in SemaphoreKinds, NEW t \in Threads, CallWait(t) \/ CallPost(t)
    PROVE  SemaphoreInv' /\ SemaphorePromiseStep
<1>0. SemaphoreTypes /\ MaxPost \in Nat
  BY SemaphoresAssumption DEF SemaphoreInv
<1>1. PICK l \in QuietLabels, n \in 0 .. MaxPost :
         /\ pc[t] = "idle" /\ l # "idle" /\ (l = "post" => n >= 1) /\ (kind \in UntimedKinds => l # "timed")
         /\ pc' = [pc EXCEPT ![t] = l] /\ left' = [left EXCEPT ![t] = n] /\ fold' = fold
         /\ ret' = [ret EXCEPT ![t] = "none"] /\ UNCHANGED counts
  <2>1. CASE CallWait(t)
    <3>1. PICK w \in Waits : Goto(t, w) /\ (kind \in UntimedKinds => w # "timed")
      BY <2>1 DEF CallWait
    <3>2. left' = [left EXCEPT ![t] = left[t]] /\ left[t] \in 0 .. MaxPost
      BY <1>0, <2>1 DEF CallWait, SemaphoreTypes
    <3>3. w \in QuietLabels /\ w # "idle" /\ w # "post"
      BY DEF QuietLabels, Waits
    <3> QED
      BY <2>1, <3>1, <3>2, <3>3 DEF CallWait, Goto
  <2>2. CASE CallPost(t)
    <3>1. PICK n \in 1 .. MaxPost : left' = [left EXCEPT ![t] = n]
      BY <2>2 DEF CallPost
    <3>2. n \in 0 .. MaxPost /\ n >= 1 /\ "post" \in QuietLabels
      BY <1>0 DEF QuietLabels
    <3> QED
      BY <2>2, <3>1, <3>2 DEF CallPost, Goto
  <2> QED
    BY <2>1, <2>2
<1>2. Steps(t, l, n, fold[t], "none")
  BY <1>0, <1>1 DEF Steps, SemaphoreTypes, counts
<1>3. count' = count /\ cancel' = cancel /\ os' = os /\ mutex' \in Threads \cup {None} /\ pc[t] \in QuietLabels
  BY <1>0, <1>1 DEF SemaphoreTypes, counts, QuietLabels
<1>4. SemaphoreInv' /\ Value' = Value
  BY <1>1, <1>2, <1>3, QuietSteps
<1>5. Said(pc[t], ret[t]) \in {"none", "ok", "failed"} /\ Said(l, "none") \in {"wait", "post"}
  BY <1>0, <1>1 DEF Said, WaitLabels, Waiting, Waits, QuietLabels, SemaphoreTypes
<1> QED
  BY <1>0, <1>2, <1>4, <1>5, SemaphoreCalls

-----------------------------------------------------------------------------
(* Steps over a semaphore of the system.                                   *)

OnesKinds == {"unixSemaphore", "androidSemaphore", "appleSemaphore"}
BatchKinds == {"kettleSemaphore", "pcSharedSemaphore"}

\* A step of a version that posts one by one, or all at once, by what it adds to
\* the count and to the system's.
LEMMA SystemSteps ==
    ASSUME SemaphoreInv, kind \in SystemKinds, kind \in SemaphoreKinds, NEW t \in Threads, NEW l \in SystemLabels,
           NEW n \in 0 .. MaxPost, NEW r \in {"none", "ok", "failed"}, Steps(t, l, n, fold[t], r),
           l \in PostLabels => n >= 1, kind = "pcSharedSemaphore" => l # "up",
           count' \in Int, os' \in Nat, cancel' = cancel, mutex' = mutex,
           kind \in OnesKinds =>
              /\ os' <= OSMax
              /\ count' - os' = count - os + (IF l \in {"taken", "signal", "undo"} THEN 1 ELSE 0)
                                           - (IF pc[t] \in {"taken", "signal", "undo"} THEN 1 ELSE 0),
           kind \in BatchKinds =>
              /\ os' <= MaxCount
              /\ count' - os' = count - os + (IF l = "taken" THEN 1 ELSE 0) - (IF pc[t] = "taken" THEN 1 ELSE 0)
                                           + (IF l \in {"signal", "undo"} THEN n ELSE 0)
                                           - (IF pc[t] \in {"signal", "undo"} THEN left[t] ELSE 0)
    PROVE  SemaphoreInv'
<1>0. SemaphoreTypes /\ kind' = kind
  BY DEF SemaphoreInv, Steps
<1>1. \A u \in Threads : pc[u] \in SystemLabels
  BY <1>0 DEF SemaphoreInv, OnesInv, BatchInv, SystemKinds
<1>2. fold[t] = 0 /\ fold[t] \in Nat
  BY <1>0, <1>1 DEF SemaphoreTypes, SystemLabels, Waits, FoldLabels
<1>3. l \in SemaphoreLabels
  BY DEF SystemLabels, SemaphoreLabels, Waiting, Waits
<1>4. SemaphoreTypes'
  <2>1. mutex' \in Threads \cup {None} /\ cancel' \in Nat
    BY <1>0 DEF SemaphoreTypes
  <2> QED
    BY <1>0, <1>2, <1>3, <2>1, StepsKeepTypes
<1>5. \A u \in Threads : pc'[u] = IF u = t THEN l ELSE pc[u]
  BY <1>0 DEF SemaphoreTypes, Steps
<1>6. count \in Int /\ os \in Nat
  BY <1>0 DEF SemaphoreTypes
<1> PICK c2 \in Int : count' = c2
  OBVIOUS
<1> PICK o2 \in Nat : os' = o2
  OBVIOUS
<1>7. CASE kind \in OnesKinds
  <2> DEFINE N == Cardinality(At({"taken", "signal", "undo"}))
             M == Cardinality(At({"taken", "signal", "undo"})')
             a == IF l \in {"taken", "signal", "undo"} THEN 1 ELSE 0
             b == IF pc[t] \in {"taken", "signal", "undo"} THEN 1 ELSE 0
  <2>1. M = N + a - b /\ N \in Nat
    BY <1>0, StepsCount
  <2>2. count = os + N
    BY <1>7 DEF SemaphoreInv, OnesInv, OnesKinds
  <2>3. count' - os' = count - os + a - b /\ a \in Int /\ b \in Int
    BY <1>7
  <2>4. count' = os' + M
    <3> HIDE DEF N, M, a, b
    <3>1. c2 - o2 = count - os + a - b
      BY <2>3
    <3>2. c2 = o2 + M
      BY ONLY <1>6, <2>1, <2>2, <2>3, <3>1
    <3> QED
      BY <3>2
  <2>5. OnesInv'
    BY <1>1, <1>5, <1>7, <2>4 DEF OnesInv
  <2> QED
    BY <1>0, <1>4, <1>7, <2>5 DEF SemaphoreInv, OnesKinds
<1>8. CASE kind \in BatchKinds
  <2> DEFINE N == Cardinality(At({"taken"}))
             M == Cardinality(At({"taken"})')
             P == Left({"signal", "undo"})
             Q == Left({"signal", "undo"})'
             a == IF l = "taken" THEN 1 ELSE 0
             b == IF pc[t] = "taken" THEN 1 ELSE 0
             c == IF l \in {"signal", "undo"} THEN n ELSE 0
             d == IF pc[t] \in {"signal", "undo"} THEN left[t] ELSE 0
  <2>1. M = N + a - b /\ N \in Nat
    BY <1>0, StepsCount
  <2>2. Q = P + c - d /\ P \in Nat
    <3>1. ASSUME NEW L PROVE Left(L)' = Left(L) + (IF l \in L THEN n ELSE 0) - (IF pc[t] \in L THEN left[t] ELSE 0)
                             /\ Left(L) \in Nat
      BY <1>0, StepsLeft
    <3> QED
      BY ONLY <3>1
  <2>3. count = os + N + P
    BY <1>8 DEF SemaphoreInv, BatchInv, BatchKinds
  <2>4. count' - os' = count - os + a - b + c - d
    BY <1>8
  <2>5. a \in Int /\ b \in Int /\ c \in Int /\ d \in Int
    BY <1>0, SemaphoresAssumption DEF SemaphoreTypes
  <2>6. count' = os' + M + Q
    <3> HIDE DEF N, M, P, Q, a, b, c, d
    <3>1. c2 - o2 = count - os + a - b + c - d
      BY <2>4
    <3>2. c2 = o2 + M + Q
      BY ONLY <1>6, <2>1, <2>2, <2>3, <2>5, <3>1
    <3> QED
      BY <3>2
  <2>7. \A u \in Threads : pc'[u] \in SystemLabels /\ (kind' = "pcSharedSemaphore" => pc'[u] # "up")
    BY <1>0, <1>1, <1>5, <1>8 DEF SemaphoreInv, BatchInv, BatchKinds
  <2>8. BatchInv'
    BY <1>8, <2>6, <2>7 DEF BatchInv
  <2> QED
    BY <1>0, <1>4, <1>8, <2>8 DEF SemaphoreInv, BatchKinds
<1> QED
  BY <1>7, <1>8 DEF SystemKinds, OnesKinds, BatchKinds

\* What the steps below start from.
LEMMA SystemFacts ==
    ASSUME SemaphoreInv, kind \in SystemKinds, NEW t \in Threads
    PROVE  /\ SemaphoreTypes /\ MaxCount \in Nat /\ OSMax \in Nat /\ MaxPost \in Nat
           /\ pc[t] \in SystemLabels /\ count \in Int /\ os \in Nat /\ left[t] \in 0 .. MaxPost
           /\ ret[t] \in {"none", "ok", "failed"} /\ (pc[t] \in PostLabels => left[t] >= 1)
           /\ mutex \in Threads \cup {None}
           /\ (kind \in OnesKinds => os <= OSMax) /\ (kind \in BatchKinds => os <= MaxCount)
           /\ kind \in OnesKinds \cup BatchKinds
           /\ OnesKinds \cap BatchKinds = {}
BY SemaphoresAssumption DEF SemaphoreInv, SemaphoreTypes, OnesInv, BatchInv, OnesKinds, BatchKinds, SystemKinds

LEMMA SystemTakes ==
    ASSUME SemaphoreInv, kind \in SystemKinds, kind \in SemaphoreKinds, NEW t \in Threads, TakeToken(t, Waits, "taken")
    PROVE  SemaphoreInv' /\ SemaphorePromiseStep
<1>0. /\ SemaphoreTypes /\ count \in Int /\ os \in Nat /\ left[t] \in 0 .. MaxPost /\ ret[t] \in {"none", "ok", "failed"}
      /\ (kind \in OnesKinds => os <= OSMax) /\ (kind \in BatchKinds => os <= MaxCount) /\ MaxCount \in Nat /\ OSMax \in Nat
  BY SystemFacts
<1>1. pc[t] \in Waits /\ os > 0 /\ os' = os - 1 /\ count' = count /\ cancel' = cancel /\ mutex' = mutex /\ kind' = kind
      /\ To(t, "taken")
  BY DEF TakeToken
<1>2. Steps(t, "taken", left[t], fold[t], ret[t])
  BY <1>0, <1>1, ToSteps
<1>3. "taken" \in SystemLabels /\ "taken" \notin PostLabels /\ pc[t] \notin {"taken", "signal", "undo"}
  BY <1>1 DEF SystemLabels, PostLabels, Waits
<1>4. os' \in Nat /\ count' - os' = count - os + 1 /\ (kind \in OnesKinds => os' <= OSMax) /\ (kind \in BatchKinds => os' <= MaxCount)
  BY <1>0, <1>1
<1>5. SemaphoreInv'
  <2>1. kind \in OnesKinds =>
              /\ os' <= OSMax
              /\ count' - os' = count - os + (IF "taken" \in {"taken", "signal", "undo"} THEN 1 ELSE 0)
                                           - (IF pc[t] \in {"taken", "signal", "undo"} THEN 1 ELSE 0)
    BY <1>0, <1>3, <1>4
  <2>2. kind \in BatchKinds =>
              /\ os' <= MaxCount
              /\ count' - os' = count - os + (IF "taken" = "taken" THEN 1 ELSE 0) - (IF pc[t] = "taken" THEN 1 ELSE 0)
                                           + (IF "taken" \in {"signal", "undo"} THEN left[t] ELSE 0)
                                           - (IF pc[t] \in {"signal", "undo"} THEN left[t] ELSE 0)
    BY <1>0, <1>3, <1>4
  <2> QED
    BY <1>0, <1>1, <1>2, <1>3, <1>4, <2>1, <2>2, SystemSteps
<1>6. Value = os /\ Value' = os'
  BY <1>1, Values
<1>7. Said(pc[t], ret[t]) = "wait" /\ Said("taken", ret[t]) = "ok"
  BY <1>1 DEF Said, WaitLabels, Waiting, Waits
<1> QED
  BY <1>0, <1>1, <1>2, <1>5, <1>6, <1>7, SemaphoreTakes

LEMMA SystemFails ==
    ASSUME SemaphoreInv, kind \in SystemKinds, kind \in SemaphoreKinds, NEW t \in Threads,
           pc[t] \in Waits, Return(t, "failed"), UNCHANGED counts
    PROVE  SemaphoreInv' /\ SemaphorePromiseStep
<1>0. SemaphoreTypes /\ MaxPost \in Nat /\ mutex \in Threads \cup {None}
  BY SystemFacts
<1>1. kind' = kind /\ count' = count /\ cancel' = cancel /\ os' = os /\ mutex' = mutex
  BY DEF counts
<1>2. Steps(t, "idle", 0, fold[t], "failed")
  BY <1>0, <1>1, ReturnSteps
<1>3. "idle" \in QuietLabels /\ pc[t] \in QuietLabels /\ 0 \in 0 .. MaxPost
  BY <1>0 DEF QuietLabels
<1>4. SemaphoreInv' /\ Value' = Value
  BY <1>0, <1>1, <1>2, <1>3, QuietSteps
<1>5. Said(pc[t], ret[t]) = "wait" /\ Said("idle", "failed") = "failed"
  BY DEF Said, WaitLabels, Waiting, Waits
<1> QED
  BY <1>0, <1>2, <1>4, <1>5, SemaphoreGivesUp

LEMMA SystemCountsDown ==
    ASSUME SemaphoreInv, kind \in SystemKinds, kind \in SemaphoreKinds, NEW t \in Threads, CountDown(t)
    PROVE  SemaphoreInv' /\ SemaphorePromiseStep
<1>0. /\ SemaphoreTypes /\ count \in Int /\ os \in Nat /\ MaxPost \in Nat
      /\ (kind \in OnesKinds => os <= OSMax) /\ (kind \in BatchKinds => os <= MaxCount)
  BY SystemFacts
<1>1. pc[t] = "taken" /\ os' = os /\ count' = count - 1 /\ cancel' = cancel /\ mutex' = mutex /\ kind' = kind
      /\ Return(t, "ok")
  BY DEF CountDown
<1>2. Steps(t, "idle", 0, fold[t], "ok")
  BY <1>0, <1>1, ReturnSteps
<1>3. "idle" \in SystemLabels /\ "idle" \notin PostLabels /\ 0 \in 0 .. MaxPost
  BY <1>0 DEF SystemLabels, PostLabels
<1>4. count' \in Int /\ os' \in Nat /\ count' - os' = count - os - 1
  BY <1>0, <1>1
<1>5. SemaphoreInv'
  <2>1. kind \in OnesKinds =>
              /\ os' <= OSMax
              /\ count' - os' = count - os + (IF "idle" \in {"taken", "signal", "undo"} THEN 1 ELSE 0)
                                           - (IF pc[t] \in {"taken", "signal", "undo"} THEN 1 ELSE 0)
    BY <1>0, <1>1, <1>4
  <2>2. kind \in BatchKinds =>
              /\ os' <= MaxCount
              /\ count' - os' = count - os + (IF "idle" = "taken" THEN 1 ELSE 0) - (IF pc[t] = "taken" THEN 1 ELSE 0)
                                           + (IF "idle" \in {"signal", "undo"} THEN 0 ELSE 0)
                                           - (IF pc[t] \in {"signal", "undo"} THEN left[t] ELSE 0)
    BY <1>0, <1>1, <1>4
  <2> QED
    BY <1>0, <1>1, <1>2, <1>3, <1>4, <2>1, <2>2, SystemSteps
<1>6. Value' = Value
  BY <1>1, Values
<1>7. Said(pc[t], ret[t]) = Said("idle", "ok")
  BY <1>1 DEF Said, WaitLabels, Waiting, Waits
<1> QED
  BY <1>0, <1>2, <1>5, <1>6, <1>7, SemaphoreStays

LEMMA SystemChecks ==
    ASSUME SemaphoreInv, kind \in SystemKinds, kind \in SemaphoreKinds, NEW t \in Threads, CheckMax(t, "up"),
           kind # "pcSharedSemaphore"
    PROVE  SemaphoreInv' /\ SemaphorePromiseStep
<1>0. /\ SemaphoreTypes /\ MaxPost \in Nat /\ mutex \in Threads \cup {None} /\ left[t] \in 0 .. MaxPost
      /\ ret[t] \in {"none", "ok", "failed"} /\ count \in Int /\ os \in Nat /\ (pc[t] \in PostLabels => left[t] >= 1)
      /\ (kind \in OnesKinds => os <= OSMax) /\ (kind \in BatchKinds => os <= MaxCount)
  BY SystemFacts
<1>1. pc[t] = "post" /\ kind' = kind /\ count' = count /\ cancel' = cancel /\ os' = os /\ mutex' = mutex
      /\ (Return(t, "failed") \/ To(t, "up"))
  BY DEF CheckMax, counts
<1>2. CASE Return(t, "failed")
  <2>1. Steps(t, "idle", 0, fold[t], "failed")
    BY <1>0, <1>1, <1>2, ReturnSteps
  <2>2. "idle" \in QuietLabels /\ pc[t] \in QuietLabels /\ 0 \in 0 .. MaxPost
    BY <1>0, <1>1 DEF QuietLabels
  <2>3. SemaphoreInv' /\ Value' = Value
    BY <1>0, <1>1, <2>1, <2>2, QuietSteps
  <2>4. Said(pc[t], ret[t]) = "post" /\ Said("idle", "failed") = "failed"
    BY <1>1 DEF Said, WaitLabels, Waiting, Waits
  <2> QED
    BY <1>0, <2>1, <2>3, <2>4, SemaphoreReturns
<1>3. CASE To(t, "up")
  <2>1. Steps(t, "up", left[t], fold[t], ret[t])
    BY <1>0, <1>1, <1>3, ToSteps
  <2>2. "up" \in SystemLabels /\ left[t] >= 1
    BY <1>0, <1>1 DEF SystemLabels, PostLabels
  <2>3. count' \in Int /\ os' \in Nat /\ count' - os' = count - os
    BY <1>0, <1>1
  <2>4. kind \in OnesKinds =>
              /\ os' <= OSMax
              /\ count' - os' = count - os + (IF "up" \in {"taken", "signal", "undo"} THEN 1 ELSE 0)
                                           - (IF pc[t] \in {"taken", "signal", "undo"} THEN 1 ELSE 0)
    BY <1>0, <1>1, <2>3
  <2>5. kind \in BatchKinds =>
              /\ os' <= MaxCount
              /\ count' - os' = count - os + (IF "up" = "taken" THEN 1 ELSE 0) - (IF pc[t] = "taken" THEN 1 ELSE 0)
                                           + (IF "up" \in {"signal", "undo"} THEN left[t] ELSE 0)
                                           - (IF pc[t] \in {"signal", "undo"} THEN left[t] ELSE 0)
    BY <1>0, <1>1, <2>3
  <2>6. SemaphoreInv'
    BY <1>0, <1>1, <2>1, <2>2, <2>3, <2>4, <2>5, SystemSteps
  <2>7. Value' = Value
    BY <1>1, Values
  <2>8. Said(pc[t], ret[t]) = Said("up", ret[t])
    BY <1>1 DEF Said, WaitLabels, Waiting, Waits
  <2> QED
    BY <1>0, <2>1, <2>6, <2>7, <2>8, SemaphoreStays
<1> QED
  BY <1>1, <1>2, <1>3

\* n units are one, or all that the thread has left.
UnitsAtOnce(t, n) ==
    /\ kind \in OnesKinds => n = 1
    /\ kind \in BatchKinds => n = left[t]

LEMMA SystemCountsUp ==
    ASSUME SemaphoreInv, kind \in SystemKinds, kind \in SemaphoreKinds, NEW t \in Threads,
           NEW from \in {"up", "post"}, NEW n, CountUp(t, from, n), UnitsAtOnce(t, n)
    PROVE  SemaphoreInv' /\ SemaphorePromiseStep
<1>0. /\ SemaphoreTypes /\ MaxPost \in Nat /\ left[t] \in 0 .. MaxPost
      /\ ret[t] \in {"none", "ok", "failed"} /\ count \in Int /\ os \in Nat /\ (pc[t] \in PostLabels => left[t] >= 1)
      /\ (kind \in OnesKinds => os <= OSMax) /\ (kind \in BatchKinds => os <= MaxCount) /\ kind \in OnesKinds \cup BatchKinds
  BY SystemFacts
<1>1. pc[t] = from /\ kind' = kind /\ count' = count + n /\ cancel' = cancel /\ os' = os /\ mutex' = mutex
      /\ To(t, "signal")
  BY DEF CountUp
<1>2. Steps(t, "signal", left[t], fold[t], ret[t])
  BY <1>0, <1>1, ToSteps
<1>3. "signal" \in SystemLabels /\ left[t] >= 1 /\ pc[t] \notin {"taken", "signal", "undo"}
  BY <1>0, <1>1 DEF SystemLabels, PostLabels
<1>4. n \in Int
  BY <1>0 DEF UnitsAtOnce
<1>5. count' \in Int /\ os' \in Nat /\ count' - os' = count - os + n
  BY <1>0, <1>1, <1>4
<1>6. kind \in OnesKinds =>
            /\ os' <= OSMax
            /\ count' - os' = count - os + (IF "signal" \in {"taken", "signal", "undo"} THEN 1 ELSE 0)
                                         - (IF pc[t] \in {"taken", "signal", "undo"} THEN 1 ELSE 0)
  BY <1>0, <1>1, <1>3, <1>5 DEF UnitsAtOnce
<1>7. kind \in BatchKinds =>
            /\ os' <= MaxCount
            /\ count' - os' = count - os + (IF "signal" = "taken" THEN 1 ELSE 0) - (IF pc[t] = "taken" THEN 1 ELSE 0)
                                         + (IF "signal" \in {"signal", "undo"} THEN left[t] ELSE 0)
                                         - (IF pc[t] \in {"signal", "undo"} THEN left[t] ELSE 0)
  BY <1>0, <1>1, <1>3, <1>5 DEF UnitsAtOnce
<1>8. SemaphoreInv'
  BY <1>0, <1>1, <1>2, <1>3, <1>5, <1>6, <1>7, SystemSteps
<1>9. Value' = Value
  BY <1>1, Values
<1>10. Said(pc[t], ret[t]) = Said("signal", ret[t])
  BY <1>1 DEF Said, WaitLabels, Waiting, Waits
<1> QED
  BY <1>0, <1>2, <1>8, <1>9, <1>10, SemaphoreStays

LEMMA SystemSignals ==
    ASSUME SemaphoreInv, kind \in SystemKinds, kind \in SemaphoreKinds, NEW t \in Threads,
           NEW n, NEW max, Signal(t, n, max), UnitsAtOnce(t, n),
           kind \in OnesKinds => max = OSMax, kind \in BatchKinds => max = MaxCount
    PROVE  SemaphoreInv' /\ SemaphorePromiseStep
<1>0. /\ SemaphoreTypes /\ MaxPost \in Nat /\ left[t] \in 0 .. MaxPost /\ MaxCount \in Nat /\ OSMax \in Nat
      /\ ret[t] \in {"none", "ok", "failed"} /\ count \in Int /\ os \in Nat /\ (pc[t] \in PostLabels => left[t] >= 1)
      /\ (kind \in OnesKinds => os <= OSMax) /\ (kind \in BatchKinds => os <= MaxCount) /\ kind \in OnesKinds \cup BatchKinds
      /\ OnesKinds \cap BatchKinds = {}
  BY SystemFacts
<1>1. pc[t] = "signal" /\ left[t] >= 1 /\ n \in 1 .. left[t]
  BY <1>0 DEF Signal, UnitsAtOnce, PostLabels
<1>2. Said(pc[t], ret[t]) = "post"
  BY <1>1 DEF Said, WaitLabels, Waiting, Waits
<1>3. CASE os + n > max
  <2>1. kind' = kind /\ count' = count /\ cancel' = cancel /\ os' = os /\ mutex' = mutex /\ To(t, "undo")
    BY <1>3 DEF Signal, counts
  <2>2. Steps(t, "undo", left[t], fold[t], ret[t])
    BY <1>0, <2>1, ToSteps
  <2>3. "undo" \in SystemLabels
    BY DEF SystemLabels
  <2>4. count' \in Int /\ os' \in Nat /\ count' - os' = count - os
    BY <1>0, <2>1
  <2>5. kind \in OnesKinds =>
              /\ os' <= OSMax
              /\ count' - os' = count - os + (IF "undo" \in {"taken", "signal", "undo"} THEN 1 ELSE 0)
                                           - (IF pc[t] \in {"taken", "signal", "undo"} THEN 1 ELSE 0)
    BY <1>0, <1>1, <2>1, <2>4
  <2>6. kind \in BatchKinds =>
              /\ os' <= MaxCount
              /\ count' - os' = count - os + (IF "undo" = "taken" THEN 1 ELSE 0) - (IF pc[t] = "taken" THEN 1 ELSE 0)
                                           + (IF "undo" \in {"signal", "undo"} THEN left[t] ELSE 0)
                                           - (IF pc[t] \in {"signal", "undo"} THEN left[t] ELSE 0)
    BY <1>0, <1>1, <2>1, <2>4
  <2>7. SemaphoreInv'
    BY <1>0, <1>1, <2>1, <2>2, <2>3, <2>4, <2>5, <2>6, SystemSteps
  <2>8. Value' = Value
    BY <2>1, Values
  <2>9. Said("undo", ret[t]) = "post"
    BY DEF Said, WaitLabels, Waiting, Waits
  <2> QED
    BY <1>0, <1>2, <2>2, <2>7, <2>8, <2>9, SemaphoreStays
<1>4. CASE ~(os + n > max)
  <2>1. kind' = kind /\ count' = count /\ cancel' = cancel /\ os' = os + n /\ mutex' = mutex
    BY <1>4 DEF Signal
  <2>2. PICK l \in {"up", "idle"}, k \in 0 .. MaxPost, r \in {"none", "ok", "failed"} :
           /\ Steps(t, l, k, fold[t], r)
           /\ l = "up" => k >= 1 /\ n < left[t]
           /\ l = "idle" => r = "ok"
    <3>1. CASE left[t] > n
      <4>1. left' = [left EXCEPT ![t] = @ - n] /\ Goto(t, "up") /\ fold' = fold /\ ret' = ret
        BY <1>4, <3>1 DEF Signal
      <4>2. Steps(t, "up", left[t] - n, fold[t], ret[t])
        BY <1>0, <2>1, <4>1 DEF Steps, Goto, SemaphoreTypes
      <4>3. left[t] - n \in 0 .. MaxPost /\ left[t] - n >= 1
        BY <1>0, <1>1, <3>1
      <4> QED
        BY <1>0, <3>1, <4>2, <4>3
    <3>2. CASE ~(left[t] > n)
      <4>1. Return(t, "ok")
        BY <1>4, <3>2 DEF Signal
      <4>2. Steps(t, "idle", 0, fold[t], "ok")
        BY <1>0, <2>1, <4>1, ReturnSteps
      <4>3. 0 \in 0 .. MaxPost
        BY <1>0
      <4> QED
        BY <4>2, <4>3
    <3> QED
      BY <3>1, <3>2
  <2>3. l \in SystemLabels /\ (l \in PostLabels => k >= 1) /\ (kind \in BatchKinds => l = "idle")
        /\ (kind = "pcSharedSemaphore" => l # "up")
    BY <1>0, <2>2 DEF SystemLabels, PostLabels, UnitsAtOnce, BatchKinds
  <2>4. count' \in Int /\ os' \in Nat /\ count' - os' = count - os - n /\ os' <= max
    BY <1>0, <1>1, <1>4, <2>1
  <2>5. kind \in OnesKinds =>
              /\ os' <= OSMax
              /\ count' - os' = count - os + (IF l \in {"taken", "signal", "undo"} THEN 1 ELSE 0)
                                           - (IF pc[t] \in {"taken", "signal", "undo"} THEN 1 ELSE 0)
    <3> SUFFICES ASSUME kind \in OnesKinds
                 PROVE  os' <= OSMax /\ count' - os' = count - os + 0 - 1
      BY <1>1, <2>2
    <3>1. n = 1 /\ max = OSMax
      BY DEF UnitsAtOnce
    <3> QED
      BY <1>0, <2>4, <3>1
  <2>6. kind \in BatchKinds =>
              /\ os' <= MaxCount
              /\ count' - os' = count - os + (IF l = "taken" THEN 1 ELSE 0) - (IF pc[t] = "taken" THEN 1 ELSE 0)
                                           + (IF l \in {"signal", "undo"} THEN k ELSE 0)
                                           - (IF pc[t] \in {"signal", "undo"} THEN left[t] ELSE 0)
    <3> SUFFICES ASSUME kind \in BatchKinds
                 PROVE  os' <= MaxCount /\ count' - os' = count - os + 0 - 0 + 0 - left[t]
      BY <1>1, <2>2
    <3>1. n = left[t] /\ max = MaxCount
      BY DEF UnitsAtOnce
    <3> QED
      BY <1>0, <2>4, <3>1
  <2>7. SemaphoreInv'
    BY <1>0, <1>1, <2>1, <2>2, <2>3, <2>4, <2>5, <2>6, SystemSteps
  <2>8. Value' = Value + n
    BY <2>1, Values
  <2>9. Said(l, r) \in {"post", "ok"}
    BY <2>2 DEF Said, WaitLabels, Waiting, Waits
  <2>10. n \in 1 .. MaxPost
    BY <1>0, <1>1
  <2> QED
    BY <1>0, <1>2, <2>2, <2>7, <2>8, <2>9, <2>10, SemaphorePuts
<1> QED
  BY <1>3, <1>4

LEMMA SystemUndoes ==
    ASSUME SemaphoreInv, kind \in SystemKinds, kind \in SemaphoreKinds, NEW t \in Threads,
           NEW n, Undo(t, n), UnitsAtOnce(t, n)
    PROVE  SemaphoreInv' /\ SemaphorePromiseStep
<1>0. /\ SemaphoreTypes /\ MaxPost \in Nat /\ left[t] \in 0 .. MaxPost
      /\ count \in Int /\ os \in Nat
      /\ (kind \in OnesKinds => os <= OSMax) /\ (kind \in BatchKinds => os <= MaxCount) /\ kind \in OnesKinds \cup BatchKinds
  BY SystemFacts
<1>1. pc[t] = "undo" /\ kind' = kind /\ count' = count - n /\ cancel' = cancel /\ os' = os /\ mutex' = mutex
      /\ Return(t, "failed")
  BY DEF Undo
<1>2. Steps(t, "idle", 0, fold[t], "failed")
  BY <1>0, <1>1, ReturnSteps
<1>3. "idle" \in SystemLabels /\ "idle" \notin PostLabels /\ 0 \in 0 .. MaxPost
  BY <1>0 DEF SystemLabels, PostLabels
<1>4. n \in Int
  BY <1>0 DEF UnitsAtOnce
<1>5. count' \in Int /\ os' \in Nat /\ count' - os' = count - os - n
  BY <1>0, <1>1, <1>4
<1>6. kind \in OnesKinds =>
            /\ os' <= OSMax
            /\ count' - os' = count - os + (IF "idle" \in {"taken", "signal", "undo"} THEN 1 ELSE 0)
                                         - (IF pc[t] \in {"taken", "signal", "undo"} THEN 1 ELSE 0)
  BY <1>0, <1>1, <1>5 DEF UnitsAtOnce
<1>7. kind \in BatchKinds =>
            /\ os' <= MaxCount
            /\ count' - os' = count - os + (IF "idle" = "taken" THEN 1 ELSE 0) - (IF pc[t] = "taken" THEN 1 ELSE 0)
                                         + (IF "idle" \in {"signal", "undo"} THEN 0 ELSE 0)
                                         - (IF pc[t] \in {"signal", "undo"} THEN left[t] ELSE 0)
  BY <1>0, <1>1, <1>5 DEF UnitsAtOnce
<1>8. SemaphoreInv'
  BY <1>0, <1>1, <1>2, <1>3, <1>5, <1>6, <1>7, SystemSteps
<1>9. Value' = Value
  BY <1>1, Values
<1>10. Said(pc[t], ret[t]) = "post" /\ Said("idle", "failed") = "failed"
  BY <1>1 DEF Said, WaitLabels, Waiting, Waits
<1> QED
  BY <1>0, <1>2, <1>8, <1>9, <1>10, SemaphoreReturns

LEMMA SystemSemaphoreSteps ==
    ASSUME SemaphoreInv, kind \in SystemKinds, kind \in SemaphoreKinds, NEW t \in Threads, SemaphoreStep(t)
    PROVE  SemaphoreInv' /\ SemaphorePromiseStep
<1>1. CASE TakeToken(t, Waits, "taken") \/ TimeOut(t) \/ CountDown(t) \/ (pc[t] = "wait" /\ Return(t, "failed") /\ UNCHANGED counts)
  <2>1. TimeOut(t) => pc[t] \in Waits /\ Return(t, "failed") /\ UNCHANGED counts
    BY DEF TimeOut, Waits
  <2>2. pc[t] = "wait" => pc[t] \in Waits
    BY DEF Waits
  <2> QED
    BY <1>1, <2>1, <2>2, SystemTakes, SystemFails, SystemCountsDown
<1>2. CASE kind \in OnesKinds /\ PostOnes(t)
  <2>1. UnitsAtOnce(t, 1) /\ kind # "pcSharedSemaphore" /\ kind \notin BatchKinds
    BY <1>2 DEF UnitsAtOnce, OnesKinds, BatchKinds
  <2> QED
    BY <1>2, <2>1, SystemChecks, SystemCountsUp, SystemSignals, SystemUndoes DEF PostOnes
<1>3. CASE kind = "kettleSemaphore" /\ KettleSemaphorePost(t)
  <2>1. UnitsAtOnce(t, left[t]) /\ kind # "pcSharedSemaphore" /\ kind \notin OnesKinds
    BY <1>3 DEF UnitsAtOnce, OnesKinds, BatchKinds
  <2> QED
    BY <1>3, <2>1, SystemChecks, SystemCountsUp, SystemSignals, SystemUndoes DEF KettleSemaphorePost
<1>4. CASE kind = "pcSharedSemaphore" /\ PCSharedPost(t)
  <2>1. UnitsAtOnce(t, left[t]) /\ kind \notin OnesKinds
    BY <1>4 DEF UnitsAtOnce, OnesKinds, BatchKinds
  <2> QED
    BY <1>4, <2>1, SystemCountsUp, SystemSignals, SystemUndoes DEF PCSharedPost
<1>5. \/ TakeToken(t, Waits, "taken") \/ TimeOut(t) \/ CountDown(t) \/ (pc[t] = "wait" /\ Return(t, "failed") /\ UNCHANGED counts)
      \/ kind \in OnesKinds /\ PostOnes(t)
      \/ kind = "kettleSemaphore" /\ KettleSemaphorePost(t)
      \/ kind = "pcSharedSemaphore" /\ PCSharedPost(t)
  BY DEF SemaphoreStep, UnixSemaphoreWait, UnixSemaphorePost, AndroidWait, AndroidPost, AppleWait, ApplePost,
         KettleSemaphoreWait, PCSharedWait, SystemKinds, OnesKinds
<1> QED
  BY <1>1, <1>2, <1>3, <1>4, <1>5

-----------------------------------------------------------------------------
(* Steps of the fast version of Windows.                                   *)

Queued(l) == IF l \in {"osWait", "osTimed"} THEN 1 ELSE 0
Released(l, n) == IF l = "release" THEN n ELSE 0

\* Both sides of what the count says grow by v, the units that thread t adds or
\* takes: the new counts are c, x and o.
Balanced(t, l, n, m, c, x, o, v) ==
    /\ c + x + m + Queued(l) = count + cancel + fold[t] + Queued(pc[t]) + v
    /\ Clamped(c) + o + Released(l, n) = Clamped(count) + os + Released(pc[t], left[t]) + v

LEMMA FastMoves ==
    ASSUME SemaphoreInv, kind = "pcFastSemaphore", kind \in SemaphoreKinds, NEW t \in Threads, NEW l \in FastLabels,
           NEW n \in 0 .. MaxPost, NEW m \in Nat, NEW r \in {"none", "ok", "failed"}, Steps(t, l, n, m, r),
           l \in PostLabels => n >= 1, l \notin FoldLabels => m = 0,
           NEW c \in Int, NEW x \in Nat, NEW o \in Nat, NEW v \in Int, Balanced(t, l, n, m, c, x, o, v),
           count' = c, cancel' = x, os' = o, mutex' = mutex
    PROVE  SemaphoreInv' /\ Value' = Value + v
<1>0. SemaphoreTypes /\ kind' = kind /\ FastInv
  BY DEF SemaphoreInv, Steps
<1>1. SemaphoreTypes'
  <2>1. l \in SemaphoreLabels /\ mutex' \in Threads \cup {None} /\ count' \in Int /\ cancel' \in Nat /\ os' \in Nat
    BY <1>0 DEF SemaphoreTypes, FastLabels, SemaphoreLabels, Waiting, Waits
  <2> QED
    BY <1>0, <2>1, StepsKeepTypes
<1>2. \A u \in Threads : pc'[u] \in FastLabels
  BY <1>0 DEF SemaphoreTypes, Steps, FastInv
<1> DEFINE N == Cardinality(At({"osWait", "osTimed"}))
           M == Cardinality(At({"osWait", "osTimed"})')
           P == Left({"release"})
           Q == Left({"release"})'
           F == Fold
           G == Fold'
           d == Clamped(count)
           e == Clamped(c)
           f == fold[t]
           i == Queued(pc[t])
           j == Queued(l)
           k == Released(pc[t], left[t])
           h == Released(l, n)
<1>3. M = N + j - i /\ N \in Nat /\ j \in Nat /\ i \in Nat
  BY <1>0, StepsCount DEF Queued
<1>4. Q = P + h - k /\ P \in Nat /\ h \in Int /\ k \in Int
  <2>1. Q = P + (IF l \in {"release"} THEN n ELSE 0) - (IF pc[t] \in {"release"} THEN left[t] ELSE 0) /\ P \in Nat
    <3>1. ASSUME NEW L PROVE Left(L)' = Left(L) + (IF l \in L THEN n ELSE 0) - (IF pc[t] \in L THEN left[t] ELSE 0)
                             /\ Left(L) \in Nat
      BY <1>0, StepsLeft
    <3> QED
      BY ONLY <3>1
  <2>2. n \in Int /\ left[t] \in Int
    BY <1>0, SemaphoresAssumption DEF SemaphoreTypes
  <2> QED
    BY <2>1, <2>2 DEF Released
<1>5. G = F + m - f /\ F \in Nat /\ f \in Nat
  BY <1>0, StepsFold
<1>6. count \in Int /\ cancel \in Nat /\ os \in Nat /\ d \in Int /\ e \in Int
  BY <1>0 DEF SemaphoreTypes, Clamped
<1>7. count + cancel + F + N = d + os + P
  BY <1>0 DEF FastInv
<1>8. c + x + m + j = count + cancel + f + i + v /\ e + o + h = d + os + k + v
  BY DEF Balanced
<1>9. Value = d + os + P /\ Value' = e + o + Q
  <2>1. Value' = Clamped(count') + os' + Q
    BY <1>0, Values
  <2>2. Clamped(count') = e
    BY DEF Clamped
  <2> QED
    BY <1>0, <2>1, <2>2, Values
<1>10. FastInv'
  <2>1. c + x + G + M = e + o + Q
    <3> HIDE DEF N, M, P, Q, F, G, d, e, f, i, j, k, h
    <3> QED
      BY ONLY <1>3, <1>4, <1>5, <1>6, <1>7, <1>8, m \in Nat, c \in Int, x \in Nat, o \in Nat, v \in Int
  <2>2. Clamped(count)' = e
    BY DEF Clamped
  <2> QED
    BY <1>2, <2>1, <2>2 DEF FastInv
<1>11. Value' = Value + v
  <2>1. e + o + Q = d + os + P + v
    <3> HIDE DEF N, M, P, Q, F, G, d, e, f, i, j, k, h
    <3> QED
      BY ONLY <1>4, <1>6, <1>8, o \in Nat, v \in Int
  <2> QED
    BY <1>9, <2>1
<1> QED
  BY <1>0, <1>1, <1>10, <1>11 DEF SemaphoreInv

LEMMA FastFacts ==
    ASSUME SemaphoreInv, kind = "pcFastSemaphore", kind \in SemaphoreKinds, NEW t \in Threads
    PROVE  /\ SemaphoreTypes /\ MaxPost \in Nat /\ count \in Int /\ cancel \in Nat /\ os \in Nat
           /\ left[t] \in 0 .. MaxPost /\ ret[t] \in {"none", "ok", "failed"} /\ fold[t] \in Nat
           /\ pc[t] \in PostLabels => left[t] >= 1
           /\ pc[t] \notin FoldLabels => fold[t] = 0
           /\ Value \in Int /\ Value >= Clamped(count) + os /\ Clamped(count) >= 0
<1>1. /\ SemaphoreTypes /\ MaxPost \in Nat /\ count \in Int /\ cancel \in Nat /\ os \in Nat
      /\ left[t] \in 0 .. MaxPost /\ ret[t] \in {"none", "ok", "failed"} /\ fold[t] \in Nat
      /\ pc[t] \in PostLabels => left[t] >= 1
      /\ pc[t] \notin FoldLabels => fold[t] = 0
  BY SemaphoresAssumption DEF SemaphoreInv, SemaphoreTypes
<1>2. Value = Clamped(count) + os + Left({"release"})
  BY DEF Value, SystemKinds
<1>3. Left({"release"}) \in Nat
  <2>1. At({"release"}) \subseteq Threads /\ \A u \in At({"release"}) : left[u] \in Nat
    BY <1>1 DEF SemaphoreTypes, At
  <2> QED
    BY <2>1, UnitsAreFinite DEF Left
<1>4. Clamped(count) \in Nat
  BY <1>1 DEF Clamped
<1> QED
  BY <1>1, <1>2, <1>3, <1>4

LEMMA FastUpdates ==
    ASSUME SemaphoreInv, kind = "pcFastSemaphore", kind \in SemaphoreKinds, NEW t \in Threads,
           \/ UpdateCancelCount(t, "cancel", "cancelRest")
           \/ UpdateCancelCount(t, "refold", "refoldRest")
    PROVE  SemaphoreInv' /\ SemaphorePromiseStep
<1>0. /\ SemaphoreTypes /\ MaxPost \in Nat /\ count \in Int /\ cancel \in Nat /\ os \in Nat
      /\ left[t] \in 0 .. MaxPost /\ ret[t] \in {"none", "ok", "failed"} /\ fold[t] \in Nat
      /\ pc[t] \in PostLabels => left[t] >= 1
      /\ Value \in Int
  BY FastFacts
<1>1. PICK from \in {"cancel", "refold"}, rest \in {"cancelRest", "refoldRest"} :
         UpdateCancelCount(t, from, rest) /\ (from = "refold" <=> rest = "refoldRest")
  OBVIOUS
<1> DEFINE back == IF count < 0 THEN Smaller(fold[t], -count) ELSE 0
<1>2. back \in 0 .. fold[t] /\ (count < 0 => back <= -count) /\ (~(count < 0) => back = 0)
  BY <1>0 DEF Smaller
<1>3. count' = count + back /\ cancel' = cancel /\ os' = os /\ mutex' = mutex /\ pc[t] = from
  BY <1>0, <1>1 DEF UpdateCancelCount
<1>4. Steps(t, rest, left[t], fold[t] - back, ret[t])
  BY <1>0, <1>1 DEF SemaphoreTypes, Goto, Steps, UpdateCancelCount
<1> HIDE DEF back
<1>5. rest \in FastLabels /\ rest \in FoldLabels /\ (rest \in PostLabels => pc[t] \in PostLabels)
  BY <1>1, <1>3 DEF FastLabels, PostLabels, FoldLabels
<1>6. Balanced(t, rest, left[t], fold[t] - back, count + back, cancel, os, 0)
  <2>1. Queued(rest) = 0 /\ Queued(pc[t]) = 0 /\ Released(rest, left[t]) = 0 /\ Released(pc[t], left[t]) = 0
    BY <1>3 DEF Queued, Released
  <2>2. Clamped(count) = Clamped(count + back) /\ Clamped(count) \in Int
    BY <1>0, <1>2 DEF Clamped
  <2>3. back \in Int
    BY <1>0, <1>2
  <2> QED
    BY <1>0, <2>1, <2>2, <2>3 DEF Balanced
<1>7. fold[t] - back \in Nat /\ count + back \in Int
  BY <1>0, <1>2
<1>8. SemaphoreInv' /\ Value' = Value + 0
  BY <1>0, <1>3, <1>4, <1>5, <1>6, <1>7, FastMoves
<1>9. Said(pc[t], ret[t]) = Said(rest, ret[t])
  BY <1>1, <1>3 DEF Said, WaitLabels, Waiting, Waits
<1>10. Value' = Value
  BY <1>0, <1>8
<1> QED
  BY <1>0, <1>4, <1>8, <1>9, <1>10, SemaphoreStays

LEMMA FastWaits ==
    ASSUME SemaphoreInv, kind = "pcFastSemaphore", kind \in SemaphoreKinds, NEW t \in Threads, PCFastWait(t)
    PROVE  SemaphoreInv' /\ SemaphorePromiseStep
<1>0. /\ SemaphoreTypes /\ MaxPost \in Nat /\ count \in Int /\ cancel \in Nat /\ os \in Nat
      /\ left[t] \in 0 .. MaxPost /\ ret[t] \in {"none", "ok", "failed"} /\ fold[t] \in Nat
      /\ pc[t] \notin FoldLabels => fold[t] = 0
      /\ Value \in Int /\ Value >= Clamped(count) + os /\ Clamped(count) >= 0
  BY FastFacts
<1>a. "idle" \in FastLabels /\ "idle" \notin PostLabels \cup FoldLabels /\ 0 \in 0 .. MaxPost /\ Value + 0 = Value
  BY <1>0 DEF FastLabels, PostLabels, FoldLabels
<1>1. CASE pc[t] \in Waits /\ Admitted /\ count' = count - 1 /\ Return(t, "ok") /\ UNCHANGED <<kind, cancel, os, mutex>>
  <2>1. Steps(t, "idle", 0, fold[t], "ok") /\ fold[t] = 0
    BY <1>0, <1>1, ReturnSteps DEF Waits, FoldLabels
  <2>2. Balanced(t, "idle", 0, fold[t], count - 1, cancel, os, -1)
    <3>1. Queued("idle") = 0 /\ Queued(pc[t]) = 0 /\ Released("idle", 0) = 0 /\ Released(pc[t], left[t]) = 0
      BY <1>1 DEF Queued, Released, Waits
    <3>2. Clamped(count - 1) = count - 1 /\ Clamped(count) = count
      BY <1>0, <1>1 DEF Admitted, Clamped
    <3> QED
      BY <1>0, <3>1, <3>2 DEF Balanced
  <2>3. SemaphoreInv' /\ Value' = Value + -1
    BY <1>0, <1>1, <1>a, <2>1, <2>2, FastMoves
  <2>4. Value > 0 /\ Value' = Value - 1
    BY <1>0, <1>1, <2>3 DEF Admitted, Clamped
  <2>5. Said(pc[t], ret[t]) = "wait" /\ Said("idle", "ok") = "ok"
    BY <1>1 DEF Said, WaitLabels, Waiting, Waits
  <2> QED
    BY <1>0, <2>1, <2>3, <2>4, <2>5, SemaphoreTakes
<1>2. CASE /\ pc[t] \in Waits /\ ~Admitted /\ count' = count - 1
           /\ To(t, IF pc[t] = "wait" THEN "osWait" ELSE "osTimed") /\ UNCHANGED <<kind, cancel, os, mutex>>
  <2> DEFINE l == IF pc[t] = "wait" THEN "osWait" ELSE "osTimed"
  <2>1. Steps(t, l, left[t], fold[t], ret[t]) /\ fold[t] = 0
    BY <1>0, <1>2, ToSteps DEF Waits, FoldLabels
  <2>2. l \in FastLabels /\ l \notin PostLabels \cup FoldLabels /\ Queued(l) = 1 /\ Released(l, left[t]) = 0
    BY DEF FastLabels, PostLabels, FoldLabels, Queued, Released
  <2>3. Said(pc[t], ret[t]) = Said(l, ret[t])
    BY <1>2 DEF Said, WaitLabels, Waiting, Waits
  <2> HIDE DEF l
  <2>4. Balanced(t, l, left[t], fold[t], count - 1, cancel, os, 0)
    <3>1. Queued(pc[t]) = 0 /\ Released(pc[t], left[t]) = 0
      BY <1>2 DEF Queued, Released, Waits
    <3>2. Clamped(count - 1) = 0 /\ Clamped(count) = 0
      BY <1>0, <1>2 DEF Admitted, Clamped
    <3> QED
      BY <1>0, <2>2, <3>1, <3>2 DEF Balanced
  <2>5. SemaphoreInv' /\ Value' = Value + 0
    BY <1>0, <1>2, <2>1, <2>2, <2>4, FastMoves
  <2> QED
    BY <1>0, <1>a, <2>1, <2>3, <2>5, SemaphoreStays
<1>3. CASE /\ pc[t] \in {"osWait", "osTimed"} /\ os > 0 /\ os' = os - 1 /\ Return(t, "ok")
           /\ UNCHANGED <<kind, count, cancel, mutex>>
  <2>1. Steps(t, "idle", 0, fold[t], "ok") /\ fold[t] = 0
    BY <1>0, <1>3, ReturnSteps DEF FoldLabels
  <2>2. Balanced(t, "idle", 0, fold[t], count, cancel, os - 1, -1)
    <3>1. Queued("idle") = 0 /\ Queued(pc[t]) = 1 /\ Released("idle", 0) = 0 /\ Released(pc[t], left[t]) = 0
      BY <1>3 DEF Queued, Released
    <3>2. Clamped(count) \in Int
      BY <1>0 DEF Clamped
    <3> QED
      BY <1>0, <3>1, <3>2 DEF Balanced
  <2>3. os - 1 \in Nat
    BY <1>0, <1>3
  <2>4. SemaphoreInv' /\ Value' = Value + -1
    BY <1>0, <1>3, <1>a, <2>1, <2>2, <2>3, FastMoves
  <2>5. Value > 0 /\ Value' = Value - 1
    BY <1>0, <1>3, <2>4 DEF Clamped
  <2>6. Said(pc[t], ret[t]) = "wait" /\ Said("idle", "ok") = "ok"
    BY <1>3 DEF Said, WaitLabels, Waiting, Waits
  <2> QED
    BY <1>0, <2>1, <2>4, <2>5, <2>6, SemaphoreTakes
<1>4. CASE /\ pc[t] = "osTimed" /\ os = 0 /\ fold' = [fold EXCEPT ![t] = 1] /\ Goto(t, "cancel") /\ UNCHANGED <<counts, left, ret>>
  <2>1. Steps(t, "cancel", left[t], 1, ret[t]) /\ fold[t] = 0
    BY <1>0, <1>4 DEF SemaphoreTypes, FoldLabels, Goto, Steps, counts
  <2>2. Balanced(t, "cancel", left[t], 1, count, cancel, os, 0)
    <3>1. Queued("cancel") = 0 /\ Queued(pc[t]) = 1 /\ Released("cancel", left[t]) = 0 /\ Released(pc[t], left[t]) = 0
      BY <1>4 DEF Queued, Released
    <3>2. Clamped(count) \in Int
      BY <1>0 DEF Clamped
    <3> QED
      BY <1>0, <2>1, <3>1, <3>2 DEF Balanced
  <2>3. "cancel" \in FastLabels /\ "cancel" \notin PostLabels /\ "cancel" \in FoldLabels
    BY DEF FastLabels, PostLabels, FoldLabels
  <2>4. count' = count /\ cancel' = cancel /\ os' = os /\ mutex' = mutex
    BY <1>4 DEF counts
  <2>5. SemaphoreInv' /\ Value' = Value + 0
    BY <1>0, <2>1, <2>2, <2>3, <2>4, FastMoves
  <2>6. Said(pc[t], ret[t]) = Said("cancel", ret[t])
    BY <1>4 DEF Said, WaitLabels, Waiting, Waits
  <2> QED
    BY <1>0, <1>a, <2>1, <2>5, <2>6, SemaphoreStays
<1>5. CASE pc[t] = "cancelRest" /\ AddCancel(t) /\ Goto(t, "idle") /\ ret' = [ret EXCEPT ![t] = "failed"]
  <2>1. Steps(t, "idle", left[t], 0, "failed")
    BY <1>0, <1>5 DEF SemaphoreTypes, Goto, Steps, AddCancel
  <2>2. Balanced(t, "idle", left[t], 0, count, cancel + fold[t], os, 0)
    <3>1. Queued("idle") = 0 /\ Queued(pc[t]) = 0 /\ Released("idle", left[t]) = 0 /\ Released(pc[t], left[t]) = 0
      BY <1>5 DEF Queued, Released
    <3>2. Clamped(count) \in Int
      BY <1>0 DEF Clamped
    <3> QED
      BY <1>0, <3>1, <3>2 DEF Balanced
  <2>3. count' = count /\ cancel' = cancel + fold[t] /\ os' = os /\ mutex' = mutex /\ cancel + fold[t] \in Nat
    BY <1>0, <1>5 DEF AddCancel
  <2>4. SemaphoreInv' /\ Value' = Value + 0
    BY <1>0, <1>a, <2>1, <2>2, <2>3, FastMoves
  <2>5. Said(pc[t], ret[t]) = "wait" /\ Said("idle", "failed") = "failed"
    BY <1>5 DEF Said, WaitLabels, Waiting, Waits
  <2> QED
    BY <1>0, <1>a, <2>1, <2>4, <2>5, SemaphoreGivesUp
<1> QED
  BY <1>1, <1>2, <1>3, <1>4, <1>5, FastUpdates DEF PCFastWait

LEMMA FastPosts ==
    ASSUME SemaphoreInv, kind = "pcFastSemaphore", kind \in SemaphoreKinds, NEW t \in Threads, PCFastPost(t)
    PROVE  SemaphoreInv' /\ SemaphorePromiseStep
<1>0. /\ SemaphoreTypes /\ MaxPost \in Nat /\ count \in Int /\ cancel \in Nat /\ os \in Nat
      /\ left[t] \in 0 .. MaxPost /\ ret[t] \in {"none", "ok", "failed"} /\ fold[t] \in Nat
      /\ pc[t] \in PostLabels => left[t] >= 1
      /\ pc[t] \notin FoldLabels => fold[t] = 0
      /\ Value \in Int /\ Value >= Clamped(count) + os /\ Clamped(count) >= 0
  BY FastFacts
<1>a. "idle" \in FastLabels /\ "idle" \notin PostLabels \cup FoldLabels /\ 0 \in 0 .. MaxPost /\ Value + 0 = Value
      /\ Clamped(count) \in Int
  BY <1>0 DEF FastLabels, PostLabels, FoldLabels, Clamped
\* From one label of Post to another, without a change of any count.
<1>1. ASSUME NEW l \in {"exchange", "check", "add"}, pc[t] \in {"post", "exchange", "check"}, To(t, l), UNCHANGED counts
      PROVE  SemaphoreInv' /\ SemaphorePromiseStep
  <2>1. kind' = kind /\ count' = count /\ cancel' = cancel /\ os' = os /\ mutex' = mutex
    BY <1>1 DEF counts
  <2>2. Steps(t, l, left[t], fold[t], ret[t]) /\ fold[t] = 0 /\ left[t] >= 1
    BY <1>0, <1>1, <2>1, ToSteps DEF FoldLabels, PostLabels
  <2>3. Balanced(t, l, left[t], fold[t], count, cancel, os, 0)
    <3>1. Queued(l) = 0 /\ Queued(pc[t]) = 0 /\ Released(l, left[t]) = 0 /\ Released(pc[t], left[t]) = 0
      BY <1>1 DEF Queued, Released
    <3> QED
      BY <1>0, <1>a, <3>1 DEF Balanced
  <2>4. l \in FastLabels
    BY <1>1 DEF FastLabels
  <2>5. SemaphoreInv' /\ Value' = Value + 0
    BY <1>0, <2>1, <2>2, <2>3, <2>4, FastMoves
  <2>6. Said(pc[t], ret[t]) = Said(l, ret[t])
    BY <1>1 DEF Said, WaitLabels, Waiting, Waits
  <2> QED
    BY <1>0, <1>a, <2>2, <2>5, <2>6, SemaphoreStays
<1>2. CASE /\ pc[t] = "exchange" /\ fold' = [fold EXCEPT ![t] = cancel] /\ cancel' = 0
           /\ Goto(t, "refold") /\ UNCHANGED <<kind, count, os, mutex, left, ret>>
  <2>1. Steps(t, "refold", left[t], cancel, ret[t]) /\ fold[t] = 0 /\ left[t] >= 1
    BY <1>0, <1>2 DEF SemaphoreTypes, Goto, Steps, FoldLabels, PostLabels
  <2>2. Balanced(t, "refold", left[t], cancel, count, 0, os, 0)
    <3>1. Queued("refold") = 0 /\ Queued(pc[t]) = 0 /\ Released("refold", left[t]) = 0 /\ Released(pc[t], left[t]) = 0
      BY <1>2 DEF Queued, Released
    <3> QED
      BY <1>0, <1>a, <2>1, <3>1 DEF Balanced
  <2>3. "refold" \in FastLabels /\ "refold" \in FoldLabels
    BY DEF FastLabels, FoldLabels
  <2>4. SemaphoreInv' /\ Value' = Value + 0
    BY <1>0, <1>2, <2>1, <2>2, <2>3, FastMoves
  <2>5. Said(pc[t], ret[t]) = Said("refold", ret[t])
    BY <1>2 DEF Said, WaitLabels, Waiting, Waits
  <2> QED
    BY <1>0, <1>a, <2>1, <2>4, <2>5, SemaphoreStays
<1>3. CASE pc[t] = "refoldRest" /\ AddCancel(t) /\ Goto(t, "check") /\ UNCHANGED ret
  <2>1. Steps(t, "check", left[t], 0, ret[t]) /\ left[t] >= 1
    BY <1>0, <1>3 DEF SemaphoreTypes, Goto, Steps, AddCancel, PostLabels
  <2>2. Balanced(t, "check", left[t], 0, count, cancel + fold[t], os, 0)
    <3>1. Queued("check") = 0 /\ Queued(pc[t]) = 0 /\ Released("check", left[t]) = 0 /\ Released(pc[t], left[t]) = 0
      BY <1>3 DEF Queued, Released
    <3> QED
      BY <1>0, <1>a, <3>1 DEF Balanced
  <2>3. count' = count /\ cancel' = cancel + fold[t] /\ os' = os /\ mutex' = mutex /\ cancel + fold[t] \in Nat
    BY <1>0, <1>3 DEF AddCancel
  <2>4. "check" \in FastLabels
    BY DEF FastLabels
  <2>5. SemaphoreInv' /\ Value' = Value + 0
    BY <1>0, <2>1, <2>2, <2>3, <2>4, FastMoves
  <2>6. Said(pc[t], ret[t]) = Said("check", ret[t])
    BY <1>3 DEF Said, WaitLabels, Waiting, Waits
  <2> QED
    BY <1>0, <1>a, <2>1, <2>5, <2>6, SemaphoreStays
<1>4. CASE pc[t] = "check" /\ Return(t, "failed") /\ UNCHANGED counts
  <2>1. kind' = kind /\ count' = count /\ cancel' = cancel /\ os' = os /\ mutex' = mutex
    BY <1>4 DEF counts
  <2>2. Steps(t, "idle", 0, fold[t], "failed") /\ fold[t] = 0
    BY <1>0, <1>4, <2>1, ReturnSteps DEF FoldLabels
  <2>3. Balanced(t, "idle", 0, fold[t], count, cancel, os, 0)
    <3>1. Queued("idle") = 0 /\ Queued(pc[t]) = 0 /\ Released("idle", 0) = 0 /\ Released(pc[t], left[t]) = 0
      BY <1>4 DEF Queued, Released
    <3> QED
      BY <1>0, <1>a, <3>1 DEF Balanced
  <2>4. SemaphoreInv' /\ Value' = Value + 0
    BY <1>0, <1>a, <2>1, <2>2, <2>3, FastMoves
  <2>5. Said(pc[t], ret[t]) = "post" /\ Said("idle", "failed") = "failed"
    BY <1>4 DEF Said, WaitLabels, Waiting, Waits
  <2> QED
    BY <1>0, <1>a, <2>2, <2>4, <2>5, SemaphoreReturns
<1>5. CASE /\ pc[t] = "add" /\ count' = count + left[t] /\ count < 0
           /\ left' = [left EXCEPT ![t] = Smaller(@, -count)]
           /\ Goto(t, "release") /\ UNCHANGED <<fold, ret>>
           /\ UNCHANGED <<kind, cancel, os, mutex>>
  <2> DEFINE n == Smaller(left[t], -count)
  <2>1. fold[t] = 0 /\ left[t] >= 1 /\ left[t] \in 1 .. MaxPost
    BY <1>0, <1>5 DEF FoldLabels, PostLabels
  <2>2. n \in 1 .. MaxPost /\ Clamped(count + left[t]) + n = Clamped(count) + left[t]
    BY <1>0, <1>5, <2>1 DEF Smaller, Clamped
  <2>3. Steps(t, "release", n, fold[t], ret[t])
    BY <1>0, <1>5 DEF SemaphoreTypes, Goto, Steps
  <2> HIDE DEF n
  <2>4. Balanced(t, "release", n, fold[t], count + left[t], cancel, os, left[t])
    <3>1. Queued("release") = 0 /\ Queued(pc[t]) = 0 /\ Released("release", n) = n /\ Released(pc[t], left[t]) = 0
      BY <1>5 DEF Queued, Released
    <3>2. Clamped(count + left[t]) \in Int
      BY <1>0 DEF Clamped
    <3> QED
      BY <1>0, <1>a, <2>1, <2>2, <3>1, <3>2 DEF Balanced
  <2>5. "release" \in FastLabels /\ n \in 0 .. MaxPost /\ n >= 1 /\ count + left[t] \in Int /\ left[t] \in Int
    BY <1>0, <2>1, <2>2 DEF FastLabels
  <2>6. SemaphoreInv' /\ Value' = Value + left[t]
    BY <1>0, <1>5, <2>1, <2>3, <2>4, <2>5, FastMoves
  <2>7. Said(pc[t], ret[t]) = "post" /\ Said("release", ret[t]) = "post"
    BY <1>5 DEF Said, WaitLabels, Waiting, Waits
  <2> QED
    BY <1>0, <2>1, <2>3, <2>6, <2>7, SemaphorePuts
<1>6. CASE /\ pc[t] = "add" /\ count' = count + left[t] /\ ~(count < 0) /\ Return(t, "ok")
           /\ UNCHANGED <<kind, cancel, os, mutex>>
  <2>1. fold[t] = 0 /\ left[t] \in 1 .. MaxPost
    BY <1>0, <1>6 DEF FoldLabels, PostLabels
  <2>2. Steps(t, "idle", 0, fold[t], "ok")
    BY <1>0, <1>6, ReturnSteps
  <2>3. Clamped(count + left[t]) = count + left[t] /\ Clamped(count) = count
    BY <1>0, <1>6, <2>1 DEF Clamped
  <2>4. Balanced(t, "idle", 0, fold[t], count + left[t], cancel, os, left[t])
    <3>1. Queued("idle") = 0 /\ Queued(pc[t]) = 0 /\ Released("idle", 0) = 0 /\ Released(pc[t], left[t]) = 0
      BY <1>6 DEF Queued, Released
    <3> QED
      BY <1>0, <1>a, <2>1, <2>3, <3>1 DEF Balanced
  <2>5. count + left[t] \in Int /\ left[t] \in Int
    BY <1>0
  <2>6. SemaphoreInv' /\ Value' = Value + left[t]
    BY <1>0, <1>6, <1>a, <2>1, <2>2, <2>4, <2>5, FastMoves
  <2>7. Said(pc[t], ret[t]) = "post" /\ Said("idle", "ok") = "ok"
    BY <1>6 DEF Said, WaitLabels, Waiting, Waits
  <2> QED
    BY <1>0, <2>1, <2>2, <2>6, <2>7, SemaphorePuts
<1>7. CASE pc[t] = "release" /\ os' = os + left[t] /\ Return(t, "ok") /\ UNCHANGED <<kind, count, cancel, mutex>>
  <2>1. Steps(t, "idle", 0, fold[t], "ok") /\ fold[t] = 0
    BY <1>0, <1>7, ReturnSteps DEF FoldLabels
  <2>2. Balanced(t, "idle", 0, fold[t], count, cancel, os + left[t], 0)
    <3>1. Queued("idle") = 0 /\ Queued(pc[t]) = 0 /\ Released("idle", 0) = 0 /\ Released(pc[t], left[t]) = left[t]
      BY <1>7 DEF Queued, Released
    <3> QED
      BY <1>0, <1>a, <3>1 DEF Balanced
  <2>3. os + left[t] \in Nat
    BY <1>0
  <2>4. SemaphoreInv' /\ Value' = Value + 0
    BY <1>0, <1>7, <1>a, <2>1, <2>2, <2>3, FastMoves
  <2>5. Said(pc[t], ret[t]) = "post" /\ Said("idle", "ok") = "ok"
    BY <1>7 DEF Said, WaitLabels, Waiting, Waits
  <2> QED
    BY <1>0, <1>a, <2>1, <2>4, <2>5, SemaphoreReturns
<1>8. CASE pc[t] = "post" /\ To(t, IF cancel > 0 THEN "exchange" ELSE "check") /\ UNCHANGED counts
  BY <1>1, <1>8
<1>9. CASE pc[t] = "exchange" /\ To(t, "check") /\ UNCHANGED counts
  BY <1>1, <1>9
<1>10. CASE pc[t] = "check" /\ To(t, "add") /\ UNCHANGED counts
  BY <1>1, <1>10
<1>11. CASE UpdateCancelCount(t, "refold", "refoldRest")
  BY <1>11, FastUpdates
<1>12. CASE /\ pc[t] = "exchange"
            /\ IF count < 0
                 THEN /\ fold' = [fold EXCEPT ![t] = cancel] /\ cancel' = 0
                      /\ Goto(t, "refold") /\ UNCHANGED <<kind, count, os, mutex, left, ret>>
                 ELSE To(t, "check") /\ UNCHANGED counts
  BY <1>2, <1>9, <1>12
<1>13. CASE /\ pc[t] = "check"
            /\ IF MaxCount - left[t] < count THEN Return(t, "failed") ELSE To(t, "add")
            /\ UNCHANGED counts
  BY <1>4, <1>10, <1>13
<1>14. CASE /\ pc[t] = "add"
            /\ count' = count + left[t]
            /\ IF count < 0
                 THEN /\ left' = [left EXCEPT ![t] = Smaller(@, -count)]
                      /\ Goto(t, "release") /\ UNCHANGED <<fold, ret>>
                 ELSE Return(t, "ok")
            /\ UNCHANGED <<kind, cancel, os, mutex>>
  BY <1>5, <1>6, <1>14
<1> QED
  BY <1>3, <1>7, <1>8, <1>11, <1>12, <1>13, <1>14 DEF PCFastPost
-----------------------------------------------------------------------------
(* Steps of the synthesized version, and of the one without threads.       *)

PlainKinds == {"synthesizedSemaphore", "unthreadedSemaphore"}
PlainLabels ==
    Waits \cup {"idle", "post"} \cup
        (IF kind = "synthesizedSemaphore" THEN {"cvWait", "cvTimed", "relock", "retime", "expired"} ELSE {})

\* What the steps below start from.
LEMMA PlainFacts ==
    ASSUME SemaphoreInv, kind \in PlainKinds, NEW t \in Threads
    PROVE  /\ SemaphoreTypes /\ MaxCount \in Nat /\ MaxPost \in Nat /\ PlainInv
           /\ pc[t] \in PlainLabels /\ count \in 0 .. MaxCount /\ os = 0 /\ left[t] \in 0 .. MaxPost /\ fold[t] = 0
           /\ ret[t] \in {"none", "ok", "failed"} /\ (pc[t] = "post" => left[t] >= 1)
           /\ mutex \in Threads \cup {None}
<1>1. SemaphoreTypes /\ PlainInv /\ MaxCount \in Nat /\ MaxPost \in Nat
  BY SemaphoresAssumption DEF SemaphoreInv, PlainKinds
<1>2. pc[t] \in PlainLabels
  BY <1>1 DEF PlainInv, PlainLabels
<1>3. pc[t] \notin FoldLabels
  BY <1>2 DEF PlainLabels, FoldLabels, Waits
<1>4. pc[t] = "post" => pc[t] \in PostLabels
  BY DEF PostLabels
<1>5. left[t] \in 0 .. MaxPost /\ fold[t] = 0 /\ ret[t] \in {"none", "ok", "failed"}
      /\ (pc[t] = "post" => left[t] >= 1) /\ mutex \in Threads \cup {None}
  BY <1>1, <1>3, <1>4 DEF SemaphoreTypes
<1> QED
  BY <1>1, <1>2, <1>5 DEF PlainInv

LEMMA PlainSteps ==
    ASSUME SemaphoreInv, kind \in PlainKinds, kind \in SemaphoreKinds, NEW t \in Threads, NEW l \in PlainLabels,
           NEW n \in 0 .. MaxPost, NEW r \in {"none", "ok", "failed"}, Steps(t, l, n, fold[t], r),
           l = "post" => n >= 1, kind \in UntimedKinds => l # "timed",
           count' \in 0 .. MaxCount, cancel' = cancel, os' = os, mutex' \in Threads \cup {None}
    PROVE  SemaphoreInv' /\ Value = count /\ Value' = count'
<1>0. /\ SemaphoreTypes /\ MaxCount \in Nat /\ PlainInv /\ os = 0 /\ fold[t] = 0 /\ fold[t] \in Nat
      /\ kind' = kind
  BY PlainFacts DEF Steps
<1>1. l \in SemaphoreLabels /\ (l \in PostLabels => l = "post")
  BY DEF PlainLabels, SemaphoreLabels, Waiting, Waits, PostLabels
<1>2. SemaphoreTypes'
  <2>1. count' \in Int /\ cancel' \in Nat /\ os' \in Nat
    BY <1>0 DEF SemaphoreTypes
  <2> QED
    BY <1>0, <1>1, <2>1, StepsKeepTypes
<1>3. \A u \in Threads : pc'[u] = IF u = t THEN l ELSE pc[u]
  BY <1>0 DEF SemaphoreTypes, Steps
<1>4. PlainInv'
  <2>1. \A u \in Threads : pc[u] \in PlainLabels
    BY <1>0 DEF PlainInv, PlainLabels
  <2>2. PlainLabels' = PlainLabels
    BY <1>0 DEF PlainLabels
  <2>3. \A u \in Threads : pc'[u] \in PlainLabels'
    BY <1>3, <2>1, <2>2
  <2>4. kind = "unthreadedSemaphore" /\ kind \in UntimedKinds => \A u \in Threads : pc'[u] # "timed"
    BY <1>0, <1>3 DEF PlainInv
  <2> QED
    BY <1>0, <2>3, <2>4 DEF PlainInv, PlainLabels
<1>5. SemaphoreInv'
  BY <1>0, <1>2, <1>4 DEF SemaphoreInv, PlainKinds
<1> QED
  BY <1>0, <1>5, Values DEF PlainKinds

\* A thread takes a unit, goes away without one, or changes its way of waiting.
LEMMA PlainTakes ==
    ASSUME SemaphoreInv, kind \in PlainKinds, kind \in SemaphoreKinds, NEW t \in Threads, pc[t] \in WaitLabels,
           count > 0, count' = count - 1, Return(t, "ok"), UNCHANGED <<kind, cancel, os, mutex>>
    PROVE  SemaphoreInv' /\ SemaphorePromiseStep
<1>0. SemaphoreTypes /\ MaxCount \in Nat /\ MaxPost \in Nat /\ count \in 0 .. MaxCount /\ mutex \in Threads \cup {None}
  BY PlainFacts
<1>1. Steps(t, "idle", 0, fold[t], "ok")
  BY <1>0, ReturnSteps
<1>2. "idle" \in PlainLabels /\ 0 \in 0 .. MaxPost /\ count' \in 0 .. MaxCount
  BY <1>0 DEF PlainLabels
<1>3. SemaphoreInv' /\ Value = count /\ Value' = count'
  BY <1>0, <1>1, <1>2, PlainSteps
<1>4. Said(pc[t], ret[t]) = "wait" /\ Said("idle", "ok") = "ok"
  BY DEF Said, WaitLabels, Waiting, Waits
<1> QED
  BY <1>0, <1>1, <1>3, <1>4, SemaphoreTakes

LEMMA PlainFails ==
    ASSUME SemaphoreInv, kind \in PlainKinds, kind \in SemaphoreKinds, NEW t \in Threads, pc[t] \in WaitLabels \cup {"post"},
           Return(t, "failed"), mutex' \in Threads \cup {None}, UNCHANGED <<kind, count, cancel, os>>
    PROVE  SemaphoreInv' /\ SemaphorePromiseStep
<1>0. SemaphoreTypes /\ MaxCount \in Nat /\ MaxPost \in Nat /\ count \in 0 .. MaxCount
  BY PlainFacts
<1>1. Steps(t, "idle", 0, fold[t], "failed")
  BY <1>0, ReturnSteps
<1>2. "idle" \in PlainLabels /\ 0 \in 0 .. MaxPost
  BY <1>0 DEF PlainLabels
<1>3. SemaphoreInv' /\ Value' = Value
  BY <1>0, <1>1, <1>2, PlainSteps
<1>4. Said(pc[t], ret[t]) \in {"wait", "post"} /\ Said("idle", "failed") = "failed"
  BY DEF Said, WaitLabels, Waiting, Waits
<1> QED
  BY <1>0, <1>1, <1>3, <1>4, SemaphoreGivesUp, SemaphoreReturns

LEMMA PlainWaits ==
    ASSUME SemaphoreInv, kind = "synthesizedSemaphore", kind \in SemaphoreKinds, NEW t \in Threads, pc[t] \in WaitLabels,
           NEW l \in {"cvWait", "cvTimed", "relock", "retime", "expired"}, To(t, l), UNCHANGED counts
    PROVE  SemaphoreInv' /\ SemaphorePromiseStep
<1>0. /\ kind \in PlainKinds /\ kind' = kind /\ count' = count /\ cancel' = cancel /\ os' = os /\ mutex' = mutex
  BY DEF PlainKinds, counts
<1>1. /\ SemaphoreTypes /\ MaxCount \in Nat /\ MaxPost \in Nat /\ count \in 0 .. MaxCount /\ mutex \in Threads \cup {None}
      /\ left[t] \in 0 .. MaxPost /\ ret[t] \in {"none", "ok", "failed"}
  BY <1>0, PlainFacts
<1>2. Steps(t, l, left[t], fold[t], ret[t])
  BY <1>0, <1>1, ToSteps
<1>3. l \in PlainLabels /\ l # "post" /\ l # "timed"
  BY DEF PlainLabels
<1>4. SemaphoreInv' /\ Value' = Value
  BY <1>0, <1>1, <1>2, <1>3, PlainSteps
<1>5. Said(pc[t], ret[t]) = Said(l, ret[t])
  BY DEF Said, WaitLabels, Waiting, Waits
<1> QED
  BY <1>1, <1>2, <1>4, <1>5, SemaphoreStays

\* Post adds units; who waits for the condition goes on, and waits.
LEMMA PlainPuts ==
    ASSUME SemaphoreInv, kind \in PlainKinds, kind \in SemaphoreKinds, NEW t \in Threads, pc[t] = "post",
           ~(MaxCount - left[t] < count), count' = count + left[t], UNCHANGED <<kind, cancel, os, mutex, fold>>,
           ret' = [ret EXCEPT ![t] = "ok"], left' = [left EXCEPT ![t] = 0],
           pc' = [pc EXCEPT ![t] = "idle"] \/ (kind = "synthesizedSemaphore" /\ pc' = Signalled(t))
    PROVE  SemaphoreInv' /\ SemaphorePromiseStep
<1>0. /\ SemaphoreTypes /\ MaxCount \in Nat /\ MaxPost \in Nat /\ PlainInv /\ count \in 0 .. MaxCount
      /\ left[t] \in 0 .. MaxPost /\ left[t] >= 1
  BY PlainFacts
<1>1. count' \in 0 .. MaxCount /\ left[t] \in 1 .. MaxPost
  BY <1>0
<1>2. pc \in [Threads -> SemaphoreLabels] /\ left \in [Threads -> 0 .. MaxPost] /\ fold \in [Threads -> Nat]
      /\ ret \in [Threads -> {"none", "ok", "failed"}]
  BY <1>0 DEF SemaphoreTypes
<1>3. /\ pc' \in [Threads -> SemaphoreLabels]
      /\ \A u \in Threads : \/ u = t /\ pc'[u] = "idle"
                            \/ u # t /\ pc'[u] = pc[u]
                            \/ u # t /\ pc[u] \in {"cvWait", "cvTimed"} /\ pc'[u] \in {"relock", "retime"}
                               /\ kind = "synthesizedSemaphore"
  <2>1. CASE pc' = [pc EXCEPT ![t] = "idle"]
    BY <1>2, <2>1 DEF SemaphoreLabels, Waiting
  <2>2. CASE kind = "synthesizedSemaphore" /\ pc' = Signalled(t)
    <3>1. \A u \in Threads : pc'[u] = CASE u = t -> "idle"
                                        [] pc[u] = "cvWait" -> "relock"
                                        [] pc[u] = "cvTimed" -> "retime"
                                        [] OTHER -> pc[u]
      BY <2>2 DEF Signalled
    <3>2. \A u \in Threads : pc'[u] = IF u = t THEN "idle" ELSE IF pc[u] = "cvWait" THEN "relock"
                                      ELSE IF pc[u] = "cvTimed" THEN "retime" ELSE pc[u]
      BY <1>0, <3>1
    <3>3. {"idle", "relock", "retime"} \subseteq SemaphoreLabels
      BY DEF SemaphoreLabels, Waiting
    <3>4. \A u \in Threads : pc'[u] \in SemaphoreLabels
      BY <1>2, <3>2, <3>3
    <3>5. pc' \in [Threads -> SemaphoreLabels]
      BY <2>2, <3>4 DEF Signalled
    <3> QED
      BY <2>2, <3>2, <3>5
  <2> QED
    BY <2>1, <2>2
<1>4. \A u \in Threads : /\ left'[u] = (IF u = t THEN 0 ELSE left[u]) /\ fold'[u] = fold[u]
                         /\ ret'[u] = IF u = t THEN "ok" ELSE ret[u]
  BY <1>2
<1>5. SemaphoreTypes'
  <2>1. left' \in [Threads -> 0 .. MaxPost] /\ fold' \in [Threads -> Nat] /\ ret' \in [Threads -> {"none", "ok", "failed"}]
    BY <1>0, <1>2
  <2>2. \A u \in Threads : pc'[u] \in PostLabels => left'[u] >= 1
    <3> TAKE u \in Threads
    <3> SUFFICES ASSUME pc'[u] \in PostLabels PROVE left'[u] >= 1
      OBVIOUS
    <3>1. u # t /\ pc'[u] = pc[u]
      BY <1>3 DEF PostLabels
    <3> QED
      BY <1>0, <1>4, <3>1 DEF SemaphoreTypes
  <2>3. \A u \in Threads : fold'[u] = 0
    <3> TAKE u \in Threads
    <3>1. fold[u] = 0
      BY <1>0, PlainFacts
    <3> QED
      BY <1>4, <3>1
  <2>4. mutex' \in Threads \cup {None} /\ count' \in Int /\ cancel' \in Nat /\ os' \in Nat
    BY <1>0, <1>1 DEF SemaphoreTypes
  <2> QED
    BY <1>3, <2>1, <2>2, <2>3, <2>4 DEF SemaphoreTypes
<1>6. PlainInv'
  <2>1. \A u \in Threads : pc[u] \in PlainLabels
    BY <1>0 DEF PlainInv, PlainLabels
  <2>2. PlainLabels' = PlainLabels
    BY DEF PlainLabels
  <2>3. \A u \in Threads : pc'[u] \in PlainLabels'
    <3> TAKE u \in Threads
    <3>1. "idle" \in PlainLabels /\ (kind = "synthesizedSemaphore" => {"relock", "retime"} \subseteq PlainLabels)
      BY DEF PlainLabels
    <3> QED
      BY <1>3, <2>1, <2>2, <3>1
  <2>4. kind = "unthreadedSemaphore" /\ kind \in UntimedKinds => \A u \in Threads : pc'[u] # "timed"
    BY <1>0, <1>3 DEF PlainInv
  <2> QED
    BY <1>0, <1>1, <2>3, <2>4 DEF PlainInv, PlainLabels
<1>7. SemaphoreInv'
  BY <1>5, <1>6 DEF SemaphoreInv, PlainKinds
<1>8. Value' = Value + left[t]
  BY Values DEF PlainKinds
<1>9. Calls' = [Calls EXCEPT ![t] = "ok"] /\ Calls[t] = "post"
  <2>1. \A u \in Threads : Said(pc'[u], ret'[u]) = IF u = t THEN "ok" ELSE Said(pc[u], ret[u])
    <3> TAKE u \in Threads
    <3>1. CASE u = t
      BY <1>3, <1>4, <3>1 DEF Said, WaitLabels, Waiting, Waits
    <3>2. CASE u # t /\ pc'[u] = pc[u]
      BY <1>4, <3>2
    <3>3. CASE u # t /\ pc[u] \in {"cvWait", "cvTimed"} /\ pc'[u] \in {"relock", "retime"}
      BY <3>3 DEF Said, WaitLabels, Waiting, Waits
    <3> QED
      BY <1>3, <3>1, <3>2, <3>3
  <2>2. \A u \in Threads : CallOf(u)' = IF u = t THEN "ok" ELSE CallOf(u)
    BY <2>1, SaidByAll
  <2>3. Said(pc[t], ret[t]) = "post"
    BY DEF Said, WaitLabels, Waiting, Waits
  <2>4. Calls[t] = "post"
    BY <2>3, SaidByAll DEF Calls
  <2> QED
    BY <2>2, <2>4 DEF Calls
<1>10. SemaphorePromise!Put(t)
  BY <1>1, <1>8, <1>9 DEF SemaphorePromise!Put, SemaphorePromise!Move, Calls
<1> QED
  BY <1>7, <1>10 DEF SemaphorePromiseStep, SemaphorePromise!Next

LEMMA PlainSemaphoreSteps ==
    ASSUME SemaphoreInv, kind \in PlainKinds, kind \in SemaphoreKinds, NEW t \in Threads, SemaphoreStep(t)
    PROVE  SemaphoreInv' /\ ("unthreadedSemaphore" \in UntimedKinds => SemaphorePromiseStep)
<1>0. /\ SemaphoreTypes /\ MaxCount \in Nat /\ MaxPost \in Nat /\ PlainInv /\ count \in 0 .. MaxCount
      /\ left[t] \in 0 .. MaxPost /\ mutex \in Threads \cup {None} /\ pc[t] \in PlainLabels
  BY PlainFacts
<1>a. Waits \cup {"cvWait", "cvTimed", "relock", "retime", "expired"} \subseteq WaitLabels
  BY DEF WaitLabels, Waiting
<1>1. CASE kind = "synthesizedSemaphore" /\ SynthesizedWait(t)
  <2>1. ASSUME pc[t] \in Waits, count >= 1, count' = count - 1, Return(t, "ok"), UNCHANGED <<kind, cancel, os, mutex>>
        PROVE  SemaphoreInv' /\ SemaphorePromiseStep
    BY <1>0, <1>a, <2>1, PlainTakes
  <2>2. ASSUME pc[t] \in Waits, UNCHANGED count, Return(t, "failed"), UNCHANGED <<kind, cancel, os, mutex>>
        PROVE  SemaphoreInv' /\ SemaphorePromiseStep
    BY <1>0, <1>a, <2>2, PlainFails
  <2>3. ASSUME pc[t] \in Waits, NEW l \in {"cvWait", "cvTimed"}, UNCHANGED count, To(t, l), UNCHANGED <<kind, cancel, os, mutex>>
        PROVE  SemaphoreInv' /\ SemaphorePromiseStep
    BY <1>1, <1>a, <2>3, PlainWaits DEF counts
  <2>4. ASSUME pc[t] \in {"cvWait", "cvTimed"}, NEW l \in {"relock", "retime", "expired"}, To(t, l), UNCHANGED counts
        PROVE  SemaphoreInv' /\ SemaphorePromiseStep
    BY <1>1, <1>a, <2>4, PlainWaits
  <2>5. ASSUME pc[t] \in {"relock", "retime"}, NEW l \in {"cvWait", "cvTimed"}, To(t, l), UNCHANGED count,
               UNCHANGED <<kind, cancel, os, mutex>>
        PROVE  SemaphoreInv' /\ SemaphorePromiseStep
    BY <1>1, <1>a, <2>5, PlainWaits DEF counts
  <2>6. ASSUME pc[t] \in {"relock", "retime"}, ~(count < 1), count' = count - 1, Return(t, "ok"),
               UNCHANGED <<kind, cancel, os, mutex>>
        PROVE  SemaphoreInv' /\ SemaphorePromiseStep
    BY <1>0, <1>a, <2>6, PlainTakes
  <2>7. ASSUME pc[t] = "expired", Return(t, "failed"), UNCHANGED counts
        PROVE  SemaphoreInv' /\ SemaphorePromiseStep
    BY <1>0, <1>a, <2>7, PlainFails DEF counts
  <2>8. CASE /\ pc[t] \in Waits
             /\ IF count >= 1
                  THEN count' = count - 1 /\ Return(t, "ok")
                  ELSE /\ UNCHANGED count
                       /\ CASE pc[t] = "try" -> Return(t, "failed")
                            [] pc[t] = "wait" -> To(t, "cvWait")
                            [] OTHER -> To(t, "cvTimed")
             /\ UNCHANGED <<kind, cancel, os, mutex>>
    BY <2>1, <2>2, <2>3, <2>8
  <2>9. CASE pc[t] = "cvWait" /\ To(t, "relock") /\ UNCHANGED counts
    BY <2>4, <2>9
  <2>10. CASE pc[t] = "cvTimed" /\ \E how \in {"retime", "expired"} : To(t, how) /\ UNCHANGED counts
    BY <2>4, <2>10
  <2>11. CASE /\ pc[t] \in {"relock", "retime"}
              /\ IF count < 1
                   THEN UNCHANGED count /\ To(t, IF pc[t] = "relock" THEN "cvWait" ELSE "cvTimed")
                   ELSE count' = count - 1 /\ Return(t, "ok")
              /\ UNCHANGED <<kind, cancel, os, mutex>>
    BY <2>5, <2>6, <2>11
  <2> QED
    BY <1>1, <2>7, <2>8, <2>9, <2>10, <2>11 DEF SynthesizedWait
<1>2. CASE kind = "synthesizedSemaphore" /\ SynthesizedPost(t)
  <2>1. CASE mutex' = t /\ Return(t, "failed") /\ UNCHANGED <<kind, count, cancel, os>>
    BY <1>2, <2>1, PlainFails DEF SynthesizedPost
  <2>2. CASE /\ ~(MaxCount - left[t] < count) /\ count' = count + left[t] /\ pc' = Signalled(t)
             /\ ret' = [ret EXCEPT ![t] = "ok"] /\ left' = [left EXCEPT ![t] = 0]
             /\ UNCHANGED <<kind, cancel, os, mutex, fold>>
    BY <1>2, <2>2, PlainPuts DEF SynthesizedPost
  <2> QED
    BY <1>2, <2>1, <2>2 DEF SynthesizedPost
<1>3. CASE kind = "unthreadedSemaphore" /\ UnthreadedWait(t)
  <2>1. "unthreadedSemaphore" \in UntimedKinds => pc[t] # "timed"
    BY <1>0, <1>3 DEF PlainInv
  <2>2. CASE pc[t] \in {"wait", "try"} /\ count > 0 /\ count' = count - 1 /\ Return(t, "ok") /\ UNCHANGED <<kind, cancel, os, mutex>>
    BY <1>a, <2>2, PlainTakes DEF Waits
  <2>3. CASE pc[t] \in {"timed", "try"} /\ Return(t, "failed") /\ UNCHANGED counts
    BY <1>0, <1>a, <2>3, PlainFails DEF Waits, counts
  \* A wait with a timeout succeeds and takes nothing.
  <2>4. ASSUME pc[t] = "timed", Return(t, "ok"), UNCHANGED counts PROVE SemaphoreInv'
    <3>1. kind' = kind /\ count' = count /\ cancel' = cancel /\ os' = os /\ mutex' = mutex
      BY <2>4 DEF counts
    <3>2. Steps(t, "idle", 0, fold[t], "ok")
      BY <1>0, <2>4, <3>1, ReturnSteps
    <3>3. "idle" \in PlainLabels /\ 0 \in 0 .. MaxPost
      BY <1>0 DEF PlainLabels
    <3> QED
      BY <1>0, <3>1, <3>2, <3>3, PlainSteps
  <2> QED
    BY <1>3, <2>1, <2>2, <2>3, <2>4 DEF UnthreadedWait
<1>4. CASE kind = "unthreadedSemaphore" /\ UnthreadedPost(t)
  <2>1. CASE Return(t, "failed") /\ UNCHANGED counts
    BY <1>0, <1>4, <2>1, PlainFails DEF UnthreadedPost, counts
  <2>2. CASE /\ ~(MaxCount - left[t] < count) /\ count' = count + left[t] /\ Return(t, "ok")
             /\ UNCHANGED <<kind, cancel, os, mutex>>
    BY <1>4, <2>2, PlainPuts DEF UnthreadedPost, Return, Goto
  <2> QED
    BY <1>4, <2>1, <2>2 DEF UnthreadedPost
<1> QED
  BY <1>1, <1>2, <1>3, <1>4 DEF SemaphoreStep, PlainKinds

-----------------------------------------------------------------------------
LEMMA SemaphoreKeepsKind ==
    ASSUME NEW t, CallWait(t) \/ CallPost(t) \/ SemaphoreStep(t)
    PROVE  kind' = kind
<1>1. CASE CallWait(t) \/ CallPost(t)
  BY <1>1 DEF CallWait, CallPost, counts
<1>2. TakeToken(t, Waits, "taken") \/ TimeOut(t) \/ CountDown(t) => kind' = kind
  BY DEF TakeToken, TimeOut, CountDown, counts
<1>3. CheckMax(t, "up") => kind' = kind
  BY DEF CheckMax, counts
<1>4. ASSUME NEW l, NEW n, CountUp(t, l, n) \/ Undo(t, n) PROVE kind' = kind
  BY <1>4 DEF CountUp, Undo
<1>5. ASSUME NEW n, NEW max, Signal(t, n, max) PROVE kind' = kind
  BY <1>5 DEF Signal, counts
<1>6. ASSUME NEW l, NEW m, UpdateCancelCount(t, l, m) PROVE kind' = kind
  BY <1>6 DEF UpdateCancelCount
<1>7. PCFastWait(t) => kind' = kind
  BY <1>6 DEF PCFastWait, AddCancel, counts
<1>8. PCFastPost(t) => kind' = kind
  BY <1>6 DEF PCFastPost, AddCancel, counts
<1>9. SynthesizedWait(t) \/ SynthesizedPost(t) => kind' = kind
  BY DEF SynthesizedWait, SynthesizedPost, counts
<1>10. UnthreadedWait(t) \/ UnthreadedPost(t) => kind' = kind
  BY DEF UnthreadedWait, UnthreadedPost, counts
<1>11. PostOnes(t) \/ KettleSemaphorePost(t) \/ PCSharedPost(t) => kind' = kind
  BY <1>3, <1>4, <1>5 DEF PostOnes, KettleSemaphorePost, PCSharedPost
<1>12. pc[t] = "wait" /\ Return(t, "failed") /\ UNCHANGED counts => kind' = kind
  BY DEF counts
<1>13. CASE SemaphoreStep(t)
  BY <1>2, <1>7, <1>8, <1>9, <1>10, <1>11, <1>12, <1>13
     DEF SemaphoreStep, UnixSemaphoreWait, UnixSemaphorePost, AndroidWait, AndroidPost, AppleWait, ApplePost,
         KettleSemaphoreWait, PCSharedWait
<1> QED
  BY <1>1, <1>13

LEMMA SemaphoreSteps ==
    ASSUME SemaphoreInv, kind \in SemaphoreKinds, SemaphoreNext
    PROVE  SemaphoreInv' /\ ("unthreadedSemaphore" \in UntimedKinds => SemaphorePromiseStep)
<1>1. Users \subseteq Threads
  <2>1. CASE kind = "unthreadedSemaphore"
    <3>1. (CHOOSE t \in Waiters \cap Posters : TRUE) \in Waiters \cap Posters
      BY <2>1, SemaphoresAssumption
    <3> QED
      BY <2>1, <3>1 DEF Users, Threads
  <2> QED
    BY <2>1 DEF Users
<1>2. PICK t \in Threads : CallWait(t) \/ CallPost(t) \/ SemaphoreStep(t)
  BY <1>1 DEF SemaphoreNext
<1>3. kind \in SystemKinds \cup {"pcFastSemaphore"} \cup PlainKinds
  BY KindsAssumption DEF SystemKinds, PlainKinds
<1>4. CASE CallWait(t) \/ CallPost(t)
  BY <1>4, SemaphoreCalled
<1>5. CASE SemaphoreStep(t) /\ kind \in SystemKinds
  BY <1>5, SystemSemaphoreSteps
<1>6. CASE SemaphoreStep(t) /\ kind = "pcFastSemaphore"
  BY <1>6, FastWaits, FastPosts DEF SemaphoreStep
<1>7. CASE SemaphoreStep(t) /\ kind \in PlainKinds
  BY <1>7, PlainSemaphoreSteps
<1> QED
  BY <1>2, <1>3, <1>4, <1>5, <1>6, <1>7

LEMMA NoUnits ==
    ASSUME NEW f, NEW A, \A u \in A : f[u] = 0
    PROVE  Cardinality(Units(f, A)) = 0
<1>1. \A u \in A : {u} \X (1 .. f[u]) = {}
  <2> TAKE u \in A
  <2>1. 1 .. f[u] = {}
    <3>1. f[u] = 0
      OBVIOUS
    <3>2. 1 .. 0 = {}
      OBVIOUS
    <3> QED
      BY <3>1, <3>2
  <2> QED
    BY <2>1
<1>2. Units(f, A) = {}
  BY <1>1 DEF Units
<1> QED
  BY <1>2, FS_EmptySet

LEMMA SemaphoresAreExact ==
    ASSUME kind \in SemaphoreKinds => SemaphoreInv, kind \notin SemaphoreKinds => SemaphoreFresh,
           kind \in SemaphoreKinds \cup ConditionKinds \cup BarrierKinds
    PROVE  SemaphoreIsExact
<1>0. MaxCount \in Nat /\ MaxPost \in Nat /\ OSMax \in Nat /\ MaxCount < OSMax
  BY SemaphoresAssumption
<1>1. CASE kind \notin SemaphoreKinds
  <2>1. count = 0
    BY <1>1 DEF SemaphoreFresh
  <2>2. kind \in {"portableCondition", "unixCondition", "kettleCondition",
                  "portableBarrier", "unixBarrier", "kettleBarrier"}
    BY <1>1, KindsAssumption
  <2>3. SemaphoreCountIsExact /\ MaxIsRespected
    BY <1>1, <2>1, <2>2 DEF SemaphoreCountIsExact, MaxIsRespected
  <2> QED
    BY <1>1, <2>3 DEF SemaphoreIsExact, SemaphoreTypeOK
<1>2. CASE kind \in SemaphoreKinds
  <2>0. SemaphoreInv /\ SemaphoreTypes
    BY <1>2 DEF SemaphoreInv
  <2>1. kind \in OnesKinds \cup BatchKinds \cup {"pcFastSemaphore"} \cup PlainKinds
    BY <1>2, KindsAssumption DEF OnesKinds, BatchKinds, PlainKinds
  <2>2. /\ kind \in OnesKinds => OnesInv
        /\ kind \in BatchKinds => BatchInv
        /\ kind = "pcFastSemaphore" => FastInv
        /\ kind \in PlainKinds => PlainInv
    BY <2>0 DEF SemaphoreInv, OnesKinds, BatchKinds, PlainKinds
  <2>3. SemaphoreTypeOK
    <3>1. kind # "pcFastSemaphore" => os <= OSMax
      BY <1>0, <2>0, <2>1, <2>2 DEF OnesInv, BatchInv, PlainInv, SemaphoreTypes
    <3>2. left \in [Threads -> Nat]
      BY <1>0, <2>0 DEF SemaphoreTypes
    <3> QED
      BY <2>0, <3>1, <3>2 DEF SemaphoreTypeOK, SyncTypeOK, SemaphoreTypes
  <2>4. /\ kind \in SystemKinds => Value = os
        /\ kind = "pcFastSemaphore" => Value = Clamped(count) + os + Left({"release"})
        /\ kind \in PlainKinds => Value = count
    BY DEF Value, SystemKinds, PlainKinds
  <2>5. ASSUME At({"idle"}) = Threads PROVE GetCount = Value
    <3>1. ASSUME NEW L, "idle" \notin L PROVE Cardinality(At(L)) = 0 /\ Left(L) = 0
      <4>1. At(L) = {}
        BY <2>5, <3>1 DEF At
      <4>2. Cardinality(Units(left, At(L))) = 0
        BY <4>1, NoUnits
      <4> QED
        BY <4>1, <4>2, FS_EmptySet DEF Left
    <3>2. Cardinality(At({"taken", "signal", "undo"})) = 0 /\ Cardinality(At({"taken"})) = 0
          /\ Left({"signal", "undo"}) = 0 /\ Cardinality(At({"osWait", "osTimed"})) = 0 /\ Left({"release"}) = 0
      BY <3>1
    <3>3. Fold = 0
      <4>1. \A u \in Threads : fold[u] = 0
        BY <2>0, <2>5 DEF SemaphoreTypes, FoldLabels, At
      <4> QED
        BY <4>1, NoUnits DEF Fold
    <3>4. count \in Int /\ os \in Nat /\ cancel \in Nat
      BY <2>0 DEF SemaphoreTypes
    <3>5. CASE kind \in OnesKinds
      BY <2>2, <2>4, <3>2, <3>4, <3>5 DEF OnesInv, GetCount, OnesKinds, SystemKinds
    <3>6. CASE kind \in BatchKinds
      BY <2>2, <2>4, <3>2, <3>4, <3>6 DEF BatchInv, GetCount, BatchKinds, SystemKinds
    <3>7. CASE kind = "pcFastSemaphore"
      BY <2>2, <2>4, <3>2, <3>3, <3>4, <3>7 DEF FastInv, GetCount, Clamped
    <3>8. CASE kind \in PlainKinds
      BY <2>4, <3>8 DEF GetCount, PlainKinds
    <3> QED
      BY <2>1, <3>5, <3>6, <3>7, <3>8
  <2>6. SemaphoreCountIsExact
    <3>1. CASE kind \in OnesKinds
      BY <2>2, <2>5, <3>1 DEF SemaphoreCountIsExact, OnesInv, OnesKinds
    <3>2. CASE kind = "kettleSemaphore"
      <4>1. {"signal", "undo"} \cup {} = {"signal", "undo"}
        OBVIOUS
      <4>2. count = os + Cardinality(At({"taken"})) + Left({"signal", "undo"} \cup
                         (IF kind = "pcSharedSemaphore" THEN {"up"} ELSE {}))
        BY <2>2, <3>2, <4>1 DEF BatchInv, BatchKinds
      <4> QED
        BY <2>5, <3>2, <4>2 DEF SemaphoreCountIsExact
    <3>3. CASE kind = "pcSharedSemaphore"
      <4>1. At({"signal", "undo"} \cup {"up"}) = At({"signal", "undo"})
        BY <2>2, <3>3 DEF BatchInv, BatchKinds, At
      <4>2. Left({"signal", "undo"} \cup {"up"}) = Left({"signal", "undo"})
        BY <4>1 DEF Left
      <4>3. count = os + Cardinality(At({"taken"})) + Left({"signal", "undo"} \cup
                         (IF kind = "pcSharedSemaphore" THEN {"up"} ELSE {}))
        BY <2>2, <3>3, <4>2 DEF BatchInv, BatchKinds
      <4> QED
        BY <2>5, <3>3, <4>3 DEF SemaphoreCountIsExact
    <3>4. CASE kind = "pcFastSemaphore"
      BY <2>2, <2>4, <2>5, <3>4 DEF SemaphoreCountIsExact, FastInv
    <3>5. CASE kind \in PlainKinds
      BY <1>0, <2>2, <2>5, <3>5 DEF SemaphoreCountIsExact, PlainInv, PlainKinds
    <3> QED
      BY <2>1, <3>1, <3>2, <3>3, <3>4, <3>5 DEF BatchKinds
  <2>7. MaxIsRespected
    BY <1>0, <2>2, <2>4 DEF MaxIsRespected, BatchInv, PlainInv, BatchKinds, PlainKinds, SystemKinds
  <2> QED
    BY <2>3, <2>6, <2>7 DEF SemaphoreIsExact
<1> QED
  BY <1>1, <1>2

LEMMA SemaphoresBegin ==
    ASSUME SemaphoreInit
    PROVE  SemaphoreInv /\ Value \in Nat /\ Calls = [t \in Threads |-> "none"]
<1>0. /\ kind \in SemaphoreKinds /\ pc = [t \in Threads |-> "idle"] /\ mutex = None
      /\ left = [t \in Threads |-> 0] /\ fold = [t \in Threads |-> 0] /\ ret = [t \in Threads |-> "none"] /\ cancel = 0
  BY DEF SemaphoreInit, SyncInit, SemaphoreUsers
<1>1. MaxCount \in Nat /\ MaxPost \in Nat /\ OSMax \in Nat /\ MaxCount < OSMax
  BY SemaphoresAssumption
<1>2. /\ count \in 0 .. MaxCount
      /\ kind \in SystemKinds => os = count
      /\ kind \notin SystemKinds => os = 0
  <2>1. PICK n \in InitialCounts \cup {-1} :
        \/ UnixSemaphoreInit(n) \/ AndroidInit(n) \/ AppleInit(n) \/ KettleSemaphoreInit(n)
        \/ PCInit(n) \/ SynthesizedInit(n) \/ UnthreadedInit(n)
    BY DEF SemaphoreInit
  <2>2. n \in 0 .. MaxCount \/ n = -1
    BY SemaphoresAssumption
  <2>3. Clamped(n) \in 0 .. MaxCount /\ (n >= 0 => n \in 0 .. MaxCount)
    BY <1>1, <2>2 DEF Clamped
  <2> QED
    BY <2>1, <2>3 DEF UnixSemaphoreInit, AndroidInit, AppleInit, KettleSemaphoreInit, PCInit, SynthesizedInit,
         UnthreadedInit, SystemKinds
<1>3. count \in Nat /\ os \in Nat /\ os <= MaxCount /\ os <= OSMax /\ count \in Int
  BY <1>1, <1>2
<1>4. \A u \in Threads : pc[u] = "idle" /\ left[u] = 0 /\ fold[u] = 0 /\ ret[u] = "none"
  BY <1>0
<1>5. SemaphoreTypes
  <2>1. "idle" \in SemaphoreLabels /\ "idle" \notin PostLabels /\ 0 \in 0 .. MaxPost
    BY <1>1 DEF SemaphoreLabels, PostLabels
  <2> QED
    BY <1>0, <1>3, <1>4, <2>1 DEF SemaphoreTypes
<1>6. ASSUME NEW L, "idle" \notin L PROVE Cardinality(At(L)) = 0 /\ Left(L) = 0
  <2>1. At(L) = {}
    BY <1>4, <1>6 DEF At
  <2>2. Cardinality(Units(left, At(L))) = 0
    BY <2>1, NoUnits
  <2> QED
    BY <2>1, <2>2, FS_EmptySet DEF Left
<1>7. Cardinality(At({"taken", "signal", "undo"})) = 0 /\ Cardinality(At({"taken"})) = 0
      /\ Left({"signal", "undo"}) = 0 /\ Cardinality(At({"osWait", "osTimed"})) = 0 /\ Left({"release"}) = 0
  BY <1>6
<1>8. Fold = 0
  BY <1>4, NoUnits DEF Fold
<1>9. kind \in SystemKinds => OnesInv /\ BatchInv
  <2>1. \A u \in Threads : pc[u] \in SystemLabels /\ pc[u] # "up"
    BY <1>4 DEF SystemLabels
  <2> QED
    BY <1>2, <1>3, <1>7, <2>1 DEF OnesInv, BatchInv
<1>10. kind = "pcFastSemaphore" => FastInv
  <2>1. \A u \in Threads : pc[u] \in FastLabels
    BY <1>4 DEF FastLabels
  <2>2. Clamped(count) = count
    BY <1>3 DEF Clamped
  <2>3. kind = "pcFastSemaphore" => os = 0
    BY <1>2 DEF SystemKinds
  <2> QED
    BY <1>0, <1>3, <1>7, <1>8, <2>1, <2>2, <2>3 DEF FastInv
<1>11. kind \notin SystemKinds => PlainInv
  BY <1>2, <1>4 DEF PlainInv
<1>12. SemaphoreInv
  BY <1>5, <1>9, <1>10, <1>11 DEF SemaphoreInv, SystemKinds
<1>13. Value \in Nat
  <2>1. Clamped(count) = count
    BY <1>3 DEF Clamped
  <2> QED
    BY <1>3, <1>7, <2>1 DEF Value
<1>14. \A u \in Threads : CallOf(u) = "none"
  BY <1>0, <1>4 DEF CallOf, Waiting, Waits
<1> QED
  BY <1>12, <1>13, <1>14 DEF Calls

-----------------------------------------------------------------------------
(* One class is used at a time, and the variables of the others stay.      *)

OneKind ==
    /\ kind \in SemaphoreKinds \cup ConditionKinds \cup BarrierKinds
    /\ kind \notin SemaphoreKinds => SemaphoreFresh
    /\ kind \notin ConditionKinds => ConditionFresh
    /\ kind \notin BarrierKinds => BarrierFresh

LEMMA KindsApart ==
    /\ SemaphoreKinds \cap ConditionKinds = {} /\ SemaphoreKinds \cap BarrierKinds = {}
    /\ ConditionKinds \cap BarrierKinds = {}
BY KindsAssumption

LEMMA ConditionKeepsKind ==
    ASSUME ConditionNext
    PROVE  kind' = kind
<1>1. PICK t \in Threads : LockMutex(t) \/ CallSignal(t) \/ ConditionStep(t)
  BY DEF ConditionNext
<1>2. CASE LockMutex(t) \/ CallSignal(t) \/ UnlockMutex(t)
  BY <1>2 DEF LockMutex, CallSignal, UnlockMutex
<1>3. CASE PortableConditionWait(t)
  BY <1>3 DEF PortableConditionWait, BeginWait, GiveUpMutex, Wake, BookKeep, TrimDone, PostBlockLock, Relock
<1>4. CASE PortableConditionSignal(t)
  BY <1>4 DEF PortableConditionSignal, SignalLocked, SignalFirst, PostQueue, PostUnits
<1>5. CASE UnixConditionWait(t) \/ KettleConditionWait(t)
  BY <1>5 DEF UnixConditionWait, KettleConditionWait, CountLock, SystemSleep, SystemWake, SystemRelock
<1>6. CASE UnixConditionSignal(t) \/ KettleConditionSignal(t)
  BY <1>6 DEF UnixConditionSignal, KettleConditionSignal, SystemSignal
<1> QED
  BY <1>1, <1>2, <1>3, <1>4, <1>5, <1>6 DEF ConditionStep

LEMMA BarrierKeepsKind ==
    ASSUME BarrierNext
    PROVE  kind' = kind
<1>1. PICK t \in Threads : BarrierStep(t)
  BY DEF BarrierNext
<1>2. CASE PortableBarrierWait(t)
  BY <1>2 DEF PortableBarrierWait, ReadIndex, CountArrival, ResetCount, PostOthers, PostSome, WaitSemaphore, ToggleIndex
<1>3. CASE UnixBarrierWait(t) \/ KettleBarrierWait(t)
  BY <1>3 DEF UnixBarrierWait, KettleBarrierWait, ArriveLocked, ArriveLast, ArriveFirst, Retest, Leave, Expire
<1> QED
  BY <1>1, <1>2, <1>3 DEF BarrierStep

LEMMA SemaphoreNextKeepsKind ==
    ASSUME SemaphoreNext
    PROVE  kind' = kind
BY SemaphoreKeepsKind DEF SemaphoreNext

LEMMA OneKindBegins ==
    ASSUME Init
    PROVE  OneKind /\ (kind \in SemaphoreKinds => SemaphoreInit) /\ (kind \in ConditionKinds => ConditionInit)
           /\ (kind \in BarrierKinds => BarrierInit)
BY KindsApart DEF Init, OneKind, SemaphoreInit, ConditionInit, BarrierInit

LEMMA OneKindSteps ==
    ASSUME OneKind, [Next]_allVars
    PROVE  /\ OneKind' /\ kind' = kind
           /\ kind \in SemaphoreKinds => SemaphoreNext \/ UNCHANGED <<syncVars, semaphoreVars>>
           /\ kind \in ConditionKinds => ConditionNext \/ UNCHANGED <<syncVars, conditionVars>>
           /\ kind \in BarrierKinds => BarrierNext \/ UNCHANGED <<syncVars, barrierVars>>
           /\ kind \notin SemaphoreKinds => UNCHANGED semaphoreVars
           /\ kind \notin BarrierKinds => UNCHANGED barrierVars
<1>1. /\ UNCHANGED semaphoreVars => (SemaphoreFresh => SemaphoreFresh')
      /\ UNCHANGED conditionVars => (ConditionFresh => ConditionFresh')
      /\ UNCHANGED barrierVars => (BarrierFresh => BarrierFresh')
  <2>1. UNCHANGED semaphoreVars => (SemaphoreFresh => SemaphoreFresh')
    BY DEF semaphoreVars, SemaphoreFresh, SemaphoreUsers
  <2>2. UNCHANGED conditionVars => (ConditionFresh => ConditionFresh')
    BY DEF conditionVars, ConditionFresh
  <2>3. UNCHANGED barrierVars => (BarrierFresh => BarrierFresh')
    BY DEF barrierVars, BarrierFresh, BarrierUsers, NewBarrier
  <2> QED
    BY <2>1, <2>2, <2>3
<1>2. CASE UNCHANGED allVars
  <2>1. kind' = kind /\ UNCHANGED syncVars /\ UNCHANGED semaphoreVars /\ UNCHANGED conditionVars /\ UNCHANGED barrierVars
    BY <1>2 DEF allVars, syncVars
  <2> QED
    BY <1>1, <2>1 DEF OneKind
<1>3. CASE kind \in SemaphoreKinds /\ SemaphoreNext /\ UNCHANGED <<conditionVars, barrierVars>>
  BY <1>1, <1>3, SemaphoreNextKeepsKind, KindsApart DEF OneKind
<1>4. CASE kind \in ConditionKinds /\ ConditionNext /\ UNCHANGED <<semaphoreVars, barrierVars>>
  BY <1>1, <1>4, ConditionKeepsKind, KindsApart DEF OneKind
<1>5. CASE kind \in BarrierKinds /\ BarrierNext /\ UNCHANGED <<semaphoreVars, conditionVars>>
  BY <1>1, <1>5, BarrierKeepsKind, KindsApart DEF OneKind
<1> QED
  BY <1>2, <1>3, <1>4, <1>5 DEF Next

\* A step of nobody keeps what is said of each class.
LEMMA SemaphoreStutters ==
    ASSUME UNCHANGED <<syncVars, semaphoreVars>>
    PROVE  (SemaphoreInv => SemaphoreInv') /\ Value' = Value /\ Calls' = Calls
<1>1. /\ kind' = kind /\ pc' = pc /\ mutex' = mutex /\ count' = count /\ cancel' = cancel /\ os' = os
      /\ left' = left /\ fold' = fold /\ ret' = ret
  BY DEF syncVars, semaphoreVars
<1>2. \A L : At(L)' = At(L) /\ Left(L)' = Left(L)
  BY <1>1 DEF At, Left, Units
<1>3. Fold' = Fold
  BY <1>1 DEF Fold, Units
<1>4. Clamped(count)' = Clamped(count)
  BY <1>1 DEF Clamped
<1>5. /\ OnesInv => OnesInv'
      /\ BatchInv => BatchInv'
      /\ PlainInv => PlainInv'
  BY <1>1, <1>2 DEF OnesInv, BatchInv, PlainInv
<1>6. FastInv => FastInv'
  BY <1>1, <1>2, <1>3, <1>4 DEF FastInv
<1>7. SemaphoreTypes => SemaphoreTypes'
  BY <1>1 DEF SemaphoreTypes
<1>8. SemaphoreInv => SemaphoreInv'
  BY <1>1, <1>5, <1>6, <1>7 DEF SemaphoreInv
<1>9. Value' = Value
  BY <1>1, <1>2, <1>4 DEF Value
<1>10. Calls' = Calls
  BY <1>1 DEF Calls, CallOf
<1> QED
  BY <1>8, <1>9, <1>10

LEMMA ConditionStutters ==
    ASSUME UNCHANGED <<syncVars, conditionVars>>, ConditionInv
    PROVE  ConditionInv'
<1>1. /\ kind' = kind /\ pc' = pc /\ mutex' = mutex /\ lockCount' = lockCount /\ blocked' = blocked
      /\ toUnblock' = toUnblock /\ done' = done /\ queue' = queue /\ blockLock' = blockLock
      /\ unblockLock' = unblockLock /\ issue' = issue /\ arg' = arg /\ got' = got
  BY DEF syncVars, conditionVars
<1>2. Portable' = Portable /\ InWait' = InWait /\ WokenOk' = WokenOk /\ HasMutex' = HasMutex
  BY <1>1 DEF Portable, InWait, WokenOk, HasMutex, At
<1>3. Units(issue, Threads)' = Units(issue, Threads)
  BY <1>1 DEF Units
<1>4. ConditionTypes => ConditionTypes'
  BY <1>1 DEF ConditionTypes
<1>5. MutexIsExact => MutexIsExact'
  BY <1>1, <1>2 DEF MutexIsExact
<1>6. PortableConditionInv => PortableConditionInv'
  BY <1>1, <1>2, <1>3 DEF PortableConditionInv
<1>7. SystemConditionInv => SystemConditionInv'
  BY <1>1 DEF SystemConditionInv
<1> QED
  BY <1>2, <1>4, <1>5, <1>6, <1>7 DEF ConditionInv

LEMMA BarrierStutters ==
    ASSUME UNCHANGED <<syncVars, barrierVars>>
    PROVE  (BarrierInv => BarrierInv') /\ PromiseStep
<1>1. /\ kind' = kind /\ pc' = pc /\ mutex' = mutex /\ current' = current /\ index' = index /\ sema' = sema
      /\ cycle' = cycle /\ mine' = mine /\ result' = result /\ opened' = opened
  BY DEF syncVars, barrierVars
<1>2. \A L : At(L)' = At(L)
  BY <1>1 DEF At
<1>3. Opened' = Opened /\ Turned' = Turned /\ \A r : Opening(r)' = Opening(r)
  <2>1. Opened' = Opened
    BY <1>1, <1>2 DEF Opened
  <2>2. Turned' = Turned
    BY <1>1, <1>2 DEF Turned
  <2>3. \A r : Opening(r)' = Opening(r)
    BY <1>1, <1>2 DEF Opening
  <2> QED
    BY <2>1, <2>2, <2>3
<1>4. BarrierTypes => BarrierTypes'
  BY <1>1 DEF BarrierTypes
<1>5. PortableBarrierInv => PortableBarrierInv'
  BY <1>1, <1>3, <1>4 DEF PortableBarrierInv
<1>6. LockedBarrierInv => LockedBarrierInv'
  BY <1>1, <1>2, <1>4 DEF LockedBarrierInv
<1>7. Inside' = Inside
  BY <1>1, <1>2 DEF Inside
<1>8. Primary' = Primary
  BY <1>1, <1>2 DEF Primary
<1> QED
  BY <1>1, <1>5, <1>6, <1>7, <1>8, PromiseStays DEF BarrierInv

-----------------------------------------------------------------------------
(* Whichever class and platform is used.                                   *)

SemaphoreHolds == OneKind /\ (kind \in SemaphoreKinds => SemaphoreInv)
ConditionHolds == OneKind /\ (kind \in ConditionKinds => ConditionInv)
BarrierHolds ==
    /\ OneKind
    /\ kind \in BarrierKinds => BarrierInv
    \* The others know no primary thread.
    /\ kind \notin BarrierKinds => At({"primary"}) = {}

LEMMA SemaphoreHoldsOn ==
    ASSUME SemaphoreHolds, [Next]_allVars
    PROVE  /\ SemaphoreHolds'
           /\ "unthreadedSemaphore" \in UntimedKinds => SemaphorePromiseStep
<1>1. /\ OneKind' /\ kind' = kind
      /\ kind \in SemaphoreKinds => SemaphoreNext \/ UNCHANGED <<syncVars, semaphoreVars>>
      /\ kind \notin SemaphoreKinds => UNCHANGED semaphoreVars
  BY OneKindSteps DEF SemaphoreHolds
<1>2. CASE kind \in SemaphoreKinds /\ SemaphoreNext
  BY <1>1, <1>2, SemaphoreSteps DEF SemaphoreHolds
<1>3. CASE kind \in SemaphoreKinds /\ UNCHANGED <<syncVars, semaphoreVars>>
  BY <1>1, <1>3, SemaphoreStutters DEF SemaphoreHolds, SemaphorePromiseStep
<1>4. CASE kind \notin SemaphoreKinds
  <2>1. Calls' = Calls
    BY <1>1, <1>4 DEF Calls, CallOf
  <2>2. kind \notin SystemKinds /\ kind # "pcFastSemaphore"
    BY <1>4, KindsAssumption DEF SemaphoreHolds, OneKind, SystemKinds
  <2>3. count' = count
    BY <1>1, <1>4 DEF semaphoreVars
  <2>4. Value' = Value
    <3>1. Value = count
      BY <2>2 DEF Value
    <3>2. Value' = count'
      BY <1>1, <2>2 DEF Value
    <3> QED
      BY <2>3, <3>1, <3>2
  <2> QED
    BY <1>1, <1>4, <2>1, <2>4 DEF SemaphoreHolds, SemaphorePromiseStep
<1> QED
  BY <1>1, <1>2, <1>3, <1>4

LEMMA SemaphoreHoldsFirst ==
    ASSUME Init
    PROVE  SemaphoreHolds /\ SemaphorePromise!Init
<1>1. OneKind /\ (kind \in SemaphoreKinds => SemaphoreInit)
  BY OneKindBegins
<1>2. CASE kind \in SemaphoreKinds
  BY <1>1, <1>2, SemaphoresBegin DEF SemaphoreHolds, SemaphorePromise!Init, Calls
<1>3. CASE kind \notin SemaphoreKinds
  <2>1. kind \notin SystemKinds /\ kind # "pcFastSemaphore"
    BY <1>1, <1>3, KindsAssumption DEF OneKind, SystemKinds
  <2>2. Value = 0
    BY <1>1, <1>3, <2>1 DEF Value, OneKind, SemaphoreFresh
  <2>3. \A t \in Threads : CallOf(t) = "none"
    BY <1>3 DEF CallOf
  <2> QED
    BY <1>1, <1>3, <2>2, <2>3 DEF SemaphoreHolds, SemaphorePromise!Init
<1> QED
  BY <1>2, <1>3

LEMMA ConditionHoldsOn ==
    ASSUME ConditionHolds, [Next]_allVars
    PROVE  ConditionHolds'
<1>1. /\ OneKind' /\ kind' = kind
      /\ kind \in ConditionKinds => ConditionNext \/ UNCHANGED <<syncVars, conditionVars>>
  BY OneKindSteps DEF ConditionHolds
<1> QED
  BY <1>1, ConditionSteps, ConditionStutters DEF ConditionHolds

LEMMA ConditionHoldsFirst ==
    ASSUME Init
    PROVE  ConditionHolds
BY OneKindBegins, ConditionsBegin DEF ConditionHolds

LEMMA ConditionHoldsTells ==
    ASSUME ConditionHolds
    PROVE  ConditionIsExact
<1>1. CASE kind \in ConditionKinds
  BY <1>1, ConditionsAreExact DEF ConditionHolds
<1>2. CASE kind \notin ConditionKinds
  <2>1. ConditionFresh /\ ~Portable
    BY <1>2, KindsAssumption DEF ConditionHolds, OneKind, Portable
  <2>2. WakeupsSuffice
    <3>1. Cardinality(Units(issue, Threads)) = 0
      BY <2>1, NoUnits DEF ConditionFresh
    <3>2. Cardinality({t \in At({"woken"}) : got[t] = "ok"}) \in Nat
      BY PartOfThreads DEF At
    <3> QED
      BY <2>1, <3>1, <3>2 DEF WakeupsSuffice, ConditionFresh
  <2> QED
    BY <1>2, <2>1, <2>2 DEF ConditionIsExact, ConditionTypeOK, WaitersAreCounted, BlockLockIsExact, LockCountIsExact
<1> QED
  BY <1>1, <1>2

\* The portable version is for as many threads as its height: one more could read
\* the index of a round and count itself in the next one.
PortableFits == "portableBarrier" \in BarrierKinds => Cardinality(Threads) <= Height

LEMMA BarrierHoldsOn ==
    ASSUME BarrierHolds, SemaphoreHolds', ConditionHolds', [Next]_allVars,
           BarrierTimeouts = FALSE, PortableFits, CyclesFit
    PROVE  BarrierHolds' /\ (Cardinality(Threads) <= Height => PromiseStep)
<1>1. /\ OneKind' /\ kind' = kind
      /\ kind \in BarrierKinds => BarrierNext \/ UNCHANGED <<syncVars, barrierVars>>
      /\ kind \notin BarrierKinds => UNCHANGED barrierVars
  BY OneKindSteps DEF BarrierHolds
<1>2. CASE kind \in BarrierKinds /\ BarrierNext
  BY <1>1, <1>2, BarrierSteps DEF BarrierHolds, PortableFits
<1>3. CASE kind \in BarrierKinds /\ UNCHANGED <<syncVars, barrierVars>>
  BY <1>1, <1>3, BarrierStutters DEF BarrierHolds
<1>4. CASE kind \notin BarrierKinds
  <2>1. kind' # "portableBarrier" /\ kind # "portableBarrier"
    BY <1>1, <1>4, KindsAssumption DEF BarrierHolds, OneKind
  <2>2. At({"primary"})' = {}
    <3>1. kind' \in SemaphoreKinds => SemaphoreInv'
      BY DEF SemaphoreHolds
    <3>2. kind' \in ConditionKinds => ConditionInv'
      BY DEF ConditionHolds
    <3>3. kind' \in SemaphoreKinds => \A t \in Threads : pc'[t] \in SemaphoreLabels
      BY <3>1 DEF SemaphoreInv, SemaphoreTypes
    <3>4. kind' \in ConditionKinds => \A t \in Threads : pc'[t] \in ConditionLabels
      BY <3>2 DEF ConditionInv, ConditionTypes
    <3>5. "primary" \notin SemaphoreLabels /\ "primary" \notin ConditionLabels
      BY DEF SemaphoreLabels, ConditionLabels, Waiting, Waits
    <3>6. \A t \in Threads : pc'[t] # "primary"
      BY <1>1, <1>4, <3>3, <3>4, <3>5 DEF OneKind
    <3> QED
      BY <3>6 DEF At
  <2>3. opened' = opened
    BY <1>1, <1>4 DEF barrierVars
  <2>4. Inside' = {} /\ Inside = {}
    BY <1>1, <1>4 DEF Inside
  <2>5. Primary' = Primary
    <3>1. Primary = (At({"primary"}) = {})
      BY <2>1 DEF Primary
    <3>2. Primary' = (At({"primary"})' = {})
      BY <2>1 DEF Primary
    <3> QED
      BY <1>4, <2>2, <3>1, <3>2 DEF BarrierHolds
  <2> QED
    BY <1>1, <1>4, <2>2, <2>3, <2>4, <2>5, PromiseStays DEF BarrierHolds
<1> QED
  BY <1>1, <1>2, <1>3, <1>4

LEMMA BarrierHoldsFirst ==
    ASSUME Init
    PROVE  BarrierHolds /\ BarrierPromise!Init
<1>1. OneKind /\ (kind \in BarrierKinds => BarrierInit)
  BY OneKindBegins
<1>2. opened = {} /\ SyncInit
  BY DEF Init, SemaphoreInit, ConditionInit, BarrierInit, BarrierFresh, BarrierUsers
<1>3. \A L : "idle" \notin L => At(L) = {}
  BY <1>2 DEF SyncInit, At
<1>4. At({"primary"}) = {} /\ Inside = {}
  BY <1>3 DEF Inside
<1>5. BarrierHolds
  BY <1>1, <1>4, BarriersBegin DEF BarrierHolds
<1>6. Primary = TRUE
  BY <1>2, <1>4 DEF Primary
<1>7. \A t \in Threads : Place(t) = "out"
  BY <1>2, <1>4 DEF Place
<1> QED
  BY <1>5, <1>6, <1>7 DEF BarrierPromise!Init

LEMMA BarrierHoldsTells ==
    ASSUME BarrierHolds
    PROVE  BarrierIsExact
<1>1. kind = "portableBarrier" => kind \in BarrierKinds
  BY KindsAssumption DEF BarrierHolds, OneKind
<1>2. kind \notin BarrierKinds => BarrierInv
  BY KindsAssumption DEF BarrierHolds, OneKind, BarrierInv
<1> QED
  BY <1>1, <1>2, BarriersAreExact DEF BarrierHolds

-----------------------------------------------------------------------------
(* What is proved of every behaviour.                                      *)

\* The semaphores of every platform keep what their steps need: who is between
\* two steps of Wait or Post is counted, and so are the cancelled waits.
THEOREM SemaphoreInvariance == Spec => []SemaphoreHolds
<1>1. Init => SemaphoreHolds
  BY SemaphoreHoldsFirst
<1>2. SemaphoreHolds /\ [Next]_allVars => SemaphoreHolds'
  BY SemaphoreHoldsOn
<1> QED
  BY <1>1, <1>2, PTL DEF Spec

\* mnCount, what the system's semaphore has and the units that were posted and
\* taken agree in every state, whatever Posts fail or race and Waits time out;
\* GetCount is right when nobody is in a call, and the maximum is never passed
\* where Post looks at it under a lock.
THEOREM SemaphoresCountUnits == Spec => []SemaphoreIsExact
<1>1. Spec => []SemaphoreHolds
  BY SemaphoreInvariance
<1>2. SemaphoreHolds => SemaphoreIsExact
  BY SemaphoresAreExact DEF SemaphoreHolds, OneKind
<1> QED
  BY <1>1, <1>2, PTL

\* Class Semaphore of each platform does what eathread_semaphore.h promises: a
\* Wait that succeeds takes one unit that was there, one that fails takes none,
\* a Post adds units, and nobody else's call is touched.  The version without
\* threads does so for users that give no time to wait.
THEOREM SemaphoreRefinement ==
    ASSUME "unthreadedSemaphore" \in UntimedKinds
    PROVE  Spec => ImplementsCountingSemaphore
<1>1. Spec => []SemaphoreHolds
  BY SemaphoreInvariance
<1>2. Init => SemaphorePromise!Init
  BY SemaphoreHoldsFirst
<1>3. SemaphoreHolds /\ [Next]_allVars => [SemaphorePromise!Next]_<<Value, [t \in Threads |-> CallOf(t)]>>
  BY SemaphoreHoldsOn DEF SemaphorePromiseStep, Calls
<1> QED
  BY <1>1, <1>2, <1>3, PTL DEF Spec, ImplementsCountingSemaphore, SemaphorePromise!Spec

\* The two locks inside of Condition and the user's mutex keep each step's view of
\* the three counts true until its next step.
THEOREM ConditionInvariance == Spec => []ConditionHolds
<1>1. Init => ConditionHolds
  BY ConditionHoldsFirst
<1>2. ConditionHolds /\ [Next]_allVars => ConditionHolds'
  BY ConditionHoldsOn
<1> QED
  BY <1>1, <1>2, PTL DEF Spec

\* The three counts of waiters add up, a waiter that Signal took off them finds a
\* wakeup, mSemaphoreBlockLock is taken while such waiters are under way, and the
\* user's mutex counts one lock while somebody has it, timeouts included.
THEOREM ConditionsCountWaiters == Spec => []ConditionIsExact
<1>1. Spec => []ConditionHolds
  BY ConditionInvariance
<1> QED
  BY <1>1, ConditionHoldsTells, PTL

\* A round of the barrier is opened, let through and closed before the next one
\* opens, when no wait has a timeout and no more threads come to the portable
\* version than its height, as long as the number of rounds fits what Wait reads
\* of it.
THEOREM BarrierInvariance ==
    ASSUME BarrierTimeouts = FALSE, PortableFits
    PROVE  Spec /\ []CyclesFit => []BarrierHolds
<1>1. Spec => [](SemaphoreHolds /\ ConditionHolds)
  BY SemaphoreInvariance, ConditionInvariance, PTL
<1>2. Init => BarrierHolds
  BY BarrierHoldsFirst
<1>3. BarrierHolds /\ CyclesFit /\ (SemaphoreHolds /\ ConditionHolds)' /\ [Next]_allVars => BarrierHolds'
  BY BarrierHoldsOn
<1> QED
  BY <1>1, <1>2, <1>3, PTL DEF Spec

\* mnCurrent is the height but for the threads that wait in this round, and a unit
\* in either semaphore of the portable version is for a thread of its own round.
THEOREM BarriersCountThreads ==
    ASSUME BarrierTimeouts = FALSE, PortableFits
    PROVE  Spec /\ []CyclesFit => []BarrierIsExact
<1>1. Spec /\ []CyclesFit => []BarrierHolds
  BY BarrierInvariance
<1> QED
  BY <1>1, BarrierHoldsTells, PTL

\* Each version of Barrier does what eathread_barrier.h promises: nobody passes
\* before Height threads have come, all of them do, and one of those that pass
\* together is told that it is the primary one.  (CyclicBarrier has one round at a
\* time, so it is for as many threads as the height.)
THEOREM BarrierRefinement ==
    ASSUME BarrierTimeouts = FALSE, Cardinality(Threads) <= Height
    PROVE  Spec /\ []CyclesFit => ImplementsCyclicBarrier
<1>1. Spec => [](SemaphoreHolds /\ ConditionHolds)
  BY SemaphoreInvariance, ConditionInvariance, PTL
<1>0. PortableFits
  BY DEF PortableFits
<1>2. Spec /\ []CyclesFit => []BarrierHolds
  BY <1>0, BarrierInvariance
<1>3. Init => BarrierPromise!Init
  BY BarrierHoldsFirst
<1>4. BarrierHolds /\ CyclesFit /\ (SemaphoreHolds /\ ConditionHolds)' /\ [Next]_allVars
        => [BarrierPromise!Next]_<<[t \in Threads |-> Place(t)], Primary>>
  BY <1>0, BarrierHoldsOn DEF PromiseStep
<1> QED
  BY <1>1, <1>2, <1>3, <1>4, PTL DEF Spec, ImplementsCyclicBarrier, BarrierPromise!Spec
=============================================================================
