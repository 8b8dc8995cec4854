---------------------------- MODULE FutexProofs ----------------------------
(***************************************************************************)
(* Proofs about Futex for every set of threads, recursion bound and        *)
(* semaphore limit, in the build whose timed wait never times out (Unix),  *)
(* and in the others as long as no wait times out while the lock changes   *)
(* hands; and for recursion that stays within mRecursionCount's width.     *)
(* Without these suppositions the theorems are false.                      *)
(***************************************************************************)
EXTENDS Futex, FiniteSetTheorems, TLAPS

SafeBuild == (WaitHonoursTimeout => ~TimeoutsRace) /\ MaxRecursion < RecursionModulus

\* A thread inside a member function holds nothing (it would have recursed
\* instead), the lock has an owner while a wait has just expired, and nobody's
\* lock leaves no recursion count.
InsideHoldsNothing == \A t \in Threads : pc[t] # "idle" => held[t] = 0
OwnedWhileExpired == \A t \in Threads : pc[t] = "expired" => ~TimeoutsRace /\ mThreadUniqueId # None
CountNeedsOwner == mThreadUniqueId = None => mRecursionCount = 0

IInv ==
    /\ TypeOK
    /\ OwnerIsRecorded
    /\ UseCountIsExact
    /\ OneBaton
    /\ InsideHoldsNothing
    /\ OwnedWhileExpired
    /\ CountNeedsOwner

\* The arithmetic of the uint16_t.
LEMMA ModularDecrement ==
    ASSUME NEW m \in Nat \ {0}, NEW n \in 1 .. m - 1
    PROVE  (n + m - 1) % m = n - 1
<1>1. n + m - 1 = 1 * m + (n - 1) /\ n - 1 \in 0 .. m - 1
  OBVIOUS
<1> QED
  BY <1>1

LEMMA ModularIncrement ==
    ASSUME NEW m \in Nat \ {0}, NEW n \in 0 .. m - 2
    PROVE  (n + 1) % m = n + 1
OBVIOUS

\* When thread t alone changes its label, the number of threads at a set of
\* labels changes by what t contributes.
LEMMA MoveCount ==
    ASSUME pc \in [Threads -> PcValues], NEW t \in Threads, NEW label \in PcValues,
           Goto(t, label), NEW L
    PROVE  /\ Cardinality(At(L)) \in Nat
           /\ Cardinality(At(L)') \in Nat
           /\ Cardinality(At(L)') = Cardinality(At(L))
                  + (IF label \in L THEN 1 ELSE 0) - (IF pc[t] \in L THEN 1 ELSE 0)
           /\ pc[t] \in L => Cardinality(At(L)) > 0
<1>1. IsFiniteSet(At(L)) /\ IsFiniteSet(At(L)')
  BY FS_Subset, ThreadsAssumption DEF At
<1>2. At(L)' = IF label \in L THEN At(L) \cup {t} ELSE At(L) \ {t}
  BY DEF At, Goto
<1>3. t \in At(L) <=> pc[t] \in L
  BY DEF At
<1>4. Cardinality(At(L)) \in Nat /\ Cardinality(At(L)') \in Nat
  BY <1>1, FS_CardinalityType
<1>5. pc[t] \in L => Cardinality(At(L)) > 0
  BY <1>1, <1>3, <1>4, FS_EmptySet
<1>6. Cardinality(At(L) \cup {t}) =
          IF t \in At(L) THEN Cardinality(At(L)) ELSE Cardinality(At(L)) + 1
  BY <1>1, FS_AddElement
<1>7. Cardinality(At(L) \ {t}) =
          IF t \in At(L) THEN Cardinality(At(L)) - 1 ELSE Cardinality(At(L))
  BY <1>1, FS_RemoveElement
<1> QED
  BY <1>2, <1>3, <1>4, <1>5, <1>6, <1>7
-----------------------------------------------------------------------------
LEMMA InitInv == Init => IInv
<1> SUFFICES ASSUME Init PROVE IInv
  OBVIOUS
<1> USE DEF Init
<1>1. TypeOK
  BY ThreadsAssumption, RecursionAssumption, SemaphoreAssumption DEF TypeOK, PcValues
<1>2. OwnerIsRecorded /\ InsideHoldsNothing /\ OwnedWhileExpired /\ CountNeedsOwner
  BY ThreadsAssumption DEF OwnerIsRecorded, InsideHoldsNothing, OwnedWhileExpired, CountNeedsOwner
<1>3. Counted = {} /\ Movers = {}
  BY DEF Counted, Movers, At, CountedLabels, MoverLabels
<1>4. UseCountIsExact /\ OneBaton
  BY <1>3, FS_EmptySet DEF UseCountIsExact, OneBaton, Owned
<1> QED
  BY <1>1, <1>2, <1>4 DEF IInv

\* The two counts of the invariant, when thread t moves to label.
LEMMA Moves ==
    ASSUME TypeOK, NEW t \in Threads, NEW label \in PcValues, Goto(t, label)
    PROVE  /\ Cardinality(Counted) \in Nat
           /\ Cardinality(Counted') = Cardinality(Counted)
                  + (IF label \in CountedLabels THEN 1 ELSE 0)
                  - (IF pc[t] \in CountedLabels THEN 1 ELSE 0)
           /\ pc[t] \in CountedLabels => Cardinality(Counted) > 0
           /\ Cardinality(Movers) \in Nat
           /\ Cardinality(Movers') = Cardinality(Movers)
                  + (IF label \in MoverLabels THEN 1 ELSE 0)
                  - (IF pc[t] \in MoverLabels THEN 1 ELSE 0)
           /\ pc[t] \in MoverLabels => Cardinality(Movers) > 0
<1>1. pc \in [Threads -> PcValues]
  BY DEF TypeOK
<1>2. CountedLabels' = CountedLabels /\ MoverLabels' = MoverLabels
  BY DEF CountedLabels, MoverLabels
<1> QED
  BY <1>1, <1>2, MoveCount DEF Counted, Movers

LEMMA SwapInv ==
    ASSUME IInv, NEW t \in Threads, pc[t] \in {"idle", "spin"}, Swap(t)
    PROVE  IInv'
<1> USE DEF Swap, IInv
<1>0. "acquired" \in PcValues
  BY DEF PcValues
<1>1. Cardinality(Counted') = Cardinality(Counted) + 1 /\ Cardinality(Movers') = Cardinality(Movers) + 1
      /\ Cardinality(Counted) \in Nat /\ Cardinality(Movers) \in Nat
  BY <1>0, Moves DEF CountedLabels, MoverLabels
<1>2. mRecursionCount = 0 /\ Cardinality(Counted) = 0 /\ mThreadUniqueId = None
      /\ mSemaphore = 0 /\ Cardinality(Movers) = 0
  BY <1>1 DEF UseCountIsExact, OneBaton, Owned, TypeOK
<1>3. TypeOK'
  BY <1>0 DEF TypeOK, Goto
<1>4. OwnerIsRecorded' /\ CountNeedsOwner'
  BY DEF OwnerIsRecorded, CountNeedsOwner
<1>5. UseCountIsExact' /\ OneBaton'
  BY <1>1, <1>2 DEF UseCountIsExact, OneBaton, Owned
<1>6. InsideHoldsNothing' /\ OwnedWhileExpired'
  BY <1>2, ThreadsAssumption DEF InsideHoldsNothing, OwnedWhileExpired, OwnerIsRecorded, Goto, TypeOK
<1> QED
  BY <1>3, <1>4, <1>5, <1>6

LEMMA RecurseInv ==
    ASSUME IInv, SafeBuild, NEW t \in Threads, pc[t] = "idle",
           held[t] < MaxRecursion, Recurse(t)
    PROVE  IInv'
<1> USE DEF Recurse, IInv
<1>0. "idle" \in PcValues
  BY DEF PcValues
<1>1. /\ Cardinality(Counted') = Cardinality(Counted)
      /\ Cardinality(Movers') = Cardinality(Movers)
      /\ Cardinality(Counted) \in Nat /\ Cardinality(Movers) \in Nat
  BY <1>0, Moves DEF CountedLabels, MoverLabels
<1>2. held[t] \in 1 .. MaxRecursion - 1 /\ mRecursionCount = held[t]
  BY RecursionAssumption DEF OwnerIsRecorded, TypeOK
<1>3. mRecursionCount' = mRecursionCount + 1
  BY <1>2, ModularIncrement, RecursionAssumption DEF SafeBuild
<1>4. TypeOK'
  BY <1>0, <1>2, <1>3, RecursionAssumption DEF TypeOK, Goto, SafeBuild
<1>5. OwnerIsRecorded' /\ CountNeedsOwner'
  BY <1>2, <1>3, ThreadsAssumption DEF OwnerIsRecorded, CountNeedsOwner, TypeOK
<1>6. UseCountIsExact' /\ OneBaton'
  BY <1>1, <1>2, <1>3 DEF UseCountIsExact, OneBaton, Owned, TypeOK
<1>7. InsideHoldsNothing' /\ OwnedWhileExpired'
  BY DEF InsideHoldsNothing, OwnedWhileExpired, Goto, TypeOK
<1> QED
  BY <1>4, <1>5, <1>6, <1>7

LEMMA QueueInv ==
    ASSUME IInv, NEW t \in Threads, pc[t] \in {"idle", "spin"},
           NEW label \in {"wait", "timedWait"}, Queue(t, label)
    PROVE  IInv'
<1> USE DEF Queue, IInv
<1>0. label \in PcValues
  BY DEF PcValues
<1>1. /\ Cardinality(Counted') = Cardinality(Counted) + 1
      /\ Cardinality(Movers') = Cardinality(Movers)
      /\ Cardinality(Counted) \in Nat /\ Cardinality(Movers) \in Nat
  BY <1>0, Moves DEF CountedLabels, MoverLabels
<1>2. held[t] = 0
  BY DEF OwnerIsRecorded, TypeOK
<1>3. TypeOK'
  BY <1>0 DEF TypeOK, Goto
<1>4. OwnerIsRecorded' /\ CountNeedsOwner'
  BY DEF OwnerIsRecorded, CountNeedsOwner
<1>5. UseCountIsExact' /\ OneBaton'
  BY <1>1 DEF UseCountIsExact, OneBaton, Owned, TypeOK
<1>6. InsideHoldsNothing' /\ OwnedWhileExpired'
  BY <1>2 DEF InsideHoldsNothing, OwnedWhileExpired, Goto, TypeOK
<1> QED
  BY <1>3, <1>4, <1>5, <1>6

LEMMA SpinLockInv ==
    ASSUME IInv, NEW t \in Threads, SpinLock(t)
    PROVE  IInv'
<1> USE DEF SpinLock, IInv
<1>0. "spin" \in PcValues
  BY DEF PcValues
<1>1. /\ Cardinality(Counted') = Cardinality(Counted)
      /\ Cardinality(Movers') = Cardinality(Movers)
      /\ Cardinality(Counted) \in Nat /\ Cardinality(Movers) \in Nat
  BY <1>0, Moves DEF CountedLabels, MoverLabels
<1>2. held[t] = 0
  BY DEF OwnerIsRecorded, TypeOK
<1>3. TypeOK'
  BY <1>0 DEF TypeOK, Goto
<1>4. OwnerIsRecorded' /\ CountNeedsOwner'
  BY DEF OwnerIsRecorded, CountNeedsOwner
<1>5. UseCountIsExact' /\ OneBaton'
  BY <1>1 DEF UseCountIsExact, OneBaton, Owned, TypeOK
<1>6. InsideHoldsNothing' /\ OwnedWhileExpired'
  BY <1>2 DEF InsideHoldsNothing, OwnedWhileExpired, Goto, TypeOK
<1> QED
  BY <1>3, <1>4, <1>5, <1>6

LEMMA WaitInv ==
    ASSUME IInv, NEW t \in Threads, WaitFSemaphore(t)
    PROVE  IInv'
<1> USE DEF WaitFSemaphore, IInv
<1>0. "acquired" \in PcValues
  BY DEF PcValues
<1>1. /\ Cardinality(Counted') = Cardinality(Counted)
      /\ Cardinality(Movers') = Cardinality(Movers) + 1
      /\ Cardinality(Counted) \in Nat /\ Cardinality(Movers) \in Nat
  BY <1>0, Moves DEF CountedLabels, MoverLabels
<1>2. held[t] = 0
  BY DEF InsideHoldsNothing
<1>3. TypeOK'
  BY <1>0, SemaphoreAssumption DEF TypeOK, Goto
<1>4. OwnerIsRecorded' /\ CountNeedsOwner'
  BY DEF OwnerIsRecorded, CountNeedsOwner
<1>5. UseCountIsExact' /\ OneBaton'
  BY <1>1 DEF UseCountIsExact, OneBaton, Owned, TypeOK
<1>6. InsideHoldsNothing' /\ OwnedWhileExpired'
  BY <1>2 DEF InsideHoldsNothing, OwnedWhileExpired, Goto, TypeOK
<1> QED
  BY <1>3, <1>4, <1>5, <1>6

LEMMA TimeoutInv ==
    ASSUME IInv, SafeBuild, NEW t \in Threads, WaitTimeout(t)
    PROVE  IInv'
<1> USE DEF WaitTimeout, IInv
<1>0. "expired" \in PcValues
  BY DEF PcValues
<1>1. /\ Cardinality(Counted') = Cardinality(Counted)
      /\ Cardinality(Movers') = Cardinality(Movers)
      /\ Cardinality(Counted) \in Nat /\ Cardinality(Movers) \in Nat
  BY <1>0, Moves DEF CountedLabels, MoverLabels
<1>2. held[t] = 0 /\ ~TimeoutsRace /\ mThreadUniqueId # None
  BY TimeoutAssumption DEF InsideHoldsNothing, SafeBuild
<1>3. TypeOK'
  BY <1>0 DEF TypeOK, Goto
<1>4. OwnerIsRecorded' /\ CountNeedsOwner'
  BY DEF OwnerIsRecorded, CountNeedsOwner
<1>5. UseCountIsExact' /\ OneBaton'
  BY <1>1 DEF UseCountIsExact, OneBaton, Owned, TypeOK
<1>6. InsideHoldsNothing' /\ OwnedWhileExpired'
  BY <1>2 DEF InsideHoldsNothing, OwnedWhileExpired, Goto, TypeOK
<1> QED
  BY <1>3, <1>4, <1>5, <1>6

LEMMA TimedFailsInv ==
    ASSUME IInv, NEW t \in Threads, LockTimedFails(t)
    PROVE  IInv'
<1> USE DEF LockTimedFails, IInv
<1>0. "idle" \in PcValues
  BY DEF PcValues
<1>1. /\ Cardinality(Counted') = Cardinality(Counted) - 1
      /\ Cardinality(Movers') = Cardinality(Movers)
      /\ Cardinality(Counted) \in Nat /\ Cardinality(Movers) \in Nat
      /\ Cardinality(Counted) > 0
  BY <1>0, Moves DEF CountedLabels, MoverLabels
\* The owner's own locks keep the count positive.
<1>2. held[t] = 0 /\ mThreadUniqueId # None /\ mRecursionCount > 0
  BY DEF InsideHoldsNothing, OwnedWhileExpired, OwnerIsRecorded, TypeOK
<1>3. TypeOK'
  BY <1>0, <1>1, <1>2 DEF TypeOK, Goto, UseCountIsExact
<1>4. OwnerIsRecorded' /\ CountNeedsOwner'
  BY DEF OwnerIsRecorded, CountNeedsOwner
<1>5. UseCountIsExact' /\ OneBaton'
  BY <1>1, <1>2 DEF UseCountIsExact, OneBaton, Owned, TypeOK
<1>6. InsideHoldsNothing' /\ OwnedWhileExpired'
  BY <1>2 DEF InsideHoldsNothing, OwnedWhileExpired, Goto, TypeOK
<1> QED
  BY <1>3, <1>4, <1>5, <1>6

LEMMA AcquiredInv ==
    ASSUME IInv, SafeBuild, NEW t \in Threads, OnLockAcquired(t)
    PROVE  IInv'
<1> USE DEF OnLockAcquired, IInv
<1>0. "idle" \in PcValues
  BY DEF PcValues
<1>1. /\ Cardinality(Counted') = Cardinality(Counted) - 1
      /\ Cardinality(Movers') = Cardinality(Movers) - 1
      /\ Cardinality(Counted) \in Nat /\ Cardinality(Movers) \in Nat
      /\ Cardinality(Movers) > 0
  BY <1>0, Moves DEF CountedLabels, MoverLabels
\* The baton is t's: nobody owns the lock, so nobody holds it.
<1>2. mThreadUniqueId = None /\ mRecursionCount = 0
  BY <1>1 DEF OneBaton, Owned, TypeOK, CountNeedsOwner
<1>3. \A u \in Threads : held[u] = 0
  BY <1>2, ThreadsAssumption DEF OwnerIsRecorded, TypeOK
<1>4. TypeOK'
  BY <1>0, <1>3, RecursionAssumption DEF TypeOK, Goto, SafeBuild
<1>5. OwnerIsRecorded' /\ CountNeedsOwner'
  BY <1>3, ThreadsAssumption DEF OwnerIsRecorded, CountNeedsOwner, TypeOK
<1>6. UseCountIsExact' /\ OneBaton'
  BY <1>1, <1>2, ThreadsAssumption DEF UseCountIsExact, OneBaton, Owned, TypeOK
<1>7. InsideHoldsNothing' /\ OwnedWhileExpired'
  BY <1>3, ThreadsAssumption DEF InsideHoldsNothing, OwnedWhileExpired, Goto, TypeOK
<1> QED
  BY <1>4, <1>5, <1>6, <1>7

LEMMA UnlockInv ==
    ASSUME IInv, SafeBuild, NEW t \in Threads, MayCall, Unlock(t)
    PROVE  IInv'
<1> USE DEF Unlock, IInv
<1>1. /\ held[t] \in 1 .. MaxRecursion /\ mRecursionCount = held[t]
      /\ mThreadUniqueId = t /\ mThreadUniqueId # None
  BY ThreadsAssumption DEF OwnerIsRecorded, TypeOK
<1>2. mRecursionCount' = mRecursionCount - 1
  BY <1>1, ModularDecrement, RecursionAssumption DEF SafeBuild, TypeOK
<1>3. CASE mRecursionCount' = 0
  <2>0. "release" \in PcValues
    BY DEF PcValues
  <2>1. /\ Cardinality(Counted') = Cardinality(Counted) + 1
        /\ Cardinality(Movers') = Cardinality(Movers) + 1
        /\ Cardinality(Counted) \in Nat /\ Cardinality(Movers) \in Nat
    BY <1>3, <2>0, Moves DEF CountedLabels, MoverLabels
  <2>2. TypeOK'
    BY <1>1, <1>2, <1>3, <2>0, RecursionAssumption DEF TypeOK, Goto
  <2>3. held'[t] = 0 /\ \A u \in Threads : held'[u] = 0
    BY <1>1, <1>2, <1>3 DEF OwnerIsRecorded, TypeOK
  <2>4. OwnerIsRecorded' /\ CountNeedsOwner'
    BY <1>3, <2>3, ThreadsAssumption DEF OwnerIsRecorded, CountNeedsOwner
  <2>5. UseCountIsExact' /\ OneBaton'
    BY <1>1, <1>2, <1>3, <2>1 DEF UseCountIsExact, OneBaton, Owned, TypeOK
  \* Nobody gave up and is still to leave the count.
  <2>6. InsideHoldsNothing' /\ OwnedWhileExpired'
    <3>1. \A u \in Threads : pc[u] # "expired"
      BY DEF MayCall, At, OwnedWhileExpired
    <3> QED
      BY <1>3, <2>3, <3>1 DEF InsideHoldsNothing, OwnedWhileExpired, Goto, TypeOK
  <2> QED
    BY <2>2, <2>4, <2>5, <2>6
<1>4. CASE mRecursionCount' # 0
  <2>1. Counted' = Counted /\ Movers' = Movers
    BY <1>4 DEF Counted, Movers, At
  <2>2. /\ Cardinality(Counted) \in Nat /\ Cardinality(Movers) \in Nat
    BY MoveCount, FS_Subset, FS_CardinalityType, ThreadsAssumption DEF Counted, Movers, At
  <2>3. TypeOK'
    BY <1>1, <1>2, <1>4, <2>2, RecursionAssumption DEF TypeOK, UseCountIsExact
  <2>4. OwnerIsRecorded' /\ CountNeedsOwner'
    BY <1>1, <1>2, <1>4 DEF OwnerIsRecorded, CountNeedsOwner, TypeOK
  <2>5. UseCountIsExact' /\ OneBaton'
    BY <1>1, <1>2, <1>4, <2>1, <2>2 DEF UseCountIsExact, OneBaton, Owned, TypeOK
  <2>6. InsideHoldsNothing' /\ OwnedWhileExpired'
    BY <1>4 DEF InsideHoldsNothing, OwnedWhileExpired, TypeOK
  <2> QED
    BY <2>3, <2>4, <2>5, <2>6
<1> QED
  BY <1>3, <1>4

LEMMA ReleaseInv ==
    ASSUME IInv, NEW t \in Threads, Release(t)
    PROVE  IInv'
<1> USE DEF Release, IInv
<1> DEFINE label == IF mUseCount - 1 > 0 THEN "signal" ELSE "idle"
<1>0. label \in PcValues /\ Goto(t, label) /\ mUseCount' = mUseCount - 1
  BY DEF PcValues, Goto
<1>1. /\ Cardinality(Counted') = Cardinality(Counted) - 1
      /\ Cardinality(Movers') = Cardinality(Movers) - (IF label = "idle" THEN 1 ELSE 0)
      /\ Cardinality(Counted) \in Nat /\ Cardinality(Movers) \in Nat
      /\ Cardinality(Counted) > 0 /\ Cardinality(Movers) > 0
  BY <1>0, Moves DEF CountedLabels, MoverLabels
<1>2. held[t] = 0
  BY DEF InsideHoldsNothing
<1>3. TypeOK'
  BY <1>0, <1>1 DEF TypeOK, Goto, UseCountIsExact
<1>4. OwnerIsRecorded' /\ CountNeedsOwner'
  BY DEF OwnerIsRecorded, CountNeedsOwner
<1>5. UseCountIsExact' /\ OneBaton'
  BY <1>0, <1>1 DEF UseCountIsExact, OneBaton, Owned, TypeOK
<1>6. InsideHoldsNothing' /\ OwnedWhileExpired'
  BY <1>0, <1>2 DEF InsideHoldsNothing, OwnedWhileExpired, Goto, TypeOK
<1> QED
  BY <1>3, <1>4, <1>5, <1>6

LEMMA SignalInv ==
    ASSUME IInv, NEW t \in Threads, SignalFSemaphore(t)
    PROVE  IInv'
<1> USE DEF SignalFSemaphore, IInv
<1>0. "idle" \in PcValues
  BY DEF PcValues
<1>1. /\ Cardinality(Counted') = Cardinality(Counted)
      /\ Cardinality(Movers') = Cardinality(Movers) - 1
      /\ Cardinality(Counted) \in Nat /\ Cardinality(Movers) \in Nat
      /\ Cardinality(Movers) > 0
  BY <1>0, Moves DEF CountedLabels, MoverLabels
<1>2. mSemaphore' = mSemaphore + 1 /\ mSemaphore = 0
  BY <1>1, SemaphoreAssumption DEF OneBaton, Owned, TypeOK
<1>3. TypeOK'
  BY <1>0, <1>2, SemaphoreAssumption DEF TypeOK, Goto
<1>4. OwnerIsRecorded' /\ CountNeedsOwner'
  BY DEF OwnerIsRecorded, CountNeedsOwner
<1>5. UseCountIsExact' /\ OneBaton'
  BY <1>1, <1>2 DEF UseCountIsExact, OneBaton, Owned, TypeOK
<1>6. InsideHoldsNothing' /\ OwnedWhileExpired'
  BY DEF InsideHoldsNothing, OwnedWhileExpired, Goto, TypeOK
<1> QED
  BY <1>3, <1>4, <1>5, <1>6

LEMMA StutterInv == ASSUME IInv, UNCHANGED vars PROVE IInv'
<1>1. Counted' = Counted /\ Movers' = Movers
  BY DEF vars, Counted, Movers, At
<1> QED
  BY <1>1 DEF IInv, vars, TypeOK, OwnerIsRecorded, UseCountIsExact, OneBaton, Owned,
     InsideHoldsNothing, OwnedWhileExpired, CountNeedsOwner

LEMMA NextInv == ASSUME IInv, SafeBuild, [Next]_vars PROVE IInv'
<1>1. CASE UNCHANGED vars
  BY <1>1, StutterInv
<1>2. ASSUME NEW t \in Threads, TryLock(t) PROVE IInv'
  BY <1>2, SwapInv, RecurseInv, StutterInv DEF TryLock
<1>3. ASSUME NEW t \in Threads, Lock(t) PROVE IInv'
  <2>1. pc[t] = "spin" => ~Recurse(t)
    BY DEF Recurse, IInv, OwnerIsRecorded, InsideHoldsNothing, TypeOK
  <2> QED
    BY <1>3, <2>1, SwapInv, RecurseInv, QueueInv DEF Lock
<1>4. ASSUME NEW t \in Threads, LockTimed(t) PROVE IInv'
  BY <1>4, SwapInv, RecurseInv, QueueInv DEF LockTimed
<1> QED
  BY <1>1, <1>2, <1>3, <1>4, SpinLockInv, WaitInv, TimeoutInv, TimedFailsInv, AcquiredInv,
     UnlockInv, ReleaseInv, SignalInv DEF Next, Step, Call

-----------------------------------------------------------------------------
\* The state of the futex always has its type, one owner at most holds it, an
\* owner is always on record, mUseCount is exact and the lock is one baton.
THEOREM Invariance == ASSUME SafeBuild PROVE Spec => []IInv
<1>1. Init => IInv
  BY InitInv
<1>2. IInv /\ [Next]_vars => IInv'
  BY NextInv
<1> QED
  BY <1>1, <1>2, PTL DEF Spec

\* The variables keep their types, mRecursionCount within its 16 bits.
THEOREM TypeCorrect == ASSUME SafeBuild PROVE Spec => []TypeOK
<1>1. IInv => TypeOK
  BY DEF IInv
<1> QED
  BY <1>1, Invariance, PTL

\* HasLock and GetLockCount tell an owner the truth.
THEOREM Recorded == ASSUME SafeBuild PROVE Spec => []OwnerIsRecorded
<1>1. IInv => OwnerIsRecorded
  BY DEF IInv
<1> QED
  BY <1>1, Invariance, PTL

\* No two threads hold the futex at once.
THEOREM Exclusion == ASSUME SafeBuild PROVE Spec => []MutualExclusion
<1>1. IInv => MutualExclusion
  BY ThreadsAssumption DEF IInv, OwnerIsRecorded, MutualExclusion, TypeOK
<1> QED
  BY <1>1, Invariance, PTL

\* A signal is never lost and never left over.
THEOREM Baton == ASSUME SafeBuild PROVE Spec => [](OneBaton /\ UseCountIsExact)
<1>1. IInv => OneBaton /\ UseCountIsExact
  BY DEF IInv
<1> QED
  BY <1>1, Invariance, PTL

\* The futex implements the abstract recursive lock: a step that changes what
\* threads hold is an Acquire or a Release of it.
THEOREM Refinement == ASSUME SafeBuild PROVE Spec => ImplementsRecursiveLock
<1>1. Init => Abstract!Init
  BY DEF Init, Abstract!Init
<1>2. ASSUME IInv, [Next]_vars PROVE [Abstract!Next]_held
  <2> SUFFICES ASSUME held' # held PROVE Abstract!Next
    OBVIOUS
  <2>1. PICK t \in Threads : Recurse(t) \/ OnLockAcquired(t) \/ Unlock(t)
    BY <1>2 DEF Next, Step, Call, TryLock, Lock, SpinLock, LockTimed, Swap, Queue,
       WaitFSemaphore, WaitTimeout, LockTimedFails, Release, SignalFSemaphore, vars
  <2>2. CASE Recurse(t)
    <3>1. \A u \in Threads \ {t} : held[u] = 0
      BY <1>2, <2>2 DEF Recurse, IInv, OwnerIsRecorded, TypeOK
    <3> QED
      BY <2>2, <3>1 DEF Recurse, Abstract!Next, Abstract!Acquire
  <2>3. CASE OnLockAcquired(t)
    <3>1. Goto(t, "idle") /\ "idle" \in PcValues /\ pc[t] \in MoverLabels
      BY <2>3 DEF OnLockAcquired, PcValues, MoverLabels
    <3>2. Cardinality(Movers) \in Nat /\ Cardinality(Movers) > 0
      BY <1>2, <3>1, Moves DEF IInv
    <3>3. mThreadUniqueId = None
      BY <1>2, <3>2 DEF IInv, OneBaton, Owned, TypeOK
    <3>4. \A u \in Threads : held[u] = 0
      BY <1>2, <3>3, ThreadsAssumption DEF IInv, OwnerIsRecorded, TypeOK
    <3> QED
      BY <2>3, <3>4 DEF OnLockAcquired, Abstract!Next, Abstract!Acquire
  <2>4. CASE Unlock(t)
    BY <2>4 DEF Unlock, Abstract!Next, Abstract!Release
  <2> QED
    BY <2>1, <2>2, <2>3, <2>4
<1> QED
  BY <1>1, <1>2, Invariance, PTL DEF Spec, Abstract!Spec, ImplementsRecursiveLock
=============================================================================
