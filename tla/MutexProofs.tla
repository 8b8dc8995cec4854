---------------------------- MODULE MutexProofs ----------------------------
(***************************************************************************)
(* Proofs about RecursiveMutexes for every set of threads, every platform, *)
(* every recursion bound and spin count.                                   *)
(***************************************************************************)
EXTENDS RecursiveMutexes, TLAPS

Plain == Calls \cup {"idle", "ask", "askId"}
WaitLabels == {"simulateUnlock", "forget", "sleep", "asleep", "simulateLock", "simulateId"}
OwnLabels == {"id", "count", "tryCount", "tryId", "uncount", "clear", "unlock"}
Labels == Plain \cup WaitLabels \cup OwnLabels

\* The labels at which the system's lock was taken and is not counted (yet, or any more).
Uncounted == {"id", "count", "tryCount", "clear", "unlock", "forget", "sleep", "simulateLock"}

PlacedAt(t) ==
    /\ pc[t] \in (OwnLabels \cup WaitLabels) \ {"asleep"} => owner = t
    /\ pc[t] = "asleep" => owner # t
    /\ pc[t] \in WaitLabels \ {"asleep"} => depth = 1
    /\ pc[t] \in WaitLabels => kind \in WaitKinds
    /\ pc[t] \in Calls /\ owner = t => depth < MaxRecursion
    /\ pc[t] \in {"spin", "attempt"} => spins[t] > 0
    /\ pc[t] # "idle" => ret[t] = "none"
    /\ kind = "unthreadedMutex" /\ t \notin Users => pc[t] = "idle" /\ owner # t

Placed == pc \in [Threads -> Labels] /\ \A t \in Threads : PlacedAt(t)

CountFollowsDepth ==
    IF owner = None THEN lockCount = 0
    ELSE lockCount = IF pc[owner] \in Uncounted THEN depth - 1 ELSE depth

Cleared == kind \in {"cpp11Futex", "criticalFutex"}
OwnerIsWritten ==
    kind \notin WaitKinds \cup {"unthreadedMutex"} =>
        /\ owner # None /\ (depth > 1 \/ pc[owner] \notin {"id", "tryCount", "tryId", "unlock"}) => threadId = owner
        /\ lockCount > 0 => threadId \in {None, owner}
        /\ Cleared => threadId \in {None, owner}
        /\ Cleared => \A t \in Threads : pc[t] = "unlock" /\ depth = 1 => threadId = None
        /\ \A t \in Threads : pc[t] = "askId" /\ threadId = t => owner = t

\* What callers believe is the depth of the system's lock, but for a call that
\* was given the lock and has not returned, or that is giving it back.
Uncredited == (OwnLabels \cup WaitLabels) \ {"asleep"}
HeldIsCredited ==
    \A t \in Threads :
        held[t] = IF owner # t THEN 0 ELSE IF pc[t] \in Uncredited THEN depth - 1 ELSE depth

IInv == TypeOK /\ Placed /\ CountFollowsDepth /\ OwnerIsWritten /\ HasLockTellsTruth /\ HeldIsCredited

USE RecursiveMutexesAssumption
-----------------------------------------------------------------------------
LEMMA SystemLockInv ==
    ASSUME IInv, NEW t \in Threads, NEW from, NEW to,
           from \subseteq Calls \cup {"asleep"}, kind # "unthreadedMutex",
           \/ to = "id" /\ from \subseteq Calls
           \/ to = "tryCount" /\ from \subseteq Calls
           \/ to = "simulateLock" /\ from = {"asleep"},
           SystemLock(t, from, to)
    PROVE  IInv'
<1> USE DEF SystemLock, To, Goto, Mine, systemLock, IInv
<1>1. TypeOK'
  BY DEF TypeOK, Placed, PlacedAt, Plain, WaitLabels, OwnLabels, Labels, Calls, HeldIsCredited, Uncredited, CountFollowsDepth, Uncounted
<1>2. Placed'
  BY DEF TypeOK, Placed, PlacedAt, Plain, WaitLabels, OwnLabels, Labels, Calls, Users
<1>3. CountFollowsDepth'
  BY DEF TypeOK, Placed, PlacedAt, Plain, WaitLabels, OwnLabels, Labels, Calls, CountFollowsDepth, Uncounted
<1>4. OwnerIsWritten'
  <2>1. owner \in {None, t} /\ owner' = t /\ threadId' = threadId /\ lockCount' = lockCount
    OBVIOUS
  <2>2. CASE owner = None
    BY <2>1, <2>2 DEF TypeOK, Placed, PlacedAt, Plain, WaitLabels, OwnLabels, Labels, Calls,
       CountFollowsDepth, OwnerIsWritten, Cleared
  <2>3. CASE owner = t
    BY <2>1, <2>3 DEF TypeOK, Placed, PlacedAt, Plain, WaitLabels, OwnLabels, Labels, Calls,
       CountFollowsDepth, OwnerIsWritten, Cleared
  <2> QED
    BY <2>1, <2>2, <2>3
<1>5. HasLockTellsTruth'
  BY DEF TypeOK, Placed, PlacedAt, Plain, WaitLabels, OwnLabels, Labels, Calls, CountFollowsDepth, Uncounted, OwnerIsWritten, HasLockTellsTruth
<1>6. HeldIsCredited'
  BY DEF TypeOK, Placed, PlacedAt, Plain, WaitLabels, OwnLabels, Labels, Calls, HeldIsCredited, Uncredited
<1> QED
  BY <1>1, <1>2, <1>3, <1>4, <1>5, <1>6

LEMMA SystemFailsInv ==
    ASSUME IInv, NEW t \in Threads, NEW from, from \subseteq Calls, SystemFails(t, from)
    PROVE  IInv'
<1> USE DEF SystemFails, Return, Goto, Mine, systemLock, IInv
<1>1. TypeOK'
  BY DEF TypeOK, Placed, PlacedAt, Plain, WaitLabels, OwnLabels, Labels, Calls, HeldIsCredited, Uncredited, CountFollowsDepth, Uncounted
<1>2. Placed'
  BY DEF TypeOK, Placed, PlacedAt, Plain, WaitLabels, OwnLabels, Labels, Calls, Users
<1>3. CountFollowsDepth'
  BY DEF TypeOK, Placed, PlacedAt, Plain, WaitLabels, OwnLabels, Labels, Calls, CountFollowsDepth, Uncounted
<1>4. OwnerIsWritten'
  <2>1. pc[t] \in Calls /\ owner # None /\ owner # t
    BY DEF TypeOK
  <2>2. pc'[owner] = pc[owner] /\ \A u \in Threads : pc'[u] = pc[u] \/ pc'[u] = "idle"
    BY <2>1 DEF TypeOK, Placed
  <2> QED
    BY <2>1, <2>2 DEF TypeOK, OwnerIsWritten, Cleared
<1>5. HasLockTellsTruth'
  BY DEF TypeOK, Placed, PlacedAt, Plain, WaitLabels, OwnLabels, Labels, Calls, CountFollowsDepth, Uncounted, OwnerIsWritten, HasLockTellsTruth
<1>6. HeldIsCredited'
  BY DEF TypeOK, Placed, PlacedAt, Plain, WaitLabels, OwnLabels, Labels, Calls, HeldIsCredited, Uncredited
<1> QED
  BY <1>1, <1>2, <1>3, <1>4, <1>5, <1>6

LEMMA SystemUnlockInv ==
    ASSUME IInv, NEW t \in Threads, kind # "unthreadedMutex", SystemUnlock(t)
    PROVE  IInv'
<1> USE DEF SystemUnlock, Return, Goto, IInv
<1>1. TypeOK'
  BY DEF TypeOK, Placed, PlacedAt, Plain, WaitLabels, OwnLabels, Labels, Calls, HeldIsCredited, Uncredited, CountFollowsDepth, Uncounted
<1>2. Placed'
  BY DEF TypeOK, Placed, PlacedAt, Plain, WaitLabels, OwnLabels, Labels, Calls, Users
<1>3. CountFollowsDepth'
  BY DEF TypeOK, Placed, PlacedAt, Plain, WaitLabels, OwnLabels, Labels, Calls, CountFollowsDepth, Uncounted
<1>4. OwnerIsWritten'
  <2>1. owner = t
    BY DEF Placed, PlacedAt, OwnLabels
  <2>2. CASE depth = 1
    BY <2>1, <2>2 DEF TypeOK, Placed, CountFollowsDepth, Uncounted, OwnerIsWritten, Cleared
  <2>3. CASE depth # 1
    BY <2>1, <2>3 DEF TypeOK, Placed, PlacedAt, OwnLabels, CountFollowsDepth, Uncounted, OwnerIsWritten, Cleared
  <2> QED
    BY <2>2, <2>3
<1>5. HasLockTellsTruth'
  BY DEF TypeOK, Placed, PlacedAt, Plain, WaitLabels, OwnLabels, Labels, Calls, CountFollowsDepth, Uncounted, OwnerIsWritten, HasLockTellsTruth
<1>6. HeldIsCredited'
  BY DEF TypeOK, Placed, PlacedAt, Plain, WaitLabels, OwnLabels, Labels, Calls, HeldIsCredited, Uncredited
<1> QED
  BY <1>1, <1>2, <1>3, <1>4, <1>5, <1>6

LEMMA RecordIdInv ==
    ASSUME IInv, NEW t \in Threads, kind # "unthreadedMutex", Record(t, "id", t, "count")
    PROVE  IInv'
<1> USE DEF Record, To, Goto, systemLock, IInv
<1>1. TypeOK'
  BY DEF TypeOK, Placed, PlacedAt, Plain, WaitLabels, OwnLabels, Labels, Calls, HeldIsCredited, Uncredited, CountFollowsDepth, Uncounted
<1>2. Placed'
  BY DEF TypeOK, Placed, PlacedAt, Plain, WaitLabels, OwnLabels, Labels, Calls, Users
<1>3. CountFollowsDepth'
  BY DEF TypeOK, Placed, PlacedAt, Plain, WaitLabels, OwnLabels, Labels, Calls, CountFollowsDepth, Uncounted
<1>4. OwnerIsWritten'
  BY DEF TypeOK, Placed, PlacedAt, Plain, WaitLabels, OwnLabels, Labels, Calls, CountFollowsDepth, Uncounted, OwnerIsWritten, Cleared
<1>5. HasLockTellsTruth'
  BY DEF TypeOK, Placed, PlacedAt, Plain, WaitLabels, OwnLabels, Labels, Calls, CountFollowsDepth, Uncounted, OwnerIsWritten, HasLockTellsTruth
<1>6. HeldIsCredited'
  BY DEF TypeOK, Placed, PlacedAt, Plain, WaitLabels, OwnLabels, Labels, Calls, HeldIsCredited, Uncredited
<1> QED
  BY <1>1, <1>2, <1>3, <1>4, <1>5, <1>6

LEMMA CountedInv ==
    ASSUME IInv, NEW t \in Threads, kind # "unthreadedMutex", Counted(t)
    PROVE  IInv'
<1> USE DEF Counted, Return, Goto, systemLock, IInv
<1>1. TypeOK'
  BY DEF TypeOK, Placed, PlacedAt, Plain, WaitLabels, OwnLabels, Labels, Calls, HeldIsCredited, Uncredited, CountFollowsDepth, Uncounted
<1>2. Placed'
  BY DEF TypeOK, Placed, PlacedAt, Plain, WaitLabels, OwnLabels, Labels, Calls, Users
<1>3. CountFollowsDepth'
  BY DEF TypeOK, Placed, PlacedAt, Plain, WaitLabels, OwnLabels, Labels, Calls, CountFollowsDepth, Uncounted
<1>4. OwnerIsWritten'
  BY DEF TypeOK, Placed, PlacedAt, Plain, WaitLabels, OwnLabels, Labels, Calls, CountFollowsDepth, Uncounted, OwnerIsWritten, Cleared
<1>5. HasLockTellsTruth'
  BY DEF TypeOK, Placed, PlacedAt, Plain, WaitLabels, OwnLabels, Labels, Calls, CountFollowsDepth, Uncounted, OwnerIsWritten, HasLockTellsTruth
<1>6. HeldIsCredited'
  BY DEF TypeOK, Placed, PlacedAt, Plain, WaitLabels, OwnLabels, Labels, Calls, HeldIsCredited, Uncredited
<1> QED
  BY <1>1, <1>2, <1>3, <1>4, <1>5, <1>6

LEMMA UncountInv ==
    ASSUME IInv, NEW t \in Threads, kind # "unthreadedMutex", ~Cleared, Count(t, "uncount", -1, "unlock")
    PROVE  IInv'
<1> USE DEF Count, To, Goto, systemLock, IInv
<1>1. TypeOK'
  BY DEF TypeOK, Placed, PlacedAt, Plain, WaitLabels, OwnLabels, Labels, Calls, HeldIsCredited, Uncredited, CountFollowsDepth, Uncounted
<1>2. Placed'
  BY DEF TypeOK, Placed, PlacedAt, Plain, WaitLabels, OwnLabels, Labels, Calls, Users
<1>3. CountFollowsDepth'
  BY DEF TypeOK, Placed, PlacedAt, Plain, WaitLabels, OwnLabels, Labels, Calls, CountFollowsDepth, Uncounted
<1>4. OwnerIsWritten'
  BY DEF TypeOK, Placed, PlacedAt, Plain, WaitLabels, OwnLabels, Labels, Calls, CountFollowsDepth, Uncounted, OwnerIsWritten, Cleared
<1>5. HasLockTellsTruth'
  BY DEF TypeOK, Placed, PlacedAt, Plain, WaitLabels, OwnLabels, Labels, Calls, CountFollowsDepth, Uncounted, OwnerIsWritten, HasLockTellsTruth
<1>6. HeldIsCredited'
  BY DEF TypeOK, Placed, PlacedAt, Plain, WaitLabels, OwnLabels, Labels, Calls, HeldIsCredited, Uncredited
<1> QED
  BY <1>1, <1>2, <1>3, <1>4, <1>5, <1>6

LEMMA UnthreadedInv ==
    ASSUME IInv, NEW t \in Threads, kind = "unthreadedMutex", t \in Users, UnthreadedLock(t) \/ UnthreadedUnlock(t)
    PROVE  IInv'
<1> USE DEF UnthreadedLock, UnthreadedUnlock, Return, Goto, systemLock, IInv
<1>0. Users = {t} /\ Users' = Users /\ owner \in {None, t}
  BY DEF TypeOK, Placed, PlacedAt, Users
<1>1. TypeOK'
  BY <1>0 DEF TypeOK, Placed, PlacedAt, Plain, WaitLabels, OwnLabels, Labels, Calls, HeldIsCredited, Uncredited, CountFollowsDepth, Uncounted
<1>2. Placed'
  BY <1>0 DEF TypeOK, Placed, PlacedAt, Plain, WaitLabels, OwnLabels, Labels, Calls
<1>3. CountFollowsDepth'
  BY <1>0 DEF TypeOK, Placed, PlacedAt, Plain, WaitLabels, OwnLabels, Labels, Calls, CountFollowsDepth, Uncounted
<1>4. OwnerIsWritten'
  BY <1>0 DEF TypeOK, Placed, PlacedAt, Plain, WaitLabels, OwnLabels, Labels, Calls, CountFollowsDepth, Uncounted, OwnerIsWritten, Cleared
<1>5. HasLockTellsTruth'
  BY <1>0 DEF TypeOK, Placed, PlacedAt, Plain, WaitLabels, OwnLabels, Labels, Calls, CountFollowsDepth, Uncounted, OwnerIsWritten, HasLockTellsTruth
<1>6. HeldIsCredited'
  BY <1>0 DEF TypeOK, Placed, PlacedAt, Plain, WaitLabels, OwnLabels, Labels, Calls, HeldIsCredited, Uncredited
<1> QED
  BY <1>1, <1>2, <1>3, <1>4, <1>5, <1>6

LEMMA CPP11FutexTryInv ==
    ASSUME IInv, NEW t \in Threads, kind = "cpp11Futex",
           \/ Count(t, "tryCount", 1, "tryId")
           \/ pc[t] = "tryId" /\ threadId' = t /\ Return(t, "locked") /\ UNCHANGED <<systemLock, lockCount>>
    PROVE  IInv'
<1> USE DEF Count, To, Return, Goto, systemLock, IInv
<1>1. TypeOK'
  BY DEF TypeOK, Placed, PlacedAt, Plain, WaitLabels, OwnLabels, Labels, Calls, HeldIsCredited, Uncredited, CountFollowsDepth, Uncounted
<1>2. Placed'
  BY DEF TypeOK, Placed, PlacedAt, Plain, WaitLabels, OwnLabels, Labels, Calls, Users
<1>3. CountFollowsDepth'
  BY DEF TypeOK, Placed, PlacedAt, Plain, WaitLabels, OwnLabels, Labels, Calls, CountFollowsDepth, Uncounted
<1>4. OwnerIsWritten'
  BY DEF TypeOK, Placed, PlacedAt, Plain, WaitLabels, OwnLabels, Labels, Calls, CountFollowsDepth, Uncounted, OwnerIsWritten, Cleared
<1>5. HasLockTellsTruth'
  BY DEF TypeOK, Placed, PlacedAt, Plain, WaitLabels, OwnLabels, Labels, Calls, CountFollowsDepth, Uncounted, OwnerIsWritten, HasLockTellsTruth
<1>6. HeldIsCredited'
  BY DEF TypeOK, Placed, PlacedAt, Plain, WaitLabels, OwnLabels, Labels, Calls, HeldIsCredited, Uncredited
<1> QED
  BY <1>1, <1>2, <1>3, <1>4, <1>5, <1>6

LEMMA CPP11FutexUnlockInv ==
    ASSUME IInv, NEW t \in Threads, kind = "cpp11Futex", CPP11FutexUnlock(t)
    PROVE  IInv'
<1> USE DEF CPP11FutexUnlock, Count, Record, SystemUnlock, To, Return, Goto, systemLock, IInv
<1>1. TypeOK'
  BY DEF TypeOK, Placed, PlacedAt, Plain, WaitLabels, OwnLabels, Labels, Calls, HeldIsCredited, Uncredited, CountFollowsDepth, Uncounted
<1>2. Placed'
  BY DEF TypeOK, Placed, PlacedAt, Plain, WaitLabels, OwnLabels, Labels, Calls, Users
<1>3. CountFollowsDepth'
  BY DEF TypeOK, Placed, PlacedAt, Plain, WaitLabels, OwnLabels, Labels, Calls, CountFollowsDepth, Uncounted
<1>4. OwnerIsWritten'
  BY DEF TypeOK, Placed, PlacedAt, Plain, WaitLabels, OwnLabels, Labels, Calls, CountFollowsDepth, Uncounted, OwnerIsWritten, Cleared
<1>5. HasLockTellsTruth'
  BY DEF TypeOK, Placed, PlacedAt, Plain, WaitLabels, OwnLabels, Labels, Calls, CountFollowsDepth, Uncounted, OwnerIsWritten, HasLockTellsTruth
<1>6. HeldIsCredited'
  BY DEF TypeOK, Placed, PlacedAt, Plain, WaitLabels, OwnLabels, Labels, Calls, HeldIsCredited, Uncredited
<1> QED
  BY <1>1, <1>2, <1>3, <1>4, <1>5, <1>6

LEMMA CriticalInv ==
    ASSUME IInv, NEW t \in Threads, kind = "criticalFutex", CriticalLock(t) \/ CriticalUnlock(t)
    PROVE  IInv'
<1> USE DEF CriticalLock, CriticalUnlock, SystemFails, Mine, Return, Goto, systemLock, IInv
<1>1. TypeOK'
  BY DEF TypeOK, Placed, PlacedAt, Plain, WaitLabels, OwnLabels, Labels, Calls, HeldIsCredited, Uncredited, CountFollowsDepth, Uncounted
<1>2. Placed'
  BY DEF TypeOK, Placed, PlacedAt, Plain, WaitLabels, OwnLabels, Labels, Calls, Users
<1>3. CountFollowsDepth'
  BY DEF TypeOK, Placed, PlacedAt, Plain, WaitLabels, OwnLabels, Labels, Calls, CountFollowsDepth, Uncounted
<1>4. OwnerIsWritten'
  BY DEF TypeOK, Placed, PlacedAt, Plain, WaitLabels, OwnLabels, Labels, Calls, CountFollowsDepth, Uncounted, OwnerIsWritten, Cleared
<1>5. HasLockTellsTruth'
  BY DEF TypeOK, Placed, PlacedAt, Plain, WaitLabels, OwnLabels, Labels, Calls, CountFollowsDepth, Uncounted, OwnerIsWritten, HasLockTellsTruth
<1>6. HeldIsCredited'
  BY DEF TypeOK, Placed, PlacedAt, Plain, WaitLabels, OwnLabels, Labels, Calls, HeldIsCredited, Uncredited
<1> QED
  BY <1>1, <1>2, <1>3, <1>4, <1>5, <1>6

LEMMA KettleSpinInv ==
    ASSUME IInv, NEW t \in Threads, kind = "kettleFutex",
           \/ /\ pc[t] = "lock"
              /\ spins' = [spins EXCEPT ![t] = SpinCount]
              /\ Goto(t, "spin")
              /\ UNCHANGED <<systemLock, lockCount, threadId, ret, held>>
           \/ /\ pc[t] = "spin"
              /\ spins' = [spins EXCEPT ![t] = @ - 1]
              /\ Goto(t, IF spins[t] = 1 THEN "block" ELSE "attempt")
              /\ UNCHANGED <<systemLock, lockCount, threadId, ret, held>>
           \/ pc[t] = "attempt" /\ ~Mine(t) /\ To(t, "spin") /\ UNCHANGED <<systemLock, lockCount, threadId>>
    PROVE  IInv'
<1> USE DEF To, Goto, Mine, systemLock, IInv
<1>1. TypeOK'
  BY DEF TypeOK, Placed, PlacedAt, Plain, WaitLabels, OwnLabels, Labels, Calls, HeldIsCredited, Uncredited, CountFollowsDepth, Uncounted
<1>2. Placed'
  BY DEF TypeOK, Placed, PlacedAt, Plain, WaitLabels, OwnLabels, Labels, Calls, Users
<1>3. CountFollowsDepth'
  BY DEF TypeOK, Placed, PlacedAt, Plain, WaitLabels, OwnLabels, Labels, Calls, CountFollowsDepth, Uncounted
<1>4. OwnerIsWritten'
  BY DEF TypeOK, Placed, PlacedAt, Plain, WaitLabels, OwnLabels, Labels, Calls, CountFollowsDepth, Uncounted, OwnerIsWritten, Cleared
<1>5. HasLockTellsTruth'
  BY DEF TypeOK, Placed, PlacedAt, Plain, WaitLabels, OwnLabels, Labels, Calls, CountFollowsDepth, Uncounted, OwnerIsWritten, HasLockTellsTruth
<1>6. HeldIsCredited'
  BY DEF TypeOK, Placed, PlacedAt, Plain, WaitLabels, OwnLabels, Labels, Calls, HeldIsCredited, Uncredited
<1> QED
  BY <1>1, <1>2, <1>3, <1>4, <1>5, <1>6

LEMMA SimulateInv ==
    ASSUME IInv, NEW t \in Threads, SimulateLock(t)
    PROVE  IInv'
<1> USE DEF SimulateLock, Forget, Count, Record, To, Return, Goto, systemLock, IInv
<1>1. TypeOK'
  BY DEF TypeOK, Placed, PlacedAt, Plain, WaitLabels, OwnLabels, Labels, Calls, HeldIsCredited, Uncredited, CountFollowsDepth, Uncounted
<1>2. Placed'
  BY DEF TypeOK, Placed, PlacedAt, Plain, WaitLabels, OwnLabels, Labels, Calls, Users
<1>3. CountFollowsDepth'
  BY DEF TypeOK, Placed, PlacedAt, Plain, WaitLabels, OwnLabels, Labels, Calls, CountFollowsDepth, Uncounted
<1>4. OwnerIsWritten'
  BY DEF TypeOK, Placed, PlacedAt, Plain, WaitLabels, OwnLabels, Labels, Calls, CountFollowsDepth, Uncounted, OwnerIsWritten, Cleared
<1>5. HasLockTellsTruth'
  BY DEF TypeOK, Placed, PlacedAt, Plain, WaitLabels, OwnLabels, Labels, Calls, CountFollowsDepth, Uncounted, OwnerIsWritten, HasLockTellsTruth
<1>6. HeldIsCredited'
  BY DEF TypeOK, Placed, PlacedAt, Plain, WaitLabels, OwnLabels, Labels, Calls, HeldIsCredited, Uncredited
<1> QED
  BY <1>1, <1>2, <1>3, <1>4, <1>5, <1>6

LEMMA SleepInv ==
    ASSUME IInv, NEW t \in Threads, pc[t] = "sleep", owner' = None, depth' = 0,
           To(t, "asleep"), UNCHANGED <<kind, lockCount, threadId>>
    PROVE  IInv'
<1> USE DEF To, Goto, systemLock, IInv
<1>1. TypeOK'
  BY DEF TypeOK, Placed, PlacedAt, Plain, WaitLabels, OwnLabels, Labels, Calls, HeldIsCredited, Uncredited, CountFollowsDepth, Uncounted
<1>2. Placed'
  BY DEF TypeOK, Placed, PlacedAt, Plain, WaitLabels, OwnLabels, Labels, Calls, Users
<1>3. CountFollowsDepth'
  BY DEF TypeOK, Placed, PlacedAt, Plain, WaitLabels, OwnLabels, Labels, Calls, CountFollowsDepth, Uncounted
<1>4. OwnerIsWritten'
  BY DEF TypeOK, Placed, PlacedAt, Plain, WaitLabels, OwnLabels, Labels, Calls, CountFollowsDepth, Uncounted, OwnerIsWritten, Cleared
<1>5. HasLockTellsTruth'
  BY DEF TypeOK, Placed, PlacedAt, Plain, WaitLabels, OwnLabels, Labels, Calls, CountFollowsDepth, Uncounted, OwnerIsWritten, HasLockTellsTruth
<1>6. HeldIsCredited'
  BY DEF TypeOK, Placed, PlacedAt, Plain, WaitLabels, OwnLabels, Labels, Calls, HeldIsCredited, Uncredited
<1> QED
  BY <1>1, <1>2, <1>3, <1>4, <1>5, <1>6

LEMMA HasLockInv ==
    ASSUME IInv, NEW t \in Threads, t \in Users, HasLock(t)
    PROVE  IInv'
<1> USE DEF HasLock, UnthreadedHasLock, AskCount, AskId, To, Return, Goto, systemLock, Users, IInv
<1>1. TypeOK'
  BY DEF TypeOK, Placed, PlacedAt, Plain, WaitLabels, OwnLabels, Labels, Calls, HeldIsCredited, Uncredited, CountFollowsDepth, Uncounted
<1>2. Placed'
  BY DEF TypeOK, Placed, PlacedAt, Plain, WaitLabels, OwnLabels, Labels, Calls, Users
<1>3. CountFollowsDepth'
  BY DEF TypeOK, Placed, PlacedAt, Plain, WaitLabels, OwnLabels, Labels, Calls, CountFollowsDepth, Uncounted
<1>4. OwnerIsWritten'
  BY DEF TypeOK, Placed, PlacedAt, Plain, WaitLabels, OwnLabels, Labels, Calls, CountFollowsDepth, Uncounted, OwnerIsWritten, Cleared
<1>5. HasLockTellsTruth'
  <2>1. pc[t] \in {"ask", "askId"} /\ UNCHANGED <<kind, owner, depth, lockCount, threadId>>
    OBVIOUS
  <2>2. owner = t => lockCount > 0
    BY <2>1 DEF TypeOK, CountFollowsDepth, Uncounted
  <2>3. CASE kind = "unthreadedMutex"
    <3>1. t = owner \/ owner = None
      BY <2>3 DEF TypeOK, Placed, PlacedAt, Users
    <3> QED
      BY <2>1, <2>2, <2>3, <3>1 DEF TypeOK, Placed, CountFollowsDepth, HasLockTellsTruth
  <2>4. CASE kind # "unthreadedMutex"
    BY <2>1, <2>2, <2>4 DEF TypeOK, Placed, OwnerIsWritten, HasLockTellsTruth
  <2> QED
    BY <2>3, <2>4
<1>6. HeldIsCredited'
  BY DEF TypeOK, Placed, PlacedAt, Plain, WaitLabels, OwnLabels, Labels, Calls, HeldIsCredited, Uncredited
<1> QED
  BY <1>1, <1>2, <1>3, <1>4, <1>5, <1>6

LEMMA CallInv ==
    ASSUME IInv, NEW t \in Threads, t \in Users, CallLock(t) \/ CallUnlock(t) \/ CallHasLock(t) \/ CallConditionWait(t)
    PROVE  IInv'
<1> USE DEF CallLock, CallUnlock, CallHasLock, CallConditionWait, Call, Undo, Goto, systemLock, IInv
<1>1. TypeOK'
  BY DEF TypeOK, Placed, PlacedAt, Plain, WaitLabels, OwnLabels, Labels, Calls, HeldIsCredited, Uncredited, CountFollowsDepth, Uncounted
<1>2. Placed'
  BY DEF TypeOK, Placed, PlacedAt, Plain, WaitLabels, OwnLabels, Labels, Calls, Users, HeldIsCredited, Uncredited
<1>3. CountFollowsDepth'
  BY DEF TypeOK, Placed, PlacedAt, Plain, WaitLabels, OwnLabels, Labels, Calls, HeldIsCredited, Uncredited, CountFollowsDepth, Uncounted
<1>4. OwnerIsWritten'
  BY DEF TypeOK, Placed, PlacedAt, Plain, WaitLabels, OwnLabels, Labels, Calls, HeldIsCredited, Uncredited, CountFollowsDepth, Uncounted, OwnerIsWritten, Cleared
<1>5. HasLockTellsTruth'
  BY DEF TypeOK, Placed, PlacedAt, Plain, WaitLabels, OwnLabels, Labels, Calls, HeldIsCredited, Uncredited, CountFollowsDepth, Uncounted, OwnerIsWritten, HasLockTellsTruth
<1>6. HeldIsCredited'
  BY DEF TypeOK, Placed, PlacedAt, Plain, WaitLabels, OwnLabels, Labels, Calls, HeldIsCredited, Uncredited
<1> QED
  BY <1>1, <1>2, <1>3, <1>4, <1>5, <1>6


-----------------------------------------------------------------------------
LEMMA MutexLockInv ==
    ASSUME IInv, NEW t \in Threads, NEW blocking, NEW trying,
           blocking \subseteq Calls, trying \subseteq Calls,
           kind # "unthreadedMutex", MutexLock(t, blocking, trying)
    PROVE  IInv'
BY SystemLockInv, SystemFailsInv, RecordIdInv, CountedInv DEF MutexLock, Calls

LEMMA MutexUnlockInv ==
    ASSUME IInv, NEW t \in Threads, kind # "unthreadedMutex", ~Cleared, MutexUnlock(t)
    PROVE  IInv'
BY UncountInv, SystemUnlockInv DEF MutexUnlock

LEMMA ConditionWaitInv ==
    ASSUME IInv, NEW t \in Threads, kind # "unthreadedMutex", ConditionWait(t)
    PROVE  IInv'
BY SimulateInv, SleepInv, SystemLockInv DEF ConditionWait

LEMMA StepInv ==
    ASSUME IInv, NEW t \in Users, Step(t)
    PROVE  IInv'
<1>0. t \in Threads
  BY DEF Users
<1>1. CASE kind \in {"unixMutex"} /\ (UnixLock(t) \/ UnixUnlock(t) \/ ConditionWait(t))
  BY <1>0, <1>1, MutexLockInv, MutexUnlockInv, ConditionWaitInv DEF UnixLock, UnixUnlock, Calls, Cleared
<1>2. CASE kind \in {"pcMutex", "pcSharedMutex"} /\ (PCLock(t) \/ PCUnlock(t))
  BY <1>0, <1>2, MutexLockInv, MutexUnlockInv DEF PCLock, PCUnlock, Calls, Cleared
<1>3. CASE kind = "kettleMutex" /\ (KettleLock(t) \/ KettleUnlock(t) \/ ConditionWait(t))
  BY <1>0, <1>3, MutexLockInv, MutexUnlockInv, ConditionWaitInv DEF KettleLock, KettleUnlock, Calls, Cleared
<1>4. CASE kind = "cpp11Mutex" /\ (CPP11Lock(t) \/ CPP11Unlock(t))
  BY <1>0, <1>4, MutexLockInv, MutexUnlockInv DEF CPP11Lock, CPP11Unlock, Calls, Cleared
<1>5. CASE kind = "unthreadedMutex" /\ (UnthreadedLock(t) \/ UnthreadedUnlock(t))
  BY <1>0, <1>5, UnthreadedInv
<1>6. CASE kind = "cpp11Futex" /\ (CPP11FutexLock(t) \/ CPP11FutexUnlock(t))
  BY <1>0, <1>6, MutexLockInv, SystemLockInv, SystemFailsInv, CPP11FutexTryInv, CPP11FutexUnlockInv
     DEF CPP11FutexLock, Calls, Cleared
<1>7. CASE kind = "criticalFutex" /\ (CriticalLock(t) \/ CriticalUnlock(t))
  BY <1>0, <1>7, CriticalInv
<1>8. CASE kind = "kettleFutex" /\ (KettleFutexLock(t) \/ KettleUnlock(t))
  BY <1>0, <1>8, KettleSpinInv, SystemLockInv, MutexLockInv, MutexUnlockInv
     DEF KettleFutexLock, KettleUnlock, Calls, Cleared
<1>9. CASE kind = "mutexFutex" /\ (MutexFutexLock(t) \/ MutexFutexUnlock(t))
  BY <1>0, <1>9, MutexLockInv, MutexUnlockInv
     DEF MutexFutexLock, MutexFutexUnlock, UnixLock, UnixUnlock, Calls, Cleared
<1>10. CASE HasLock(t)
  BY <1>0, <1>10, HasLockInv
<1> QED
  BY <1>1, <1>2, <1>3, <1>4, <1>5, <1>6, <1>7, <1>8, <1>9, <1>10 DEF Step
-----------------------------------------------------------------------------
LEMMA InitInv == Init => IInv
<1> SUFFICES ASSUME Init PROVE IInv
  OBVIOUS
<1> USE DEF Init
<1>1. owner = None /\ depth = 0 /\ lockCount = 0 /\ threadId = None
  BY DEF UnixMutexInit, PCMutexInit, KettleMutexInit, CPP11MutexInit, UnthreadedMutexInit, FutexInit,
     NewMutex
<1>2. TypeOK /\ CountFollowsDepth /\ OwnerIsWritten /\ HasLockTellsTruth /\ HeldIsCredited
  BY <1>1 DEF TypeOK, CountFollowsDepth, OwnerIsWritten, HasLockTellsTruth, HeldIsCredited
<1>3. Placed
  BY <1>1 DEF Placed, PlacedAt, Plain, WaitLabels, OwnLabels, Labels, Calls
<1> QED
  BY <1>2, <1>3 DEF IInv

\* The invariant that carries the others.
THEOREM MutexInvariance == Spec => []IInv
<1>1. ASSUME IInv, [Next]_mutexVars PROVE IInv'
  <2>1. CASE Next
    BY <1>1, <2>1, StepInv, CallInv DEF Next, Users
  <2>2. CASE UNCHANGED mutexVars
    BY <1>1, <2>2 DEF mutexVars, IInv, TypeOK, Placed, PlacedAt, Users, CountFollowsDepth, OwnerIsWritten,
       Cleared, HasLockTellsTruth, HeldIsCredited, Uncredited
  <2> QED
    BY <1>1, <2>1, <2>2
<1> QED
  BY InitInv, <1>1, PTL DEF Spec

\* Whichever platform's mutex or futex it is, mnLockCount is the number of its
\* owner's locks whenever the owner may read it, and HasLock, which reads the
\* count and the id without the lock, is right for the thread that asks.
THEOREM LocksAreTruthful == Spec => []LocksTellTheTruth
<1>1. IInv => LocksTellTheTruth
  BY DEF IInv, LocksTellTheTruth, CountIsTheOwners, CountFollowsDepth, Uncounted, TypeOK, Calls
<1> QED
  BY <1>1, MutexInvariance, PTL

\* Each of the six mutexes and four futexes is a recursive lock for its callers:
\* a call that returns with the lock returns to a thread that shares it with
\* nobody, whatever other calls are under way.  A wait for a condition gives up
\* its one lock, as Release does, and returns with it, as Acquire does.
THEOREM MutexRefinement == Spec => ImplementsRecursiveLock
<1>1. Init => RecursivePromise!Init
  BY DEF Init, RecursivePromise!Init
<1>2. ASSUME IInv, [Next]_mutexVars
      PROVE  [RecursivePromise!Next]_held
  <2>1. ASSUME NEW t \in Threads, owner' = t, IInv', held' = [held EXCEPT ![t] = @ + 1], held'[t] > 0,
               \A u \in Threads \ {t} : held'[u] = held[u]
        PROVE  RecursivePromise!Next
    <3>1. \A u \in Threads \ {t} : held'[u] = 0
      BY <2>1 DEF IInv, HeldIsCredited
    <3> QED
      BY <2>1, <3>1 DEF RecursivePromise!Next, RecursivePromise!Acquire
  <2>2. ASSUME NEW t \in Users, CallLock(t) \/ CallUnlock(t) \/ CallHasLock(t) \/ CallConditionWait(t)
        PROVE  [RecursivePromise!Next]_held
    BY <2>2 DEF CallLock, CallUnlock, CallHasLock, CallConditionWait, Undo, Users,
       RecursivePromise!Next, RecursivePromise!Release
  <2>3. ASSUME NEW t \in Users, Step(t), held' # held
        PROVE  RecursivePromise!Next
    <3>1. IInv' /\ t \in Threads
      BY <1>2, <2>3, StepInv DEF Users
    <3>2. held' = [held EXCEPT ![t] = @ + 1] /\ owner' = t
      <4>1. \/ Counted(t)
            \/ kind = "unthreadedMutex" /\ UnthreadedLock(t)
            \/ pc[t] \in {"tryId", "simulateId"} /\ Return(t, "locked") /\ UNCHANGED systemLock
            \/ CriticalLock(t)
        BY <2>3 DEF Step, UnixLock, UnixUnlock, PCLock, PCUnlock, KettleLock, KettleUnlock, CPP11Lock,
           CPP11Unlock, UnthreadedUnlock, CPP11FutexLock, CPP11FutexUnlock, CriticalUnlock, KettleFutexLock,
           MutexFutexLock, MutexFutexUnlock, MutexLock, MutexUnlock, ConditionWait, SimulateLock, Forget, HasLock,
           UnthreadedHasLock, AskCount, AskId, Record, Count, SystemLock, SystemFails, SystemUnlock, To, Return
      <4>2. pc[t] \in {"count", "tryId", "simulateId"} => owner = t
        BY <1>2, <3>1 DEF IInv, Placed, PlacedAt, OwnLabels, WaitLabels
      <4> QED
        BY <2>3, <4>1, <4>2 DEF Counted, UnthreadedLock, CriticalLock, SystemFails, Return, systemLock
    <3>3. held \in [Threads -> Nat] /\ held'[t] > 0 /\ \A u \in Threads \ {t} : held'[u] = held[u]
      BY <1>2, <3>1, <3>2 DEF IInv, TypeOK
    <3> QED
      BY <2>1, <3>1, <3>2, <3>3
  <2>4. CASE UNCHANGED mutexVars
    BY <2>4 DEF mutexVars
  <2> QED
    BY <1>2, <2>2, <2>3, <2>4 DEF Next
<1> QED
  BY <1>1, <1>2, MutexInvariance, PTL DEF Spec, RecursivePromise!Spec, ImplementsRecursiveLock

\* Lock(kTimeoutNone) is never refused, on every platform but that of the futex
\* of C++11, which makes one attempt and whose users must not call it.
THEOREM NoneMeansForever ==
    ASSUME "cpp11Futex" \notin NoneKinds PROVE Spec => NoneNeverTimesOut
<1> DEFINE NoneIsLegal == \A t \in Threads : pc[t] = "lockNone" => kind \in NoneKinds
<1>1. Init => NoneIsLegal
  BY DEF Init
<1>2. ASSUME IInv, NoneIsLegal, [Next]_mutexVars
      PROVE  /\ NoneIsLegal'
             /\ [\A t \in Threads : pc[t] = "lockNone" => ret'[t] # "timeout"]_mutexVars
  <2>1. CASE UNCHANGED mutexVars
    BY <1>2, <2>1 DEF mutexVars
  <2>2. ASSUME NEW t \in Users, CallLock(t) \/ CallUnlock(t) \/ CallHasLock(t) \/ CallConditionWait(t)
        PROVE  /\ NoneIsLegal'
               /\ \A u \in Threads : pc[u] = "lockNone" => ret'[u] # "timeout"
    BY <1>2, <2>2 DEF CallLock, CallUnlock, CallHasLock, CallConditionWait, Call, Undo, Goto, systemLock,
       IInv, TypeOK, Placed, PlacedAt
  <2>3. ASSUME NEW t \in Users, Step(t)
        PROVE  /\ NoneIsLegal'
               /\ \A u \in Threads : pc[u] = "lockNone" => ret'[u] # "timeout"
    <3> USE DEF Step, UnixLock, UnixUnlock, PCLock, PCUnlock, KettleLock, KettleUnlock, CPP11Lock, CPP11Unlock,
       UnthreadedLock, UnthreadedUnlock, CPP11FutexLock, CPP11FutexUnlock, CriticalLock, CriticalUnlock,
       KettleFutexLock, MutexFutexLock, MutexFutexUnlock, MutexLock, MutexUnlock, ConditionWait,
       SimulateLock, Forget, HasLock, UnthreadedHasLock, AskCount, AskId, SystemLock, SystemFails,
       SystemUnlock, Record, Count, Counted, To, Return, Goto, systemLock
    <3>1. kind' = kind /\ \E label : label # "lockNone" /\ pc' = [pc EXCEPT ![t] = label]
      BY <2>3
    <3>2. \A u \in Threads \ {t} : ret'[u] = ret[u]
      BY <1>2, <2>3 DEF IInv, TypeOK
    <3>3. ASSUME pc[t] = "lockNone" PROVE kind # "cpp11Futex" /\ ret[t] = "none"
      BY <1>2, <3>3 DEF IInv, Placed, PlacedAt, Users
    <3>4. pc[t] = "lockNone" => ret'[t] # "timeout"
      BY <1>2, <2>3, <3>3 DEF IInv, TypeOK
    <3> HIDE DEF Step
    <3> QED
      BY <1>2, <3>1, <3>2, <3>3, <3>4 DEF IInv, TypeOK, Placed, PlacedAt
  <2> QED
    BY <1>2, <2>1, <2>2, <2>3 DEF Next
<1> QED
  BY <1>1, <1>2, MutexInvariance, PTL DEF Spec, NoneNeverTimesOut
=============================================================================
