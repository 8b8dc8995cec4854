-------------------------- MODULE RecursiveMutexes --------------------------
(***************************************************************************)
(* Class Mutex on its platforms, and the versions of class Futex that are  *)
(* made of a lock of the system (Futex is the one that is not).  Each adds *)
(* to a recursive lock of the system a count of its locks and, where       *)
(* assertions are enabled, the id of the thread that has it, which HasLock *)
(* reads without the lock.                                                 *)
(***************************************************************************)
EXTENDS Integers, FiniteSets

CONSTANTS
    Threads,
    None,
    MutexKinds,      \* The platforms, one of which is picked initially.
    MaxRecursion,    \* Bound: the most locks a thread has.
    SpinCount,       \* EATHREAD_FUTEX_SPIN_COUNT, of the Kettle futex.
    WaitKinds,       \* MutexKinds whose users wait for conditions.
    NoneKinds        \* MutexKinds of which users call Lock(kTimeoutNone).

ASSUME RecursiveMutexesAssumption ==
    /\ None \notin Threads /\ IsFiniteSet(Threads) /\ Threads # {}
    /\ MaxRecursion \in Nat \ {0} /\ SpinCount \in Nat \ {0}
    /\ WaitKinds \subseteq {"unixMutex", "kettleMutex"}

VARIABLES
    kind,
    pc,
    owner,      \* The thread that has the system's lock, and
    depth,      \* how often.
    lockCount,  \* mnLockCount.
    threadId,   \* mThreadId, mLockingThread.
    spins,      \* The attempts a Kettle futex makes before it waits, plus one.
    ret,        \* What the thread's last call returned.
    held        \* The locks each thread was given and has to undo: what its
                \* caller believes, from what the calls returned.

mutexVars == <<kind, pc, owner, depth, lockCount, threadId, spins, ret, held>>
systemLock == <<kind, owner, depth>>

Goto(t, label) == pc' = [pc EXCEPT ![t] = label]
To(t, label) == Goto(t, label) /\ UNCHANGED <<spins, ret, held>>
Return(t, result) ==
    /\ Goto(t, "idle") /\ ret' = [ret EXCEPT ![t] = result] /\ UNCHANGED spins
    /\ held' = IF result = "locked" THEN [held EXCEPT ![t] = @ + 1] ELSE held

Users == IF kind = "unthreadedMutex" THEN {CHOOSE t \in Threads : TRUE} ELSE Threads

NewMutex == owner = None /\ depth = 0 /\ lockCount = 0 /\ threadId = None
UnixMutexInit == kind = "unixMutex" /\ NewMutex
PCMutexInit == kind \in {"pcMutex", "pcSharedMutex"} /\ NewMutex
KettleMutexInit == kind = "kettleMutex" /\ NewMutex
CPP11MutexInit == kind = "cpp11Mutex" /\ NewMutex
UnthreadedMutexInit == kind = "unthreadedMutex" /\ NewMutex
FutexInit == kind \in {"cpp11Futex", "criticalFutex", "kettleFutex", "mutexFutex"} /\ NewMutex

Init ==
    /\ kind \in MutexKinds
    /\ UnixMutexInit \/ PCMutexInit \/ KettleMutexInit \/ CPP11MutexInit \/ UnthreadedMutexInit \/ FutexInit
    /\ pc = [t \in Threads |-> "idle"]
    /\ spins = [t \in Threads |-> 0]
    /\ ret = [t \in Threads |-> "none"]
    /\ held = [t \in Threads |-> 0]

-----------------------------------------------------------------------------
(* The lock of the system.                                                 *)

Mine(t) == owner \in {None, t}

SystemLock(t, from, to) ==
    /\ pc[t] \in from /\ Mine(t)
    /\ owner' = t /\ depth' = depth + 1
    /\ To(t, to)
    /\ UNCHANGED <<kind, lockCount, threadId>>

\* An attempt fails, or a wait times out.
SystemFails(t, from) ==
    /\ pc[t] \in from /\ ~Mine(t)
    /\ Return(t, "timeout")
    /\ UNCHANGED <<systemLock, lockCount, threadId>>

SystemUnlock(t) ==
    /\ pc[t] = "unlock"
    /\ depth' = depth - 1 /\ owner' = IF depth = 1 THEN None ELSE t
    /\ Return(t, "unlocked")
    /\ UNCHANGED <<kind, lockCount, threadId>>

-----------------------------------------------------------------------------
(* What the classes write with the lock: each line a step.                 *)

Record(t, from, id, to) ==
    /\ pc[t] = from
    /\ threadId' = id
    /\ To(t, to)
    /\ UNCHANGED <<systemLock, lockCount>>

Count(t, from, n, to) ==
    /\ pc[t] = from
    /\ lockCount' = lockCount + n
    /\ To(t, to)
    /\ UNCHANGED <<systemLock, threadId>>

\* The end of Lock: its result is the count.
Counted(t) ==
    /\ pc[t] = "count"
    /\ lockCount' = lockCount + 1
    /\ Return(t, "locked")
    /\ UNCHANGED <<systemLock, threadId>>

\* Lock, of a class that gets the system's lock from these labels.
MutexLock(t, blocking, trying) ==
    \/ SystemLock(t, blocking \cup trying, "id")
    \/ SystemFails(t, trying)
    \/ Record(t, "id", t, "count")
    \/ Counted(t)

MutexUnlock(t) == Count(t, "uncount", -1, "unlock") \/ SystemUnlock(t)

\* Mutant: the result of pthread_mutex_timedlock is not looked at.
UnixLockUnchecked(t) ==
    \/ MutexLock(t, {"lock", "lockNone"}, {"lockTry", "lockTimed"})
    \/ pc[t] = "lockTimed" /\ ~Mine(t) /\ To(t, "id") /\ UNCHANGED <<systemLock, lockCount, threadId>>
UnixLock(t) == MutexLock(t, {"lock", "lockNone"}, {"lockTry", "lockTimed"})
UnixUnlock(t) == MutexUnlock(t)
\* Mutant: every Lock makes one attempt, as Lock(kTimeoutNone) of the C++11 futex.
PCLockOnce(t) == MutexLock(t, {}, {"lock", "lockNone", "lockTry", "lockTimed"})
PCLock(t) == MutexLock(t, {"lock", "lockNone"}, {"lockTry", "lockTimed"})
PCUnlock(t) == MutexUnlock(t)
KettleLock(t) == MutexLock(t, {"lock", "lockNone"}, {"lockTry", "lockTimed"})
KettleUnlock(t) == MutexUnlock(t)
CPP11Lock(t) == MutexLock(t, {"lock", "lockNone"}, {"lockTry", "lockTimed"})
CPP11Unlock(t) == MutexUnlock(t)

\* No system's lock: the owner is the only thread.
UnthreadedLock(t) ==
    /\ pc[t] \in {"lock", "lockNone", "lockTry", "lockTimed"}
    /\ owner' = t /\ depth' = depth + 1 /\ lockCount' = lockCount + 1
    /\ Return(t, "locked")
    /\ UNCHANGED <<kind, threadId>>
UnthreadedUnlock(t) ==
    /\ pc[t] = "uncount"
    /\ lockCount' = lockCount - 1
    /\ depth' = depth - 1 /\ owner' = IF depth = 1 THEN None ELSE t
    /\ Return(t, "unlocked")
    /\ UNCHANGED <<kind, threadId>>

\* A futex of C++11: TryLock counts before it records the thread, and
\* Lock(kTimeoutNone) makes one attempt.
CPP11FutexLock(t) ==
    \/ SystemLock(t, {"lockTry"}, "tryCount") \/ SystemFails(t, {"lockTry"})
    \/ Count(t, "tryCount", 1, "tryId")
    \/ pc[t] = "tryId" /\ threadId' = t /\ Return(t, "locked") /\ UNCHANGED <<systemLock, lockCount>>
    \/ MutexLock(t, {"lock"}, {"lockNone", "lockTimed"})
CPP11FutexUnlock(t) ==
    \/ Count(t, "uncount", -1, "clear")
    \/ Record(t, "clear", IF lockCount = 0 THEN None ELSE threadId, "unlock")
    \/ SystemUnlock(t)

\* A CRITICAL_SECTION has the count and the thread in it.
CriticalLock(t) ==
    \/ /\ pc[t] \in {"lock", "lockNone", "lockTry", "lockTimed"} /\ Mine(t)
       /\ owner' = t /\ depth' = depth + 1 /\ lockCount' = depth' /\ threadId' = t
       /\ Return(t, "locked") /\ UNCHANGED kind
    \/ SystemFails(t, {"lockTry", "lockTimed"})
CriticalUnlock(t) ==
    /\ pc[t] = "uncount"
    /\ depth' = depth - 1 /\ owner' = IF depth = 1 THEN None ELSE t
    /\ lockCount' = depth' /\ threadId' = owner'
    /\ Return(t, "unlocked") /\ UNCHANGED kind

\* The Kettle futex tries SpinCount - 1 times to lock its mutex; then it waits.
KettleFutexLock(t) ==
    \/ /\ pc[t] = "lock"
       /\ spins' = [spins EXCEPT ![t] = SpinCount]
       /\ Goto(t, "spin")
       /\ UNCHANGED <<systemLock, lockCount, threadId, ret, held>>
    \/ /\ pc[t] = "spin"
       /\ spins' = [spins EXCEPT ![t] = @ - 1]
       /\ Goto(t, IF spins[t] = 1 THEN "block" ELSE "attempt")
       /\ UNCHANGED <<systemLock, lockCount, threadId, ret, held>>
    \/ SystemLock(t, {"attempt"}, "id")
    \/ pc[t] = "attempt" /\ ~Mine(t) /\ To(t, "spin") /\ UNCHANGED <<systemLock, lockCount, threadId>>
    \/ MutexLock(t, {"block", "lockNone"}, {"lockTry", "lockTimed"})

MutexFutexLock(t) == UnixLock(t)
MutexFutexUnlock(t) == UnixUnlock(t)

-----------------------------------------------------------------------------
(* A wait for a condition gives the system's lock up; SimulateLock keeps   *)
(* the count and the id.                                                   *)

Forget(t) == Record(t, "forget", None, "sleep")

SimulateLock(t) ==
    \/ Count(t, "simulateUnlock", -1, "forget") \/ Forget(t)
    \/ Count(t, "simulateLock", 1, "simulateId")
    \/ /\ pc[t] = "simulateId"
       /\ threadId' = t /\ Return(t, "locked") /\ UNCHANGED <<systemLock, lockCount>>

ConditionWait(t) ==
    \/ SimulateLock(t)
    \/ /\ pc[t] = "sleep"
       /\ owner' = None /\ depth' = 0
       /\ To(t, "asleep") /\ UNCHANGED <<kind, lockCount, threadId>>
    \/ SystemLock(t, {"asleep"}, "simulateLock")

-----------------------------------------------------------------------------
(* HasLock, where assertions are enabled: the count first, then the id.    *)

\* Mutant: the count alone decides, as in a release build.
AskIdNot(t) ==
    /\ pc[t] = "askId"
    /\ Return(t, "has")
    /\ UNCHANGED <<systemLock, lockCount, threadId>>

AskCount(t) ==
    /\ pc[t] = "ask"
    /\ IF lockCount > 0 THEN To(t, "askId") ELSE Return(t, "hasNot")
    /\ UNCHANGED <<systemLock, lockCount, threadId>>

AskId(t) ==
    /\ pc[t] = "askId"
    /\ Return(t, IF threadId = t THEN "has" ELSE "hasNot")
    /\ UNCHANGED <<systemLock, lockCount, threadId>>

\* Without threads there is no id.
UnthreadedHasLock(t) ==
    /\ pc[t] = "ask"
    /\ Return(t, IF lockCount > 0 THEN "has" ELSE "hasNot")
    /\ UNCHANGED <<systemLock, lockCount, threadId>>

HasLock(t) == IF kind = "unthreadedMutex" THEN UnthreadedHasLock(t) ELSE AskCount(t) \/ AskId(t)

-----------------------------------------------------------------------------
Call(t, label) ==
    /\ pc[t] = "idle"
    /\ Goto(t, label) /\ ret' = [ret EXCEPT ![t] = "none"]
    /\ UNCHANGED <<systemLock, lockCount, threadId, spins>>
Undo(t) == held[t] > 0 /\ held' = [held EXCEPT ![t] = @ - 1]

CallLock(t) ==
    /\ held[t] < MaxRecursion /\ UNCHANGED held
    /\ \E label \in {"lock", "lockTry", "lockTimed"} \cup (IF kind \in NoneKinds THEN {"lockNone"} ELSE {}) :
            Call(t, label)
CallUnlock(t) == Undo(t) /\ Call(t, "uncount")
\* A CRITICAL_SECTION knows its thread.
CallHasLock(t) == Call(t, IF kind = "criticalFutex" THEN "askId" ELSE "ask") /\ UNCHANGED held
\* A condition gives up one lock: it is the thread's only one.
CallConditionWait(t) == kind \in WaitKinds /\ held[t] = 1 /\ Undo(t) /\ Call(t, "simulateUnlock")

Step(t) ==
    \/ kind \in {"unixMutex"} /\ (UnixLock(t) \/ UnixUnlock(t) \/ ConditionWait(t))
    \/ kind \in {"pcMutex", "pcSharedMutex"} /\ (PCLock(t) \/ PCUnlock(t))
    \/ kind = "kettleMutex" /\ (KettleLock(t) \/ KettleUnlock(t) \/ ConditionWait(t))
    \/ kind = "cpp11Mutex" /\ (CPP11Lock(t) \/ CPP11Unlock(t))
    \/ kind = "unthreadedMutex" /\ (UnthreadedLock(t) \/ UnthreadedUnlock(t))
    \/ kind = "cpp11Futex" /\ (CPP11FutexLock(t) \/ CPP11FutexUnlock(t))
    \/ kind = "criticalFutex" /\ (CriticalLock(t) \/ CriticalUnlock(t))
    \/ kind = "kettleFutex" /\ (KettleFutexLock(t) \/ KettleUnlock(t))
    \/ kind = "mutexFutex" /\ (MutexFutexLock(t) \/ MutexFutexUnlock(t))
    \/ HasLock(t)

Next ==
    \E t \in Users : CallLock(t) \/ CallUnlock(t) \/ CallHasLock(t) \/ CallConditionWait(t) \/ Step(t)

Spec == Init /\ [][Next]_mutexVars

\* The scheduler runs threads, and a lock that is free again and again does not
\* pass a thread over for ever.
FairSpec == Spec /\ \A t \in Threads : SF_mutexVars(Step(t))

-----------------------------------------------------------------------------
(* Properties.                                                             *)

Calls == {"lock", "lockNone", "lockTry", "lockTimed", "spin", "attempt", "block"}

TypeOK ==
    /\ kind \in MutexKinds /\ owner \in Threads \cup {None} /\ threadId \in Threads \cup {None}
    /\ depth \in 0 .. MaxRecursion /\ (owner = None <=> depth = 0)
    /\ lockCount \in 0 .. MaxRecursion
    /\ spins \in [Threads -> 0 .. SpinCount]
    /\ ret \in [Threads -> {"none", "locked", "unlocked", "timeout", "has", "hasNot"}]
    /\ held \in [Threads -> 0 .. MaxRecursion]

\* A thread that has the lock reads its own count: GetLockCount, and what Lock and
\* Unlock return, is the number of its locks, and a lock that nobody has says 0.
CountIsTheOwners ==
    IF owner = None THEN lockCount = 0
    ELSE pc[owner] \in {"idle"} \cup Calls => lockCount = depth

\* HasLock is right for the thread that asks, whatever others do meanwhile (but
\* see SimulateLock).
HasLockTellsTruth ==
    kind \notin WaitKinds => \A t \in Threads :
        (ret[t] = "has" => owner = t) /\ (ret[t] = "hasNot" => owner # t)

\* Each version implements the abstract lock, for callers who take what Lock,
\* Unlock and a condition's Wait return for the truth: a lock is reported as
\* taken only to a thread that shares it with nobody.
RecursivePromise == INSTANCE RecursiveLock
ImplementsRecursiveLock == RecursivePromise!Spec

\* Lock without a time never reports a timeout.
NoneNeverTimesOut == [][\A t \in Threads : pc[t] = "lockNone" => ret'[t] # "timeout"]_mutexVars

\* An attempt, or a lock with a timeout, returns whatever the owner does.
TimedLocksReturn ==
    \A t \in Threads : pc[t] \in {"lockTry", "lockTimed"} ~> pc[t] = "idle"

\* A thread gets the lock if all give it up again and again.
LocksAreGranted == \A t \in Threads :
    (\A u \in Threads \ {t} : []<>(owner # u)) => (pc[t] = "lock" ~> owner = t)

\* mnLockCount is the number of the owner's locks, and HasLock, which reads the
\* count and the id without the lock, tells every thread whether it has it.
LocksTellTheTruth == TypeOK /\ CountIsTheOwners /\ HasLockTellsTruth

\* Every call of Lock ends as it should: without a timeout it is never refused,
\* with one it returns, and who waits for a lock that all give up again and
\* again gets it.
LocksReturn == NoneNeverTimesOut /\ TimedLocksReturn /\ LocksAreGranted
=============================================================================
