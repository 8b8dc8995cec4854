------------------------------- MODULE Futex -------------------------------
(***************************************************************************)
(* The hand-made futex of EAThread (EATHREAD_MANUAL_FUTEX_ENABLED, the     *)
(* default everywhere but on Microsoft and Sony): an atomic use count that *)
(* counts the owner's locks and everybody who is waiting, and a semaphore  *)
(* on which the last unlock passes the lock to one waiter.                 *)
(*                                                                         *)
(* A step is one access to mUseCount or to mSemaphore.  mThreadUniqueId    *)
(* and mRecursionCount are written by the owner only, and any other thread *)
(* compares mThreadUniqueId only with its own id, so their accesses are    *)
(* part of the neighbouring step.                                          *)
(***************************************************************************)
EXTENDS Integers, FiniteSets

CONSTANTS
    Threads,             \* The threads that share the futex.
    None,                \* kThreadUniqueIdInvalid.
    RecursionModulus,    \* mRecursionCount is a uint16_t: 2^16.
    MaxRecursion,        \* Bound: the deepest recursive lock a thread takes.
    SemaphoreMax,        \* The count at which the semaphore refuses signals.
    WaitHonoursTimeout,  \* Does WaitFSemaphore(timeout) ever time out?  TRUE
                         \* for the Apple, Sony and Windows versions, FALSE
                         \* for the Unix one (eathread_futex.cpp).
    TimeoutsRace         \* Do waits time out while the lock changes hands?  If
                         \* not, they do while it has an owner, and nobody calls
                         \* until who gave up has left mUseCount.

ASSUME ThreadsAssumption == IsFiniteSet(Threads) /\ None \notin Threads
ASSUME RecursionAssumption ==
    /\ MaxRecursion \in Nat \ {0}
    /\ RecursionModulus \in Nat \ {0, 1}
ASSUME SemaphoreAssumption == SemaphoreMax \in Nat \ {0}
ASSUME TimeoutAssumption == WaitHonoursTimeout \in BOOLEAN /\ TimeoutsRace \in BOOLEAN

VARIABLES
    mUseCount,
    mRecursionCount,
    mThreadUniqueId,
    mSemaphore,   \* The number of signals of the semaphore nobody consumed.
    pc,           \* Where each thread is in the member function it calls.
    held          \* The locks each thread took and did not undo: what its
                  \* caller believes.

vars == <<mUseCount, mRecursionCount, mThreadUniqueId, mSemaphore, pc, held>>

PcValues ==
    {"idle",      \* Not inside a member function.
     "spin",      \* In the spin loop of Lock.
     "wait",      \* In WaitFSemaphore().
     "timedWait", \* In WaitFSemaphore(timeoutAbsolute).
     "expired",   \* That wait returned false; --mUseCount comes next.
     "acquired",  \* Owns the lock; OnLockAcquired comes next.
     "release",   \* Unlock undid the last lock; --mUseCount comes next.
     "signal"}    \* Unlock saw waiters; SignalFSemaphore comes next.

TypeOK ==
    /\ mUseCount \in Nat
    /\ mRecursionCount \in 0 .. RecursionModulus - 1
    /\ mThreadUniqueId \in Threads \cup {None}
    /\ mSemaphore \in 0 .. SemaphoreMax
    /\ pc \in [Threads -> PcValues]
    /\ held \in [Threads -> 0 .. MaxRecursion]

Init ==
    /\ mUseCount = 0
    /\ mRecursionCount = 0
    /\ mThreadUniqueId = None
    /\ mSemaphore = 0
    /\ pc = [t \in Threads |-> "idle"]
    /\ held = [t \in Threads |-> 0]

Goto(t, label) == pc' = [pc EXCEPT ![t] = label]
At(labels) == {t \in Threads : pc[t] \in labels}

-----------------------------------------------------------------------------
(* Taking the lock.                                                        *)

\* The compare-and-swap 0 -> 1 of mUseCount succeeds.
Swap(t) ==
    /\ mUseCount = 0
    /\ mUseCount' = 1
    /\ Goto(t, "acquired")
    /\ UNCHANGED <<mRecursionCount, mThreadUniqueId, mSemaphore, held>>

\* The caller already owns the lock: one more use, one more recursion.
Recurse(t) ==
    /\ mUseCount > 0
    /\ mThreadUniqueId = t
    /\ mUseCount' = mUseCount + 1
    /\ mRecursionCount' = (mRecursionCount + 1) % RecursionModulus
    /\ held' = [held EXCEPT ![t] = @ + 1]
    /\ Goto(t, "idle")
    /\ UNCHANGED <<mThreadUniqueId, mSemaphore>>

\* ++mUseCount > 1 and somebody else owns the lock: wait for a signal.
Queue(t, label) ==
    /\ mUseCount > 0
    /\ mThreadUniqueId # t
    /\ mUseCount' = mUseCount + 1
    /\ Goto(t, label)
    /\ UNCHANGED <<mRecursionCount, mThreadUniqueId, mSemaphore, held>>

TryLock(t) ==
    /\ pc[t] = "idle"
    /\ held[t] < MaxRecursion
    /\ \/ Swap(t)
       \/ Recurse(t)
       \/ /\ mUseCount > 0
          /\ mThreadUniqueId # t      \* Returns false.
          /\ UNCHANGED vars

\* ++mUseCount without spinning, and with a first lock Swap's effect.
Lock(t) ==
    /\ pc[t] \in {"idle", "spin"}
    /\ held[t] < MaxRecursion
    /\ Swap(t) \/ Recurse(t) \/ Queue(t, "wait")

\* The first compare-and-swap of Lock failed and mSpinCount is not zero.  The
\* loop leaves by a Swap or, any time, by the ++mUseCount of Lock: its length
\* is SetSpinCount's, and it may also break off because there are waiters.
SpinLock(t) ==
    /\ pc[t] = "idle"
    /\ held[t] < MaxRecursion
    /\ mUseCount > 0
    /\ mThreadUniqueId # t
    /\ Goto(t, "spin")
    /\ UNCHANGED <<mUseCount, mRecursionCount, mThreadUniqueId, mSemaphore, held>>

\* Lock(timeoutAbsolute) with a real time: kTimeoutNone is Lock and
\* kTimeoutImmediate is TryLock.
LockTimed(t) ==
    /\ pc[t] = "idle"
    /\ held[t] < MaxRecursion
    /\ Swap(t) \/ Recurse(t) \/ Queue(t, "timedWait")

\* Mutant of WaitFSemaphore: an interrupted wait (EINTR) is not retried.
WaitNotRetried(t) ==
    /\ pc[t] \in {"wait", "timedWait"}
    /\ Goto(t, "acquired")
    /\ UNCHANGED <<mUseCount, mRecursionCount, mThreadUniqueId, mSemaphore, held>>

WaitFSemaphore(t) ==
    /\ pc[t] \in {"wait", "timedWait"}
    /\ mSemaphore > 0
    /\ mSemaphore' = mSemaphore - 1
    /\ Goto(t, "acquired")
    /\ UNCHANGED <<mUseCount, mRecursionCount, mThreadUniqueId, held>>

WaitTimeout(t) ==
    /\ WaitHonoursTimeout
    /\ pc[t] = "timedWait"
    /\ TimeoutsRace \/ mThreadUniqueId # None
    /\ Goto(t, "expired")
    /\ UNCHANGED <<mUseCount, mRecursionCount, mThreadUniqueId, mSemaphore, held>>

\* Mutant: the thread that gave up still counts as one that waits.
LockTimedFailsCounted(t) ==
    /\ pc[t] = "expired"
    /\ Goto(t, "idle")
    /\ UNCHANGED <<mUseCount, mRecursionCount, mThreadUniqueId, mSemaphore, held>>

\* --mUseCount; return kResultTimeout.
LockTimedFails(t) ==
    /\ pc[t] = "expired"
    /\ mUseCount' = mUseCount - 1
    /\ Goto(t, "idle")
    /\ UNCHANGED <<mRecursionCount, mThreadUniqueId, mSemaphore, held>>

OnLockAcquired(t) ==
    /\ pc[t] = "acquired"
    /\ mThreadUniqueId' = t
    /\ mRecursionCount' = 1
    /\ held' = [held EXCEPT ![t] = @ + 1]
    /\ Goto(t, "idle")
    /\ UNCHANGED <<mUseCount, mSemaphore>>

-----------------------------------------------------------------------------
(* Undoing a lock.                                                         *)

\* Mutant of Unlock: the last unlock leaves its thread id in place.
UnlockKeepsId(t) ==
    /\ pc[t] = "idle"
    /\ held[t] > 0
    /\ held' = [held EXCEPT ![t] = @ - 1]
    /\ mRecursionCount' = (mRecursionCount + RecursionModulus - 1) % RecursionModulus
    /\ IF mRecursionCount' = 0
       THEN Goto(t, "release") /\ UNCHANGED mUseCount
       ELSE mUseCount' = mUseCount - 1 /\ UNCHANGED pc
    /\ UNCHANGED <<mSemaphore, mThreadUniqueId>>

Unlock(t) ==
    /\ pc[t] = "idle"
    /\ held[t] > 0
    /\ held' = [held EXCEPT ![t] = @ - 1]
    /\ mRecursionCount' = (mRecursionCount + RecursionModulus - 1) % RecursionModulus
    /\ IF mRecursionCount' = 0
       THEN /\ mThreadUniqueId' = None
            /\ Goto(t, "release")
            /\ UNCHANGED mUseCount
       ELSE /\ mUseCount' = mUseCount - 1
            /\ UNCHANGED <<mThreadUniqueId, pc>>
    /\ UNCHANGED mSemaphore

\* Mutants of Release: it signals whether or not there are waiters, or misses
\* the last waiter.
ReleaseAlwaysSignals(t) ==
    /\ pc[t] = "release"
    /\ mUseCount' = mUseCount - 1
    /\ Goto(t, "signal")
    /\ UNCHANGED <<mRecursionCount, mThreadUniqueId, mSemaphore, held>>

ReleaseMissesLastWaiter(t) ==
    /\ pc[t] = "release"
    /\ mUseCount' = mUseCount - 1
    /\ Goto(t, IF mUseCount' > 1 THEN "signal" ELSE "idle")
    /\ UNCHANGED <<mRecursionCount, mThreadUniqueId, mSemaphore, held>>

\* --mUseCount > 0 decides whether somebody has to be woken.
Release(t) ==
    /\ pc[t] = "release"
    /\ mUseCount' = mUseCount - 1
    /\ Goto(t, IF mUseCount' > 0 THEN "signal" ELSE "idle")
    /\ UNCHANGED <<mRecursionCount, mThreadUniqueId, mSemaphore, held>>

SignalFSemaphore(t) ==
    /\ pc[t] = "signal"
    /\ mSemaphore' = IF mSemaphore < SemaphoreMax THEN mSemaphore + 1 ELSE mSemaphore
    /\ Goto(t, "idle")
    /\ UNCHANGED <<mUseCount, mRecursionCount, mThreadUniqueId, held>>

-----------------------------------------------------------------------------
\* The steps a thread inside a member function takes on its own.
Step(t) ==
    \/ WaitFSemaphore(t) \/ WaitTimeout(t) \/ LockTimedFails(t)
    \/ OnLockAcquired(t) \/ Release(t) \/ SignalFSemaphore(t)
    \/ (pc[t] = "spin" /\ Lock(t))

\* The calls a thread's program makes.
Call(t) == TryLock(t) \/ Lock(t) \/ SpinLock(t) \/ LockTimed(t) \/ Unlock(t)

MayCall == TimeoutsRace \/ At({"expired"}) = {}

Next == \E t \in Threads : Step(t) \/ (MayCall /\ Call(t))

Spec == Init /\ [][Next]_vars

\* The scheduler runs every thread that can run: a thread that is inside a
\* member function and not blocked makes progress.
Scheduled == \A t \in Threads : WF_vars(Step(t))

\* Nothing in the code forces an owner to unlock; a program that never keeps
\* the lock for good undoes, sooner or later, every lock it has.
OwnersUnlock ==
    \A t \in Threads, n \in 1 .. MaxRecursion : SF_vars(held[t] = n /\ MayCall /\ Unlock(t))

FairSpec == Spec /\ Scheduled
LiveSpec == FairSpec /\ OwnersUnlock

-----------------------------------------------------------------------------
(* Properties.                                                             *)

\* No two threads hold the futex at once (Lock blocks "until the futex is
\* unlocked", eathread_futex.h:206).
MutualExclusion ==
    \A t, u \in Threads : held[t] > 0 /\ held[u] > 0 => t = u

\* HasLock and GetLockCount tell an owner the truth: the thread id in the
\* futex is the holder's, never one that left or has yet to arrive, and the
\* recursion count is the number of unlocks it owes.
OwnerIsRecorded ==
    \A t \in Threads :
        /\ mThreadUniqueId = t <=> held[t] > 0
        /\ held[t] > 0 => mRecursionCount = held[t]

CountedLabels == {"wait", "timedWait", "expired", "acquired", "release"}
Counted == At(CountedLabels)

\* mUseCount is the owner's locks plus the threads that are on their way in
\* or out: it falls to zero, and the destructor's assertion on it
\* (eathread_futex.h:397) holds, exactly when the futex is not in use.
UseCountIsExact == mUseCount = mRecursionCount + Cardinality(Counted)

MoverLabels == {"acquired", "release", "signal"}
Movers == At(MoverLabels)
Owned == IF mThreadUniqueId = None THEN 0 ELSE 1

\* The lock is a baton.  While the futex is in use exactly one of these has
\* it: the owner, one thread taking or leaving it, or the semaphore.  So a
\* signal never outlives the waiter it was meant for, and is never missing.
OneBaton ==
    Owned + Cardinality(Movers) + mSemaphore = IF mUseCount > 0 THEN 1 ELSE 0

\* The futex is a recursive lock: steps of the abstract lock, or steps that
\* change nobody's holds.
Abstract == INSTANCE RecursiveLock
ImplementsRecursiveLock == Abstract!Spec

\* A thread that waits without a timeout is not forgotten: if owners unlock,
\* the lock goes on to some waiter (the signal of Unlock is never lost).
WaitersAreServed ==
    (\E t \in Threads : pc[t] = "wait") ~> (\E t \in Threads : pc[t] = "acquired")
=============================================================================
