-------------------------- MODULE MCReadWriteLocks --------------------------
(***************************************************************************)
(* The locks for readers and writers, one of which is picked initially.    *)
(* They share their variables, so they share their properties.  The names  *)
(* without a prefix are those of RWSpinLock.                               *)
(***************************************************************************)
EXTENDS RWSpinLock, TLC

CONSTANTS Kinds, TimedLocks, SemaphoreMax

ASSUME SemaphoreAssumption == SemaphoreMax \in Nat
ASSUME KindsAssumption ==
    Kinds \subseteq {"SpinLock", "RWSpinLock", "RWSpinLockW", "RWSemaLock", "RWMutex", "RWMutexIP"}

VARIABLE kind      \* The class of the lock.

S == INSTANCE SpinLock
W == INSTANCE RWSpinLockW
Q == INSTANCE RWSemaLock
M == INSTANCE RWMutex
P == INSTANCE RWMutexIP

AnyInit ==
    /\ kind \in Kinds
    /\ CASE kind = "SpinLock" -> S!Init
         [] kind = "RWSpinLock" -> Init
         [] kind = "RWSpinLockW" -> W!Init
         [] kind = "RWSemaLock" -> Q!Init
         [] kind = "RWMutex" -> M!Init
         [] kind = "RWMutexIP" -> P!Init

AnyNext ==
    /\ UNCHANGED kind
    /\ \/ kind = "SpinLock" /\ S!Next
       \/ kind = "RWSpinLock" /\ Next
       \/ kind = "RWSpinLockW" /\ W!Next
       \/ kind = "RWSemaLock" /\ Q!Next
       \/ kind = "RWMutex" /\ M!Next
       \/ kind = "RWMutexIP" /\ P!Next

allVars == <<lockVars, kind>>
AnySpec == AnyInit /\ [][AnyNext]_allVars

AnyStep(t) ==
    /\ UNCHANGED kind
    /\ \/ kind = "SpinLock" /\ S!Step(t)
       \/ kind = "RWSpinLock" /\ Step(t)
       \/ kind = "RWSpinLockW" /\ W!Step(t)
       \/ kind = "RWSemaLock" /\ Q!Step(t)
       \/ kind = "RWMutex" /\ M!Step(t)
       \/ kind = "RWMutexIP" /\ P!Step(t)

AnyTryCall(t) ==
    \/ kind = "RWSpinLock" /\ TryCall(t)
    \/ kind = "RWSpinLockW" /\ W!TryCall(t)

\* The scheduler runs the threads that can run.
LiveSpec == AnySpec /\ \A t \in Threads : WF_allVars(AnyStep(t))

-----------------------------------------------------------------------------
(* Properties.                                                             *)

AnyTypeOK ==
    CASE kind = "SpinLock" -> S!TypeOK
      [] kind = "RWSpinLock" -> TypeOK
      [] kind = "RWSpinLockW" -> W!TypeOK
      [] kind = "RWSemaLock" -> Q!TypeOK
      [] kind = "RWMutex" -> M!TypeOK
      [] kind = "RWMutexIP" -> P!TypeOK

\* The lock's own state says who has it and who waits for it.
AnyWordIsExact == AnyTypeOK /\
    CASE kind = "SpinLock" -> S!WordIsExact
      [] kind = "RWSpinLock" -> WordIsExact
      [] kind = "RWSpinLockW" -> W!WordIsExact
      [] kind = "RWSemaLock" -> Q!WordIsExact
      [] kind = "RWMutex" -> M!WordIsExact
      [] kind = "RWMutexIP" -> P!WordIsExact

\* Each lock is one for readers and writers: its steps take or undo a lock as
\* ReadWriteLock allows, or change nobody's locks.
Abstract == INSTANCE ReadWriteLock
ImplementsReadWriteLock == Abstract!Spec

Wanted == At({"poll", "again", "readPoll", "readAgain", "writePoll", "writeAgain",
              "readSpin", "readEnter", "writePost", "writeSpin",
              "readWait", "readWoken", "writeWait", "writeWoken"}) # {}

\* A lock that threads wait for is never left free for ever, unless threads
\* that call Try functions again and again keep disturbing it: no wakeup is
\* lost and the spinning threads do not stop each other.
FreeLockIsTaken ==
    \/ []<><<\E t \in Threads : AnyTryCall(t)>>_allVars
    \/ []<>(~Wanted \/ Readers \cup Writers # {})
=============================================================================
