------------------------------ MODULE SpinLock ------------------------------
(***************************************************************************)
(* EA::Thread::SpinLock (eathread_spinlock.h): one atomic integer, 0 when  *)
(* the lock is free and 1 when it is taken.  A step is one access to it.   *)
(***************************************************************************)
EXTENDS LockState

Labels == {"idle", "poll", "again"}

TypeOK == word \in 0 .. 1 /\ UsersTypeOK(Labels)

Init == word = 0 /\ InitUsers(0)

\* The compare-and-swap 0 -> 1 succeeds.
TryLock(t) ==
    /\ MayLock(t) \/ pc[t] = "again"
    /\ word = 0
    /\ word' = 1
    /\ GetWrite(t)
    /\ UNCHANGED <<sema, seen>>

\* It fails in Lock, which polls before it tries again.
LockFails(t) ==
    /\ MayLock(t) \/ pc[t] = "again"
    /\ word # 0
    /\ Move(t, "poll")

Poll(t) == pc[t] = "poll" /\ word = 0 /\ Move(t, "again")

Unlock(t) ==
    /\ pc[t] = "idle"
    /\ DropWrite(t)
    /\ word' = 0
    /\ UNCHANGED <<sema, seen, pc>>

Step(t) == pc[t] # "idle" /\ (TryLock(t) \/ LockFails(t) \/ Poll(t))
Call(t) == TryLock(t) \/ LockFails(t)
Next == \E t \in Threads : Poll(t) \/ Call(t) \/ Unlock(t)

\* The word is 1 exactly while a thread has the lock: the assertion of Unlock
\* (eathread_spinlock.h:228).
WordIsExact == word = Cardinality(Writers)
=============================================================================
