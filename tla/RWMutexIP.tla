----------------------------- MODULE RWMutexIP -----------------------------
(***************************************************************************)
(* EA::Thread::RWMutexIP (source/eathread_rwmutex_ip.cpp), the version of  *)
(* RWMutex between processes: the fields are in shared memory, and threads *)
(* wait on two named semaphores, which unlike a condition keep a signal    *)
(* that nobody waits for.  Timeouts are ignored.                           *)
(***************************************************************************)
EXTENDS LockState

CONSTANT SemaphoreMax    \* The maximum the semaphores are created with, 9999.

Labels == {"idle", "readWait", "writeWait", "readWoken", "writeWoken"}

TypeOK ==
    /\ word \in [mnReaders : Nat, mThreadIdWriter : Threads \cup {None},
                 mnReadWaiters : Nat, mnWriteWaiters : Nat]
    /\ UsersTypeOK(Labels)
    /\ sema.read <= SemaphoreMax /\ sema.write <= SemaphoreMax

Init ==
    /\ word = [mnReaders |-> 0, mThreadIdWriter |-> None, mnReadWaiters |-> 0, mnWriteWaiters |-> 0]
    /\ InitUsers(0)

NotReadWaiting(t) == word.mnReadWaiters - (IF pc[t] = "readWoken" THEN 1 ELSE 0)
NotWriteWaiting(t) == word.mnWriteWaiters - (IF pc[t] = "writeWoken" THEN 1 ELSE 0)

ReadLock(t) ==
    /\ MayReadAgain(t) \/ pc[t] = "readWoken"
    /\ IF word.mThreadIdWriter # None
       THEN /\ word' = [word EXCEPT !.mnReadWaiters = NotReadWaiting(t) + 1]
            /\ Goto(t, "readWait")
            /\ UNCHANGED <<reads, writes>>
       ELSE /\ word' = [word EXCEPT !.mnReadWaiters = NotReadWaiting(t), !.mnReaders = @ + 1]
            /\ GetRead(t)
    /\ UNCHANGED <<sema, seen>>

WriteLock(t) ==
    /\ MayLock(t) \/ pc[t] = "writeWoken"
    /\ IF word.mnReaders > 0 \/ word.mThreadIdWriter # None
       THEN /\ word' = [word EXCEPT !.mnWriteWaiters = NotWriteWaiting(t) + 1]
            /\ Goto(t, "writeWait")
            /\ UNCHANGED <<reads, writes>>
       ELSE /\ word' = [word EXCEPT !.mnWriteWaiters = NotWriteWaiting(t), !.mThreadIdWriter = t]
            /\ GetWrite(t)
    /\ UNCHANGED <<sema, seen>>

\* WaitForSingleObject on a semaphore; mMutex is taken later.
TakeToken(t) ==
    /\ \/ /\ pc[t] = "readWait"
          /\ sema.read > 0
          /\ sema' = [sema EXCEPT !.read = @ - 1]
          /\ Goto(t, "readWoken")
       \/ /\ pc[t] = "writeWait"
          /\ sema.write > 0
          /\ sema' = [sema EXCEPT !.write = @ - 1]
          /\ Goto(t, "writeWoken")
    /\ UNCHANGED <<word, seen, reads, writes>>

\* ReleaseSemaphore fails and adds nothing when the sum is past the maximum.
Released(count, n) == IF count + n <= SemaphoreMax THEN count + n ELSE count

\* Unlock releases one writer if one waits, else as many readers as wait; some
\* of them may have been released already and not be back yet.
Unlock(t) ==
    /\ pc[t] = "idle"
    /\ IF word.mThreadIdWriter # None
       THEN DropWrite(t) /\ word' = [word EXCEPT !.mThreadIdWriter = None]
       ELSE DropRead(t) /\ word' = [word EXCEPT !.mnReaders = @ - 1]
    /\ sema' = IF word'.mnReaders > 0 THEN sema
               ELSE IF word.mnWriteWaiters > 0
                    THEN [sema EXCEPT !.write = Released(@, 1)]
                    ELSE [sema EXCEPT !.read = Released(@, word.mnReadWaiters)]
    /\ UNCHANGED <<seen, pc>>

Step(t) == (pc[t] # "idle" /\ (ReadLock(t) \/ WriteLock(t))) \/ TakeToken(t)
Call(t) == ReadLock(t) \/ WriteLock(t)
Next == \E t \in Threads : Call(t) \/ TakeToken(t) \/ Unlock(t)

\* The fields are what Lock and Unlock take them for.
WordIsExact ==
    /\ word.mnReaders = Cardinality(ReadLocks)
    /\ word.mThreadIdWriter = IF Writers = {} THEN None ELSE CHOOSE t \in Writers : TRUE
    /\ word.mnReadWaiters = Cardinality(At({"readWait", "readWoken"}))
    /\ word.mnWriteWaiters = Cardinality(At({"writeWait", "writeWoken"}))
=============================================================================
