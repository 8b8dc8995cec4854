------------------------------ MODULE RWMutex ------------------------------
(***************************************************************************)
(* EA::Thread::RWMutex (source/eathread_rwmutex.cpp): four fields guarded  *)
(* by mMutex, a condition for readers and one for writers.  A step is a    *)
(* critical section of mMutex, which a wait gives up and takes again.  The *)
(* conditions are those of POSIX: a signal wakes a thread that waits, and  *)
(* is forgotten when none does.                                            *)
(***************************************************************************)
EXTENDS LockState

CONSTANT TimedLocks    \* The lock types Lock is called with a timeout for.

Labels ==
    {"idle",
     "readWait", "writeWait",         \* Waits on its condition,
     "readWoken", "writeWoken",       \*   was signalled and gets mMutex next,
     "readExpired", "writeExpired"}   \*   or did not wait long enough.

TypeOK ==
    /\ word \in [mnReaders : Nat, mThreadIdWriter : Threads \cup {None},
                 mnReadWaiters : Nat, mnWriteWaiters : Nat]
    /\ UsersTypeOK(Labels)

Init ==
    /\ word = [mnReaders |-> 0, mThreadIdWriter |-> None, mnReadWaiters |-> 0, mnWriteWaiters |-> 0]
    /\ InitUsers(0)

\* A thread back from its wait no longer counts as one that waits.
NotReadWaiting(t) == word.mnReadWaiters - (IF pc[t] = "readWoken" THEN 1 ELSE 0)
NotWriteWaiting(t) == word.mnWriteWaiters - (IF pc[t] = "writeWoken" THEN 1 ELSE 0)

\* Lock(kLockTypeRead), from its start or after a wait.
ReadLock(t) ==
    /\ MayReadAgain(t) \/ pc[t] = "readWoken"
    /\ IF word.mThreadIdWriter # None
       THEN /\ word' = [word EXCEPT !.mnReadWaiters = NotReadWaiting(t) + 1]
            /\ Goto(t, "readWait")
            /\ UNCHANGED <<reads, writes>>
       ELSE /\ word' = [word EXCEPT !.mnReadWaiters = NotReadWaiting(t), !.mnReaders = @ + 1]
            /\ GetRead(t)
    /\ UNCHANGED <<sema, seen>>

\* Lock(kLockTypeWrite).
WriteLock(t) ==
    /\ MayLock(t) \/ pc[t] = "writeWoken"
    /\ IF word.mnReaders > 0 \/ word.mThreadIdWriter # None
       THEN /\ word' = [word EXCEPT !.mnWriteWaiters = NotWriteWaiting(t) + 1]
            /\ Goto(t, "writeWait")
            /\ UNCHANGED <<reads, writes>>
       ELSE /\ word' = [word EXCEPT !.mnWriteWaiters = NotWriteWaiting(t), !.mThreadIdWriter = t]
            /\ GetWrite(t)
    /\ UNCHANGED <<sema, seen>>

\* The wait times out: nobody can signal the thread any more, though it still
\* counts as waiting, until it has mMutex again.
WaitExpires(t) ==
    \/ "read" \in TimedLocks /\ pc[t] = "readWait" /\ Move(t, "readExpired")
    \/ "write" \in TimedLocks /\ pc[t] = "writeWait" /\ Move(t, "writeExpired")

LockTimesOut(t) ==
    /\ \/ pc[t] = "readExpired" /\ word' = [word EXCEPT !.mnReadWaiters = @ - 1]
       \/ pc[t] = "writeExpired" /\ word' = [word EXCEPT !.mnWriteWaiters = @ - 1]
    /\ Goto(t, "idle")
    /\ UNCHANGED <<sema, seen, reads, writes>>

\* Whom Unlock wakes: one writer if there are any that count as waiting, else
\* every reader.
Woken ==
    IF word.mnWriteWaiters > 0
    THEN IF At({"writeWait"}) = {} THEN {{}} ELSE {{t} : t \in At({"writeWait"})}
    ELSE {At({"readWait"})}

Wake(S) ==
    pc' = [t \in Threads |->
               IF t \notin S THEN pc[t]
               ELSE IF pc[t] = "readWait" THEN "readWoken" ELSE "writeWoken"]

Unlock(t) ==
    /\ pc[t] = "idle"
    /\ IF word.mThreadIdWriter # None
       THEN DropWrite(t) /\ word' = [word EXCEPT !.mThreadIdWriter = None]
       ELSE DropRead(t) /\ word' = [word EXCEPT !.mnReaders = @ - 1]
    /\ IF word'.mnReaders > 0 THEN UNCHANGED pc ELSE \E S \in Woken : Wake(S)
    /\ UNCHANGED <<sema, seen>>

Step(t) == pc[t] # "idle" /\ (ReadLock(t) \/ WriteLock(t) \/ LockTimesOut(t))
Call(t) == ReadLock(t) \/ WriteLock(t)
Next == \E t \in Threads : Call(t) \/ WaitExpires(t) \/ LockTimesOut(t) \/ Unlock(t)

Spec == Init /\ [][Next]_lockVars

\* The fields are what Lock and Unlock take them for, also while threads that
\* were signalled or gave up are on their way back to mMutex.
WordIsExact ==
    /\ word.mnReaders = Cardinality(ReadLocks)
    /\ word.mThreadIdWriter = IF Writers = {} THEN None ELSE CHOOSE t \in Writers : TRUE
    /\ word.mnReadWaiters = Cardinality(At({"readWait", "readWoken", "readExpired"}))
    /\ word.mnWriteWaiters = Cardinality(At({"writeWait", "writeWoken", "writeExpired"}))
=============================================================================
