--------------------------- MODULE ReadWriteLock ---------------------------
(***************************************************************************)
(* What a lock for readers and writers promises, whatever it is made of:   *)
(* readers share it, a writer has it alone.  Readers may lock recursively, *)
(* writers may not.  SpinLock, RWSpinLock, RWSpinLockW, RWSemaLock, RWMutex *)
(* and RWMutexIP implement this specification (MCReadWriteLocks.tla).      *)
(***************************************************************************)
EXTENDS Naturals

CONSTANT Threads

VARIABLES
    reads,   \* reads[t]: the read locks thread t has to undo.
    writes   \* writes[t]: the write locks thread t has to undo, 0 or 1.

Init ==
    /\ reads = [t \in Threads |-> 0]
    /\ writes = [t \in Threads |-> 0]

AcquireRead(t) ==
    /\ \A u \in Threads : writes[u] = 0
    /\ reads' = [reads EXCEPT ![t] = @ + 1]
    /\ UNCHANGED writes

AcquireWrite(t) ==
    /\ \A u \in Threads : reads[u] = 0 /\ writes[u] = 0
    /\ writes' = [writes EXCEPT ![t] = 1]
    /\ UNCHANGED reads

ReleaseRead(t) ==
    /\ reads[t] > 0
    /\ reads' = [reads EXCEPT ![t] = @ - 1]
    /\ UNCHANGED writes

ReleaseWrite(t) ==
    /\ writes[t] = 1
    /\ writes' = [writes EXCEPT ![t] = 0]
    /\ UNCHANGED reads

Next ==
    \E t \in Threads :
        AcquireRead(t) \/ AcquireWrite(t) \/ ReleaseRead(t) \/ ReleaseWrite(t)

Spec == Init /\ [][Next]_<<reads, writes>>
=============================================================================
