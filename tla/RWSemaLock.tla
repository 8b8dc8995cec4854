----------------------------- MODULE RWSemaLock -----------------------------
(***************************************************************************)
(* EA::Thread::RWSemaLock (eathread_rwsemalock.h): an atomic integer with  *)
(* the numbers of readers, of readers that wait and of writers, and two    *)
(* semaphores.  A step is a successful change of the integer, or a call of *)
(* a semaphore.                                                            *)
(***************************************************************************)
EXTENDS LockState

FieldModulus == 1024      \* The fields of Status are ten bits wide and signed.

Field(n) == IF n >= FieldModulus \div 2 THEN n - FieldModulus ELSE n

Labels == {"idle", "readWait", "writeWait", "postRead", "postWrite"}

TypeOK ==
    /\ word \in [readers : 0 .. FieldModulus - 1, waitToRead : 0 .. FieldModulus - 1,
                 writers : 0 .. FieldModulus - 1]
    /\ seen \in [Threads -> 0 .. FieldModulus - 1]
    /\ UsersTypeOK(Labels)

Init == word = [readers |-> 0, waitToRead |-> 0, writers |-> 0] /\ InitUsers(0)

More(n) == (n + 1) % FieldModulus
Less(n) == (n - 1) % FieldModulus

ReadTryLock(t) ==
    /\ MayLock(t)
    /\ Field(word.writers) <= 0
    /\ word' = [word EXCEPT !.readers = More(@)]
    /\ GetRead(t)
    /\ UNCHANGED <<sema, seen>>

ReadLockWaits(t) ==
    /\ MayLock(t)
    /\ Field(word.writers) > 0
    /\ word' = [word EXCEPT !.waitToRead = More(@)]
    /\ Goto(t, "readWait")
    /\ UNCHANGED <<sema, seen, reads, writes>>

ReadLock(t) == ReadTryLock(t) \/ ReadLockWaits(t)

ReadWait(t) ==
    /\ pc[t] = "readWait"
    /\ sema.read > 0
    /\ sema' = [sema EXCEPT !.read = @ - 1]
    /\ GetRead(t)
    /\ UNCHANGED <<word, seen>>

\* Mutant of ReadUnlock: the last reader does not wake the writer.
ReadUnlockSilent(t) ==
    /\ pc[t] = "idle"
    /\ DropRead(t)
    /\ word' = [word EXCEPT !.readers = Less(@)]
    /\ UNCHANGED <<sema, seen, pc>>

ReadUnlock(t) ==
    /\ pc[t] = "idle"
    /\ DropRead(t)
    /\ word' = [word EXCEPT !.readers = Less(@)]
    /\ Goto(t, IF Field(word.readers) = 1 /\ Field(word.writers) > 0 THEN "postWrite" ELSE "idle")
    /\ UNCHANGED <<sema, seen>>

Busy == Field(word.readers) > 0 \/ Field(word.writers) > 0

WriteLock(t) ==
    /\ MayLock(t)
    /\ word' = [word EXCEPT !.writers = More(@)]
    /\ IF Busy THEN Goto(t, "writeWait") /\ UNCHANGED <<reads, writes>> ELSE GetWrite(t)
    /\ UNCHANGED <<sema, seen>>

WriteTryLock(t) ==
    /\ MayLock(t)
    /\ ~Busy
    /\ word' = [word EXCEPT !.writers = More(@)]
    /\ GetWrite(t)
    /\ UNCHANGED <<sema, seen>>

WriteWait(t) ==
    /\ pc[t] = "writeWait"
    /\ sema.write > 0
    /\ sema' = [sema EXCEPT !.write = @ - 1]
    /\ GetWrite(t)
    /\ UNCHANGED <<word, seen>>

\* The readers that wait become the readers, before any other writer.
WriteUnlock(t) ==
    /\ pc[t] = "idle"
    /\ DropWrite(t)
    /\ IF word.waitToRead # 0          \* Read into an unsigned variable.
       THEN /\ word' = [readers |-> word.waitToRead, waitToRead |-> 0, writers |-> Less(word.writers)]
            /\ seen' = [seen EXCEPT ![t] = word.waitToRead]
            /\ Goto(t, "postRead")
       ELSE /\ word' = [word EXCEPT !.writers = Less(@)]
            /\ Goto(t, IF Field(word.writers) > 1 THEN "postWrite" ELSE "idle")
            /\ UNCHANGED seen
    /\ UNCHANGED sema

Post(t) ==
    /\ \/ pc[t] = "postRead" /\ sema' = [sema EXCEPT !.read = @ + seen[t]]
       \/ pc[t] = "postWrite" /\ sema' = [sema EXCEPT !.write = @ + 1]
    /\ seen' = [seen EXCEPT ![t] = 0]
    /\ Goto(t, "idle")
    /\ UNCHANGED <<word, reads, writes>>

Step(t) == ReadWait(t) \/ WriteWait(t) \/ Post(t)
TryCall(t) == ReadTryLock(t) \/ WriteTryLock(t)
Call(t) == ReadLock(t) \/ WriteLock(t) \/ WriteTryLock(t)
Unlock(t) == ReadUnlock(t) \/ WriteUnlock(t)
Next == \E t \in Threads : Step(t) \/ Call(t) \/ Unlock(t)

Pending == {p \in At({"postRead"}) \X (1 .. Cardinality(Threads)) : p[2] <= seen[p[1]]}

\* Every reader and writer is counted once, whether it has the lock, waits
\* for it or was let in and has yet to notice; and while writers are counted
\* and no reader is, exactly one of them has the lock or is on its way to it.
WordIsExact ==
    /\ word.readers + word.waitToRead = Cardinality(Readers) + Cardinality(At({"readWait"}))
    /\ word.readers = Cardinality(Readers) + sema.read + Cardinality(Pending)
    /\ word.writers = Cardinality(Writers) + Cardinality(At({"writeWait"}))
    /\ Cardinality(Writers) + sema.write + Cardinality(At({"postWrite"}))
           = IF word.writers > 0 /\ word.readers = 0 THEN 1 ELSE 0
=============================================================================
