----------------------------- MODULE RWSpinLock -----------------------------
(***************************************************************************)
(* EA::Thread::RWSpinLock (eathread_rwspinlock.h): one atomic integer that *)
(* starts at kValueUnlocked, from which a reader takes one and a writer    *)
(* kValueUnlocked.  An attempt that fails has changed the value, too, and  *)
(* puts back what it took in a second step.                                *)
(***************************************************************************)
EXTENDS LockState

CONSTANTS
    ValueUnlocked,   \* kValueUnlocked, 2^24.
    WordModulus      \* The width of AtomicInt32, 2^32.

\* The number of writers the word has room for (see the comment at the top of
\* the class) is more than the threads there are.
ASSUME WordAssumption ==
    /\ ValueUnlocked \in Nat /\ WordModulus \in Nat
    /\ ValueUnlocked > MaxReads * Cardinality(Threads)
    /\ WordModulus > 2 * ValueUnlocked * (Cardinality(Threads) + 1)

Labels ==
    {"idle", "readBack", "readPoll", "readAgain", "writeBack", "writePoll", "writeAgain",
     "readTryBack", "writeTryBack"}   \* The last two in the Try functions.

TypeOK == word \in 0 .. WordModulus - 1 /\ UsersTypeOK(Labels)

Init == word = ValueUnlocked /\ InitUsers(0)

Wrap(n) == n % WordModulus
Positive(n) == n \in 1 .. WordModulus \div 2 - 1        \* As a signed number.

\* Decrement, and the unsigned comparison that sees negative values as large.
TakeRead(t, back) ==
    /\ word' = Wrap(word - 1)
    /\ IF word' < ValueUnlocked
       THEN GetRead(t)
       ELSE Goto(t, back) /\ UNCHANGED <<reads, writes>>
    /\ UNCHANGED <<sema, seen>>

ReadLock(t) == (MayReadAgain(t) \/ pc[t] = "readAgain") /\ TakeRead(t, "readBack")
ReadTryLock(t) == MayReadAgain(t) /\ TakeRead(t, "readTryBack")

PutBack(t, amount, label) ==
    /\ word' = Wrap(word + amount)
    /\ Goto(t, label)
    /\ UNCHANGED <<sema, seen, reads, writes>>

ReadFails(t) ==
    \/ pc[t] = "readBack" /\ PutBack(t, 1, "readPoll")
    \/ pc[t] = "readTryBack" /\ PutBack(t, 1, "idle")

ReadPoll(t) == pc[t] = "readPoll" /\ Positive(word) /\ Move(t, "readAgain")

ReadUnlock(t) ==
    /\ pc[t] = "idle"
    /\ DropRead(t)
    /\ word' = Wrap(word + 1)
    /\ UNCHANGED <<sema, seen, pc>>

\* Mutant of TakeWrite: a writer does not mind readers.
TakeWriteIfNotNegative(t, back) ==
    /\ word' = Wrap(word - ValueUnlocked)
    /\ IF word = ValueUnlocked \/ Positive(word)
       THEN GetWrite(t)
       ELSE Goto(t, back) /\ UNCHANGED <<reads, writes>>
    /\ UNCHANGED <<sema, seen>>

TakeWrite(t, back) ==
    /\ word' = Wrap(word - ValueUnlocked)
    /\ IF word' = 0
       THEN GetWrite(t)
       ELSE Goto(t, back) /\ UNCHANGED <<reads, writes>>
    /\ UNCHANGED <<sema, seen>>

WriteLock(t) == (MayLock(t) \/ pc[t] = "writeAgain") /\ TakeWrite(t, "writeBack")

\* A thread that has a lock may call WriteTryLock, which then fails.
WriteTryLock(t) == pc[t] = "idle" /\ TakeWrite(t, "writeTryBack")

WriteFails(t) ==
    \/ pc[t] = "writeBack" /\ PutBack(t, ValueUnlocked, "writePoll")
    \/ pc[t] = "writeTryBack" /\ PutBack(t, ValueUnlocked, "idle")

WritePoll(t) == pc[t] = "writePoll" /\ word = ValueUnlocked /\ Move(t, "writeAgain")

WriteUnlock(t) ==
    /\ pc[t] = "idle"
    /\ DropWrite(t)
    /\ word' = Wrap(word + ValueUnlocked)
    /\ UNCHANGED <<sema, seen, pc>>

Step(t) ==
    pc[t] # "idle" /\ (ReadLock(t) \/ ReadFails(t) \/ ReadPoll(t)
                       \/ WriteLock(t) \/ WriteFails(t) \/ WritePoll(t))
TryCall(t) == ReadTryLock(t) \/ WriteTryLock(t)
Call(t) == ReadLock(t) \/ WriteLock(t) \/ TryCall(t)
Unlock(t) == ReadUnlock(t) \/ WriteUnlock(t)
Next ==
    \E t \in Threads :
        Call(t) \/ Unlock(t) \/ ReadFails(t) \/ ReadPoll(t) \/ WriteFails(t) \/ WritePoll(t)

Spec == Init /\ [][Next]_lockVars

-----------------------------------------------------------------------------
(* Properties.                                                             *)

Owing(labels) == Cardinality(At(labels))

\* Nothing is lost of the word: what is missing from kValueUnlocked is one per
\* read lock, kValueUnlocked per write lock, and what failed attempts owe.
WordIsExact ==
    word = Wrap(ValueUnlocked
                - (Cardinality(ReadLocks) + Owing({"readBack", "readTryBack"}))
                - ValueUnlocked * (Cardinality(Writers) + Owing({"writeBack", "writeTryBack"})))
=============================================================================
