---------------------------- MODULE RWSpinLockW ----------------------------
(***************************************************************************)
(* EA::Thread::RWSpinLockW (eathread_rwspinlockw.h): one atomic integer    *)
(* that packs the write lock bit, the number of waiting writers and the    *)
(* number of readers.  A thread loads it into currVal (seen) and later     *)
(* tries to exchange it, if it still has that value.                       *)
(***************************************************************************)
EXTENDS LockState

Labels ==
    {"idle", "readCas", "readSpin", "readEnter", "readTry",
     "writeCas", "writePost", "writeSpin", "writeTry"}

Words ==
    [writer : BOOLEAN, waiting : 0 .. Cardinality(Threads), readers : 0 .. Cardinality(Threads)]

TypeOK ==
    /\ word \in Words
    /\ seen \in [Threads -> Words]
    /\ UsersTypeOK(Labels)

Unlocked == [writer |-> FALSE, waiting |-> 0, readers |-> 0]

Init == word = Unlocked /\ InitUsers(Unlocked)

WriteFree(w) == ~w.writer /\ w.waiting = 0       \* (w & kWriteAllMask) == 0
Free(w) == ~w.writer /\ w.readers = 0            \* (w & kLockAllMask) == 0

Load(t, label) == seen' = [seen EXCEPT ![t] = word] /\ Goto(t, label)
UnchangedLock == UNCHANGED <<word, sema, reads, writes>>

\* A thread that is done forgets what it loaded.
Forget(t) == seen' = [seen EXCEPT ![t] = Unlocked]

\* SetValueConditional succeeds with one reader, or with the writer, more.
EnterRead(t) ==
    /\ word = seen[t]
    /\ word' = [word EXCEPT !.readers = @ + 1]
    /\ GetRead(t)
    /\ Forget(t)
    /\ UNCHANGED sema

EnterWrite(t, posted) ==
    /\ word = seen[t]
    /\ word' = [word EXCEPT !.writer = TRUE, !.waiting = @ - posted]
    /\ GetWrite(t)
    /\ Forget(t)
    /\ UNCHANGED sema

ReadLock(t) ==
    /\ MayLock(t)
    /\ Load(t, IF WriteFree(word) THEN "readCas" ELSE "readSpin")
    /\ UnchangedLock

ReadCas(t) ==
    /\ pc[t] = "readCas"
    /\ \/ EnterRead(t)
       \/ word # seen[t] /\ Move(t, "readSpin")

\* Until there are no readers and no writer; waiting writers do not count.
ReadSpin(t) == pc[t] = "readSpin" /\ Free(word) /\ Load(t, "readEnter") /\ UnchangedLock

ReadEnter(t) ==
    /\ pc[t] = "readEnter"
    /\ \/ ~seen[t].writer /\ EnterRead(t)
       \/ (seen[t].writer \/ word # seen[t]) /\ Load(t, "readEnter") /\ UnchangedLock

\* The Try functions fail at once, or when their exchange fails.
ReadTryLock(t) == MayLock(t) /\ WriteFree(word) /\ Load(t, "readTry") /\ UnchangedLock
WriteTryLock(t) == MayLock(t) /\ Free(word) /\ Load(t, "writeTry") /\ UnchangedLock

TryEnds(t) ==
    \/ pc[t] = "readTry" /\ EnterRead(t)
    \/ pc[t] = "writeTry" /\ EnterWrite(t, 0)
    \/ /\ pc[t] \in {"readTry", "writeTry"}
       /\ word # seen[t]
       /\ Goto(t, "idle") /\ Forget(t) /\ UnchangedLock

ReadUnlock(t) ==
    /\ pc[t] = "idle"
    /\ DropRead(t)
    /\ word' = [word EXCEPT !.readers = @ - 1]
    /\ UNCHANGED <<sema, seen, pc>>

WriteLock(t) ==
    /\ MayLock(t)
    /\ Load(t, IF Free(word) THEN "writeCas" ELSE "writePost")
    /\ UnchangedLock

WriteCas(t) ==
    /\ pc[t] = "writeCas"
    /\ \/ EnterWrite(t, 0)
       \/ word # seen[t] /\ Move(t, "writePost")

\* Mutant of WritePost: the waiting writer does not count itself.
WritePostUncounted(t) == pc[t] = "writePost" /\ Move(t, "writeSpin")

\* Keeps what it loaded before it counted itself.
WritePost(t) ==
    /\ pc[t] = "writePost"
    /\ word' = [word EXCEPT !.waiting = @ + 1]
    /\ Goto(t, "writeSpin")
    /\ UNCHANGED <<sema, seen, reads, writes>>

WriteSpin(t) ==
    /\ pc[t] = "writeSpin"
    /\ \/ Free(seen[t]) /\ EnterWrite(t, 1)
       \/ ~(Free(seen[t]) /\ word = seen[t]) /\ Load(t, "writeSpin") /\ UnchangedLock

WriteUnlock(t) ==
    /\ pc[t] = "idle"
    /\ DropWrite(t)
    /\ word' = [word EXCEPT !.writer = FALSE]
    /\ UNCHANGED <<sema, seen, pc>>

Step(t) ==
    ReadCas(t) \/ ReadSpin(t) \/ ReadEnter(t) \/ TryEnds(t)
    \/ WriteCas(t) \/ WritePost(t) \/ WriteSpin(t)
TryCall(t) == ReadTryLock(t) \/ WriteTryLock(t)
Call(t) == ReadLock(t) \/ WriteLock(t) \/ TryCall(t)
Unlock(t) == ReadUnlock(t) \/ WriteUnlock(t)
Next == \E t \in Threads : Step(t) \/ Call(t) \/ Unlock(t)

\* The fields say who has the lock and how many writers wait: a stale currVal
\* never takes a reader, a writer or a waiting writer out of the word.
WordIsExact ==
    /\ word.readers = Cardinality(Readers)
    /\ word.waiting = Cardinality(At({"writeSpin"}))
    /\ word.writer <=> Writers # {}
=============================================================================
