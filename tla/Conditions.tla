----------------------------- MODULE Conditions -----------------------------
(***************************************************************************)
(* Class Condition: the portable version, which Windows uses, made of two  *)
(* semaphores, a mutex and three counts; and the POSIX and Kettle         *)
(* versions, which wrap a condition of the system and only have to keep    *)
(* the lock count of the user's mutex true.                                *)
(*                                                                         *)
(* A user locks the mutex, calls Wait and unlocks the mutex when Wait      *)
(* returned.  Others call Signal, with the mutex or without it.            *)
(***************************************************************************)
EXTENDS SyncState

CONSTANTS
    ConditionKinds,      \* The versions.
    ConditionTimeouts,   \* Whether waits have timeouts.
    DoneLimit            \* Bound: INT_MAX / 2, from where mnWaitersDone is cut back.

ASSUME ConditionsAssumption == ConditionTimeouts \in BOOLEAN /\ DoneLimit \in Nat \ {0}

VARIABLES
    lockCount,     \* mnLockCount of the user's mutex.
    blocked,       \* mnWaitersBlocked.
    toUnblock,     \* mnWaitersToUnblock.
    done,          \* mnWaitersDone.
    queue,         \* The count of mSemaphoreBlockQueue.
    blockLock,     \* The count of mSemaphoreBlockLock.
    unblockLock,   \* The thread that has mUnblockLock.
    issue,         \* issue[t]: nSignalsToIssue of a Signal by t.
    arg,           \* arg[t]: whether the Signal by t is a broadcast.
    got            \* got[t]: how the wait of t for the queue ended.

conditionVars == <<lockCount, blocked, toUnblock, done, queue, blockLock, unblockLock,
                   issue, arg, got>>
waiterCounts == <<blocked, toUnblock, done>>
portableVars == <<waiterCounts, queue, blockLock, unblockLock, issue>>

Portable == kind = "portableCondition"

ConditionFresh ==
    /\ lockCount = 0
    /\ blocked = 0 /\ toUnblock = 0 /\ done = 0
    /\ queue = 0 /\ blockLock = 1 /\ unblockLock = None
    /\ issue = [t \in Threads |-> 0]
    /\ arg = [t \in Threads |-> FALSE]
    /\ got = [t \in Threads |-> "none"]

ConditionInit == kind \in ConditionKinds /\ SyncInit /\ ConditionFresh

-----------------------------------------------------------------------------
(* The user of the mutex.                                                  *)

LockMutex(t) ==
    /\ t \in Waiters /\ pc[t] = "idle" /\ mutex = None
    /\ mutex' = t /\ lockCount' = lockCount + 1
    /\ Goto(t, "owner")
    /\ UNCHANGED <<kind, portableVars, arg, got>>

UnlockMutex(t) ==
    /\ pc[t] = "returned"
    /\ mutex' = None /\ lockCount' = lockCount - 1
    /\ Goto(t, "idle")
    /\ got' = [got EXCEPT ![t] = "none"]
    /\ UNCHANGED <<kind, portableVars, arg>>

-----------------------------------------------------------------------------
(* Wait of the portable version.                                           *)

\* The waiter counts itself, without mSemaphoreBlockLock.
BeginWait(t) ==
    /\ pc[t] = "owner"
    /\ blocked' = blocked + 1
    /\ Goto(t, "unlock")
    /\ UNCHANGED <<kind, mutex, lockCount, toUnblock, done, queue, blockLock, unblockLock,
                   issue, arg, got>>

GiveUpMutex(t) ==
    /\ pc[t] = "unlock"
    /\ mutex' = None /\ lockCount' = lockCount - 1
    /\ Goto(t, "sleep")
    /\ UNCHANGED <<kind, portableVars, arg, got>>

\* A unit of the queue is for any sleeper, also one that came after the Signal.
Wake(t) ==
    /\ pc[t] = "sleep"
    /\ \/ queue > 0 /\ queue' = queue - 1 /\ got' = [got EXCEPT ![t] = "ok"]
       \/ ConditionTimeouts /\ queue = 0 /\ UNCHANGED queue /\ got' = [got EXCEPT ![t] = "timeout"]
    /\ Goto(t, "woken")
    /\ UNCHANGED <<kind, mutex, lockCount, waiterCounts, blockLock, unblockLock, issue, arg>>

\* The waiter is the last one that a Signal unblocks.
LastToUnblock == toUnblock = 1

\* Under mUnblockLock: the waiter uses up a wakeup, whichever way it woke, or
\* says that it is gone.  The last one of a Signal lets the next Signal in.
BookKeep(t) ==
    /\ pc[t] = "woken" /\ unblockLock = None
    /\ IF toUnblock # 0
         THEN toUnblock' = toUnblock - 1 /\ UNCHANGED done
         ELSE done' = done + 1 /\ UNCHANGED toUnblock
    /\ IF done' = DoneLimit
         THEN unblockLock' = t /\ Goto(t, "trim")
         ELSE UNCHANGED unblockLock /\ Goto(t, IF LastToUnblock THEN "postLock" ELSE "relock")
    /\ UNCHANGED <<kind, mutex, lockCount, blocked, queue, blockLock, issue, arg, got>>

\* Too many are gone: with both locks they are taken off the count.
TrimDone(t) ==
    /\ pc[t] = "trim" /\ blockLock > 0
    /\ blocked' = blocked - done /\ done' = 0
    /\ unblockLock' = None
    /\ Goto(t, "relock")
    /\ UNCHANGED <<kind, mutex, lockCount, toUnblock, queue, blockLock, issue, arg, got>>

PostBlockLock(t) ==
    /\ pc[t] = "postLock"
    /\ blockLock' = blockLock + 1
    /\ Goto(t, "relock")
    /\ UNCHANGED <<kind, mutex, lockCount, waiterCounts, queue, unblockLock, issue, arg, got>>

Relock(t) ==
    /\ pc[t] = "relock" /\ mutex = None
    /\ mutex' = t /\ lockCount' = lockCount + 1
    /\ Goto(t, "returned")
    /\ UNCHANGED <<kind, portableVars, arg, got>>

PortableConditionWait(t) ==
    BeginWait(t) \/ GiveUpMutex(t) \/ Wake(t) \/ BookKeep(t) \/ TrimDone(t) \/ PostBlockLock(t) \/ Relock(t)

-----------------------------------------------------------------------------
(* Signal of the portable version.                                         *)

CallSignal(t) ==
    /\ t \in Posters /\ pc[t] = "idle"
    /\ \E b \in BOOLEAN : arg' = [arg EXCEPT ![t] = b]
    /\ Goto(t, "signal")
    /\ UNCHANGED <<kind, mutex, lockCount, portableVars, got>>

\* Signal t takes waiters off the count and gives them wakeups; those that are
\* gone were taken off before.
Issue(t, waiting, before) ==
    LET n == IF arg[t] THEN waiting ELSE 1 IN
    /\ blocked' = waiting - n
    /\ toUnblock' = before + n
    /\ issue' = [issue EXCEPT ![t] = n]

SignalLocked(t) ==
    /\ pc[t] = "signal" /\ unblockLock = None
    /\ \/ /\ toUnblock # 0 /\ blocked # 0
          /\ Issue(t, blocked, toUnblock)
          /\ Goto(t, "issue") /\ UNCHANGED <<done, unblockLock>>
       \/ /\ toUnblock = 0 /\ blocked > done
          /\ unblockLock' = t
          /\ Goto(t, "waitLock") /\ UNCHANGED <<waiterCounts, issue>>
       \/ /\ IF toUnblock # 0 THEN blocked = 0 ELSE blocked <= done
          /\ Goto(t, "idle") /\ UNCHANGED <<waiterCounts, issue, unblockLock>>
    /\ UNCHANGED <<kind, mutex, lockCount, queue, blockLock, arg, got>>

\* With mUnblockLock it waits until the waiters of earlier Signals are gone.
SignalFirst(t) ==
    /\ pc[t] = "waitLock" /\ blockLock > 0
    /\ blockLock' = blockLock - 1
    /\ Issue(t, blocked - done, 0)
    /\ done' = 0
    /\ unblockLock' = None
    /\ Goto(t, "issue")
    /\ UNCHANGED <<kind, mutex, lockCount, queue, arg, got>>

PostUnits(t, n) ==
    /\ pc[t] = "issue"
    /\ queue' = queue + n
    /\ issue' = [issue EXCEPT ![t] = 0]
    /\ Goto(t, "idle")
    /\ UNCHANGED <<kind, mutex, lockCount, waiterCounts, blockLock, unblockLock, arg, got>>
PostQueueOnce(t) == PostUnits(t, 1)        \* Mutant: one unit for a broadcast.

PostQueue(t) == PostUnits(t, issue[t])

PortableConditionSignal(t) == SignalLocked(t) \/ SignalFirst(t) \/ PostQueue(t)

-----------------------------------------------------------------------------
(* The versions over a condition of the system, whose wait gives up the    *)
(* mutex without a call of Mutex::Unlock.                                  *)

\* SimulateLock, with the mutex held.
SimulateLock(lock) == lockCount' = lockCount + (IF lock THEN 1 ELSE -1)

SystemSleep(t) ==
    /\ pc[t] = "unlock"
    /\ mutex' = None
    /\ Goto(t, "sleep")
    /\ UNCHANGED <<kind, lockCount, portableVars, arg, got>>

\* A timeout, or a wakeup that nobody sent.
SystemWake(t) ==
    /\ pc[t] = "sleep"
    /\ \E how \in {"ok"} \cup (IF ConditionTimeouts THEN {"timeout"} ELSE {}) : got' = [got EXCEPT ![t] = how]
    /\ Goto(t, "woken")
    /\ UNCHANGED <<kind, mutex, lockCount, portableVars, arg>>

SystemRelock(t) ==
    /\ pc[t] = "woken" /\ mutex = None
    /\ mutex' = t
    /\ Goto(t, "relock")
    /\ UNCHANGED <<kind, lockCount, portableVars, arg, got>>

CountLock(t, from, lock, to) ==
    /\ pc[t] = from
    /\ SimulateLock(lock)
    /\ Goto(t, to)
    /\ UNCHANGED <<kind, mutex, portableVars, arg, got>>

UnixConditionWait(t) ==
    \/ CountLock(t, "owner", FALSE, "unlock")
    \/ SystemSleep(t) \/ SystemWake(t) \/ SystemRelock(t)
    \/ CountLock(t, "relock", TRUE, "returned")

KettleConditionWait(t) ==
    \/ CountLock(t, "owner", FALSE, "unlock")
    \/ SystemSleep(t) \/ SystemWake(t) \/ SystemRelock(t)
    \/ CountLock(t, "relock", TRUE, "returned")

SystemSignal(t) ==
    /\ pc[t] = "signal"
    /\ LET asleep == At({"sleep"}) IN
       IF asleep = {} THEN pc' = [pc EXCEPT ![t] = "idle"] /\ UNCHANGED got
       ELSE \E woken \in (IF arg[t] THEN {asleep} ELSE {{w} : w \in asleep}) :
              /\ pc' = [u \in Threads |-> IF u = t THEN "idle" ELSE IF u \in woken THEN "woken" ELSE pc[u]]
              /\ got' = [u \in Threads |-> IF u \in woken THEN "ok" ELSE got[u]]
    /\ UNCHANGED <<kind, mutex, lockCount, portableVars, arg>>

UnixConditionSignal(t) == SystemSignal(t)
KettleConditionSignal(t) == SystemSignal(t)

-----------------------------------------------------------------------------
ConditionStep(t) ==
    \/ UnlockMutex(t)
    \/ kind = "portableCondition" /\ (PortableConditionWait(t) \/ PortableConditionSignal(t))
    \/ kind = "unixCondition" /\ (UnixConditionWait(t) \/ UnixConditionSignal(t))
    \/ kind = "kettleCondition" /\ (KettleConditionWait(t) \/ KettleConditionSignal(t))

ConditionNext == \E t \in Threads : LockMutex(t) \/ CallSignal(t) \/ ConditionStep(t)

ConditionSpec == ConditionInit /\ [][ConditionNext]_<<syncVars, conditionVars>>

-----------------------------------------------------------------------------
(* Properties.                                                             *)

ConditionLabels ==
    {"idle", "owner", "unlock", "sleep", "woken", "trim", "postLock", "relock", "returned",
     "signal", "waitLock", "issue"}

ConditionTypeOK == kind \in ConditionKinds =>
    /\ SyncTypeOK(ConditionLabels) /\ unblockLock \in Threads \cup {None}
    /\ lockCount \in 0 .. 1
    /\ blocked \in Int /\ toUnblock \in Nat /\ done \in Nat
    /\ queue \in Nat /\ blockLock \in 0 .. 1
    /\ issue \in [Threads -> Nat] /\ arg \in [Threads -> BOOLEAN]

\* The three counts always add up to the threads between the first and the last
\* lines of Wait, timeouts and stray wakeups included.
WaitersAreCounted ==
    Portable => blocked + toUnblock - done = Cardinality(At({"unlock", "sleep", "woken"}))

\* There are at least as many wakeups on their way as waiters to unblock (more
\* when waiters timed out): a waiter that a Signal took off the count finds one.
WakeupsSuffice ==
    toUnblock <= queue + Cardinality(Units(issue, Threads))
                       + Cardinality({t \in At({"woken"}) : got[t] = "ok"})

\* mSemaphoreBlockLock is taken exactly while waiters are to be unblocked.
BlockLockIsExact ==
    Portable => blockLock = IF toUnblock > 0 \/ At({"postLock"}) # {} THEN 0 ELSE 1

\* The user's mutex counts one lock while a user has it, and none while it is
\* free, though a wait of the system gives it up behind its back.
LockCountIsExact == kind \in ConditionKinds =>
    (lockCount = 1 <=> mutex # None /\ (Portable \/ pc[mutex] \notin {"unlock", "relock"}))

\* Signal always returns: it waits for nobody who waits for it.
SignalsReturn ==
    \A t \in Posters : []<>(pc[t] \notin {"signal", "waitLock", "issue"})

\* No waiter sleeps for ever while there are waiters to unblock.
UnblockedWaitersWake == \A t \in Waiters : []<>(pc[t] # "sleep" \/ toUnblock = 0)

\* mnWaitersBlocked, mnWaitersDone and mnWaitersToUnblock count whom they are
\* named for, mSemaphoreBlockQueue has a unit for each waiter that is to be
\* unblocked, one of Signal and the waiters it unblocks has mSemaphoreBlockLock,
\* and mnLockCount of the user's mutex is right again when Wait returns.
ConditionIsExact ==
    ConditionTypeOK /\ WaitersAreCounted /\ WakeupsSuffice /\ BlockLockIsExact /\ LockCountIsExact
=============================================================================
