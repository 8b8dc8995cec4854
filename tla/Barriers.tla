------------------------------ MODULE Barriers ------------------------------
(***************************************************************************)
(* Class Barrier: the portable version, with an atomic count and two       *)
(* semaphores that take turns, and the POSIX and Kettle versions, with a   *)
(* mutex, a condition and a cycle number.                                  *)
(***************************************************************************)
EXTENDS SyncState

CONSTANTS
    BarrierKinds,     \* The versions.
    Height,           \* BarrierParameters::mHeight.
    CycleModulus,     \* Bound: where mnCycle wraps around (an unsigned long).
    UnsignedModulus,  \* Bound: where unsigned does, which Wait casts it to.
    BarrierTimeouts   \* Whether waits have timeouts.

ASSUME BarriersAssumption ==
    /\ Height \in Nat \ {0}
    /\ CycleModulus \in Nat /\ UnsignedModulus \in 2 .. CycleModulus
    /\ BarrierTimeouts \in BOOLEAN

VARIABLES
    current,    \* mnCurrent: how many threads are still to come.
    index,      \* mnIndex: which semaphore is in use.
    sema,       \* The counts of mSemaphore0 and mSemaphore1.
    cycle,      \* mnCycle.
    mine,       \* mine[t]: the index, or the cycle, that t read when it came.
    result,     \* result[t]: what the last Wait of t returned.
    opened      \* The threads that a round let through and that are still in Wait.

barrierVars == <<current, index, sema, cycle, mine, result, opened>>

Ends(t, r) ==
    /\ Goto(t, "idle")
    /\ result' = [result EXCEPT ![t] = r]
    /\ opened' = opened \ {t}

NewBarrier == current = Height /\ index = 0 /\ sema = [i \in 0 .. 1 |-> 0] /\ cycle = 0
PortableBarrierInit == kind = "portableBarrier" /\ NewBarrier
UnixBarrierInit == kind = "unixBarrier" /\ NewBarrier
KettleBarrierInit == kind = "kettleBarrier" /\ NewBarrier

BarrierUsers ==
    /\ mine = [t \in Threads |-> 0]
    /\ result = [t \in Threads |-> "none"]
    /\ opened = {}
BarrierFresh == NewBarrier /\ BarrierUsers

BarrierInit ==
    /\ kind \in BarrierKinds
    /\ PortableBarrierInit \/ UnixBarrierInit \/ KettleBarrierInit
    /\ SyncInit /\ BarrierUsers

\* Thread t is the last to come: those that wait may pass.
Opens(t) == current' = Height /\ opened' = opened \cup {t} \cup At({"wait", "sleep"})

-----------------------------------------------------------------------------
(* The portable version.                                                   *)

\* The index is read before the count is decremented.
ReadIndex(t) ==
    /\ pc[t] = "idle"
    /\ mine' = [mine EXCEPT ![t] = index]
    /\ Goto(t, "count")
    /\ UNCHANGED <<kind, mutex, current, index, sema, cycle, result, opened>>

CountArrival(t) ==
    /\ pc[t] = "count"
    /\ current' = current - 1
    /\ IF current' = 0
         THEN Goto(t, "reset") /\ opened' = opened \cup {t} \cup At({"wait"})
         ELSE Goto(t, "wait") /\ UNCHANGED opened
    /\ UNCHANGED <<kind, mutex, index, sema, cycle, mine, result>>

\* Mutant: the last thread counts itself for the next round.
ResetCountShort(t) ==
    /\ pc[t] = "reset"
    /\ current' = Height - 1
    /\ Goto(t, IF Height > 1 THEN "post" ELSE "toggle")
    /\ UNCHANGED <<kind, mutex, index, sema, cycle, mine, result, opened>>

ResetCount(t) ==
    /\ pc[t] = "reset"
    /\ current' = Height
    /\ Goto(t, IF Height > 1 THEN "post" ELSE "toggle")
    /\ UNCHANGED <<kind, mutex, index, sema, cycle, mine, result, opened>>

PostSome(t, n) ==
    /\ pc[t] = "post"
    /\ sema' = [sema EXCEPT ![mine[t]] = @ + n]
    /\ Goto(t, "toggle")
    /\ UNCHANGED <<kind, mutex, current, index, cycle, mine, result, opened>>
PostTooFew(t) == PostSome(t, Height - 2)        \* Mutant.
PostOthers(t) == PostSome(t, Height - 1)

\* A thread that times out leaves the count as it is.
WaitSemaphore(t) ==
    /\ pc[t] = "wait"
    /\ \/ /\ sema[mine[t]] > 0
          /\ sema' = [sema EXCEPT ![mine[t]] = @ - 1]
          /\ Goto(t, "toggle") /\ UNCHANGED <<result, opened>>
       \/ /\ BarrierTimeouts /\ sema[mine[t]] = 0
          /\ Ends(t, "timeout") /\ UNCHANGED sema
    /\ UNCHANGED <<kind, mutex, current, index, cycle, mine>>

\* Mutant of ToggleIndex: everyone is the primary thread.
ToggleTwice(t) ==
    /\ pc[t] = "toggle"
    /\ index' = 1 - index /\ Ends(t, "primary")
    /\ UNCHANGED <<kind, mutex, current, sema, cycle, mine>>

\* Who toggles the index is the primary thread.
ToggleIndex(t) ==
    /\ pc[t] = "toggle"
    /\ IF index = mine[t]
         THEN index' = 1 - mine[t] /\ Ends(t, "primary")
         ELSE UNCHANGED index /\ Ends(t, "secondary")
    /\ UNCHANGED <<kind, mutex, current, sema, cycle, mine>>

PortableBarrierWait(t) ==
    ReadIndex(t) \/ CountArrival(t) \/ ResetCount(t) \/ PostOthers(t) \/ WaitSemaphore(t) \/ ToggleIndex(t)

-----------------------------------------------------------------------------
(* The versions with a mutex and a condition: each step holds the mutex.   *)

\* The last one changes the cycle and wakes the others.
ArriveLast(t) ==
    /\ pc[t] = "idle" /\ current = 1
    /\ cycle' = (cycle + 1) % CycleModulus
    /\ Opens(t)
    /\ pc' = [u \in Threads |-> IF u = t THEN "primary" ELSE IF pc[u] = "sleep" THEN "woken" ELSE pc[u]]
    /\ UNCHANGED <<kind, mutex, index, sema, mine, result>>

\* The others sleep until the cycle is not what they read.  They read no more of
\* it than fits an unsigned: beyond that they do not sleep at all.
ArriveFirst(t) ==
    /\ pc[t] = "idle" /\ current # 1
    /\ current' = current - 1
    /\ mine' = [mine EXCEPT ![t] = cycle % UnsignedModulus]
    /\ IF mine'[t] = cycle THEN Goto(t, "sleep") /\ UNCHANGED <<result, opened>> ELSE Ends(t, "secondary")
    /\ UNCHANGED <<kind, mutex, index, sema, cycle>>

ArriveLocked(t) == ArriveLast(t) \/ ArriveFirst(t)

\* The condition wakes threads without reason; who sees its own cycle sleeps on.
Retest(t) ==
    /\ pc[t] \in {"sleep", "woken"}
    /\ IF cycle = mine[t]
         THEN Goto(t, "sleep") /\ UNCHANGED <<result, opened>>
         ELSE Ends(t, "secondary")
    /\ UNCHANGED <<kind, mutex, current, index, sema, cycle, mine>>

\* The wait of the condition times out, whether the cycle changed or not.  The
\* thread's arrival stays counted.
Expire(t, r) ==
    /\ BarrierTimeouts /\ pc[t] \in {"sleep", "woken"}
    /\ Ends(t, r)
    /\ UNCHANGED <<kind, mutex, current, index, sema, cycle, mine>>

Leave(t) ==
    /\ pc[t] = "primary" /\ Ends(t, "primary")
    /\ UNCHANGED <<kind, mutex, current, index, sema, cycle, mine>>

UnixBarrierWait(t) == ArriveLocked(t) \/ Retest(t) \/ Leave(t) \/ Expire(t, "timeout")
\* It looks for the error number of POSIX, which the system does not give.
KettleBarrierWait(t) == ArriveLocked(t) \/ Retest(t) \/ Leave(t) \/ Expire(t, "error")

-----------------------------------------------------------------------------
BarrierStep(t) ==
    \/ kind = "portableBarrier" /\ PortableBarrierWait(t)
    \/ kind = "unixBarrier" /\ UnixBarrierWait(t)
    \/ kind = "kettleBarrier" /\ KettleBarrierWait(t)

BarrierNext == \E t \in Threads : BarrierStep(t)

BarrierSpec == BarrierInit /\ [][BarrierNext]_<<syncVars, barrierVars>>

-----------------------------------------------------------------------------
(* Properties.                                                             *)

BarrierLabels == {"idle", "count", "wait", "reset", "post", "toggle", "sleep", "woken", "primary"}

BarrierTypeOK == kind \in BarrierKinds =>
    /\ SyncTypeOK(BarrierLabels)
    /\ current \in Int /\ index \in 0 .. 1 /\ sema \in [0 .. 1 -> Nat] /\ cycle \in 0 .. CycleModulus - 1
    /\ result \in [Threads -> {"none", "primary", "secondary", "timeout", "error"}]
    /\ opened \subseteq Threads

\* Threads that wait and were not let through.
Inside == IF kind \in BarrierKinds THEN At({"wait", "sleep"}) \ opened ELSE {}

\* The count is short by the threads that wait in this round, and by no other:
\* a thread that gave up does not help to open the barrier.
CountIsContribution ==
    kind \in BarrierKinds /\ (kind = "portableBarrier" => At({"reset"}) = {}) =>
        current = Height - Cardinality(Inside)

\* The semaphore of a round has a unit for each thread that was let through and
\* waits for it, none is left when the round is over, and none is in the other
\* semaphore: threads of two rounds never take each other's units.
SemaphoresServeTheirRound ==
    kind = "portableBarrier" /\ At({"reset", "post"}) = {} =>
        \A i \in 0 .. 1 : sema[i] = Cardinality({t \in opened : pc[t] = "wait" /\ mine[t] = i})

\* Wait reads the whole cycle number.
CyclesFit == UnsignedModulus = CycleModulus \/ cycle < UnsignedModulus

\* Each version implements the promise of the class.
Place(t) ==
    IF t \in opened THEN "through" ELSE IF t \in Inside THEN "in" ELSE "out"
Primary == IF kind = "portableBarrier"
             THEN \A t \in opened : index # mine[t]
             ELSE At({"primary"}) = {}
BarrierPromise == INSTANCE CyclicBarrier WITH place <- [t \in Threads |-> Place(t)], primary <- Primary
ImplementsCyclicBarrier == BarrierPromise!Spec

\* Nobody is left behind at the barrier while the others come back to it.
EveryonePasses == \A t \in Threads : []<>(kind \in BarrierKinds => pc[t] = "idle")

\* mnCurrent is the threads that have still to come to this round, and a unit in
\* either semaphore is for a thread of the round that the semaphore serves: none
\* is left over for the next round to take.
BarrierIsExact == BarrierTypeOK /\ CountIsContribution /\ SemaphoresServeTheirRound
=============================================================================
