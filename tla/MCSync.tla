------------------------------- MODULE MCSync -------------------------------
(***************************************************************************)
(* Semaphores, conditions and barriers: initially one class and platform   *)
(* is picked.                                                              *)
(***************************************************************************)
EXTENDS Semaphores, Conditions, Barriers

ASSUME KindsAssumption ==
    /\ SemaphoreKinds \subseteq
         {"unixSemaphore", "androidSemaphore", "appleSemaphore", "kettleSemaphore",
          "pcFastSemaphore", "pcSharedSemaphore", "synthesizedSemaphore", "unthreadedSemaphore"}
    /\ ConditionKinds \subseteq {"portableCondition", "unixCondition", "kettleCondition"}
    /\ BarrierKinds \subseteq {"portableBarrier", "unixBarrier", "kettleBarrier"}

allVars == <<syncVars, semaphoreVars, conditionVars, barrierVars>>

Init ==
    \/ SemaphoreInit /\ ConditionFresh /\ BarrierFresh
    \/ ConditionInit /\ SemaphoreFresh /\ BarrierFresh
    \/ BarrierInit /\ SemaphoreFresh /\ ConditionFresh

Next ==
    \/ kind \in SemaphoreKinds /\ SemaphoreNext /\ UNCHANGED <<conditionVars, barrierVars>>
    \/ kind \in ConditionKinds /\ ConditionNext /\ UNCHANGED <<semaphoreVars, barrierVars>>
    \/ kind \in BarrierKinds /\ BarrierNext /\ UNCHANGED <<semaphoreVars, conditionVars>>

Spec == Init /\ [][Next]_allVars

\* Nobody counts on a wakeup that nobody sent, nor on the timeout of a condition.
Surprised(t) == pc[t] \in {"sleep", "cvWait"} /\ (kind = "portableCondition" => queue = 0)

Step(t) == ~Surprised(t) /\
    \/ kind \in SemaphoreKinds /\ SemaphoreStep(t) /\ UNCHANGED <<conditionVars, barrierVars>>
    \/ kind \in ConditionKinds /\ ConditionStep(t) /\ UNCHANGED <<semaphoreVars, barrierVars>>
    \/ kind \in BarrierKinds /\ BarrierStep(t) /\ UNCHANGED <<semaphoreVars, conditionVars>>

\* The scheduler runs the threads that can run, and a mutex or a semaphore of
\* the system that is free again and again does not pass a thread over for ever.
\* Threads come back to a barrier; nobody has to call Wait, Post or Signal.
FairSpec == Spec /\ \A t \in Threads : SF_allVars(Step(t))

\* Nobody waits for ever for what is there: a unit, the end of a signal or its
\* wakeup, the others at a barrier.
EveryoneGetsOn == UnitsReachWaiters /\ SignalsReturn /\ UnblockedWaitersWake /\ EveryonePasses
=============================================================================
