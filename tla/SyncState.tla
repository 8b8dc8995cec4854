----------------------------- MODULE SyncState -----------------------------
(***************************************************************************)
(* What the models of semaphores, conditions and barriers share: threads,  *)
(* and where each one is in the member function it calls.  One object of   *)
(* one class is used at a time; its kind is the class and the platform.    *)
(***************************************************************************)
EXTENDS Integers, FiniteSets

CONSTANTS
    Waiters,        \* The threads that wait for a semaphore or a condition.
    Posters,        \* The threads that post to it, or signal it.
    None            \* No thread.

Threads == Waiters \cup Posters

ASSUME SyncStateAssumption == IsFiniteSet(Threads) /\ None \notin Threads

VARIABLES
    kind,           \* The class and the platform.
    pc,             \* Where each thread is; "idle" outside of member functions.
    mutex           \* The thread that has the mutex of the object, or of its user.

syncVars == <<kind, pc, mutex>>

Goto(t, label) == pc' = [pc EXCEPT ![t] = label]
At(labels) == {t \in Threads : pc[t] \in labels}

\* Thread t of A has f[t] units, and these are all of them.
Units(f, A) == UNION {{t} \X (1 .. f[t]) : t \in A}

SyncInit == pc = [t \in Threads |-> "idle"] /\ mutex = None

SyncTypeOK(labels) == pc \in [Threads -> labels] /\ mutex \in Threads \cup {None}
=============================================================================
