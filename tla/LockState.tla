----------------------------- MODULE LockState -----------------------------
(***************************************************************************)
(* The state every lock for readers and writers is modelled with, so that  *)
(* one specification can run any of them: the word (or words) of the lock, *)
(* its semaphores, and where each thread is in the member function it      *)
(* calls.  A thread calls one lock, and one function at a time.            *)
(***************************************************************************)
EXTENDS Integers, FiniteSets

CONSTANTS
    Threads,      \* The threads that share the lock.
    None,         \* No thread (kThreadIdInvalid).
    MaxReads      \* Bound: how often a thread locks for reading recursively,
                  \* in the locks that allow it.

ASSUME LockStateAssumption ==
    /\ IsFiniteSet(Threads)
    /\ None \notin Threads
    /\ MaxReads \in Nat \ {0}

VARIABLES
    word,    \* The lock's own state: an atomic integer, or its fields.
    sema,    \* The counts of the lock's two semaphores.
    seen,    \* The value of the lock each thread last loaded (currVal), or
             \* the number of readers it has to wake.
    pc,      \* Where each thread is; "idle" outside of member functions.
    reads,   \* The read locks each thread has to undo.
    writes   \* The write locks each thread has to undo.

lockVars == <<word, sema, seen, pc, reads, writes>>

Goto(t, label) == pc' = [pc EXCEPT ![t] = label]
At(labels) == {t \in Threads : pc[t] \in labels}

Holds(t) == reads[t] > 0 \/ writes[t] > 0
Readers == {t \in Threads : reads[t] > 0}
Writers == {t \in Threads : writes[t] > 0}

\* All read locks: those of thread t are <<t, 1>>, <<t, 2>> and so on.
ReadLocks == {lock \in Threads \X (1 .. MaxReads) : lock[2] <= reads[lock[1]]}

\* Where thread t may call a function that locks.
MayLock(t) == pc[t] = "idle" /\ ~Holds(t)
MayReadAgain(t) == pc[t] = "idle" /\ writes[t] = 0 /\ reads[t] < MaxReads

\* The thread returns from its function with one more, or one less, lock.
GetRead(t) == reads' = [reads EXCEPT ![t] = @ + 1] /\ Goto(t, "idle") /\ UNCHANGED writes
GetWrite(t) == writes' = [writes EXCEPT ![t] = 1] /\ Goto(t, "idle") /\ UNCHANGED reads
DropRead(t) == reads[t] > 0 /\ reads' = [reads EXCEPT ![t] = @ - 1] /\ UNCHANGED writes
DropWrite(t) == writes[t] > 0 /\ writes' = [writes EXCEPT ![t] = 0] /\ UNCHANGED reads

\* Nothing changes but the place of thread t in its function.
Move(t, label) == Goto(t, label) /\ UNCHANGED <<word, sema, seen, reads, writes>>

InitUsers(loaded) ==
    /\ sema = [read |-> 0, write |-> 0]
    /\ seen = [t \in Threads |-> loaded]
    /\ pc = [t \in Threads |-> "idle"]
    /\ reads = [t \in Threads |-> 0]
    /\ writes = [t \in Threads |-> 0]

UsersTypeOK(labels) ==
    /\ pc \in [Threads -> labels]
    /\ reads \in [Threads -> 0 .. MaxReads]
    /\ writes \in [Threads -> 0 .. 1]
    /\ sema \in [read : Nat, write : Nat]
=============================================================================
