--------------------------- MODULE RecursiveLock ---------------------------
(***************************************************************************)
(* What a recursive lock promises its users, whatever it is made of: a     *)
(* thread gets one more hold on the lock only while no other thread has a  *)
(* hold on it.  Futex implements this specification.                       *)
(***************************************************************************)
EXTENDS Naturals

CONSTANT Threads

VARIABLE held     \* held[t]: the number of locks thread t has to undo.

TypeOK == held \in [Threads -> Nat]

Init == held = [t \in Threads |-> 0]

Acquire(t) ==
    /\ \A u \in Threads \ {t} : held[u] = 0
    /\ held' = [held EXCEPT ![t] = @ + 1]

Release(t) ==
    /\ held[t] > 0
    /\ held' = [held EXCEPT ![t] = @ - 1]

Next == \E t \in Threads : Acquire(t) \/ Release(t)

Spec == Init /\ [][Next]_held
=============================================================================
