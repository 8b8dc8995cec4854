--------------------------- MODULE CyclicBarrier ---------------------------
(***************************************************************************)
(* What class Barrier promises (eathread_barrier.h): a thread passes when  *)
(* Height threads have come, and of those that pass together exactly one   *)
(* is told that it is the primary one.  Barriers implements this.          *)
(***************************************************************************)
EXTENDS Naturals, FiniteSets

CONSTANTS Threads, Height

VARIABLES
    place,       \* Where each thread is: "out", "in" (it waits), "through" (it
                 \* may pass).
    primary      \* Whether the primary thread of the last round was told.

TypeOK == place \in [Threads -> {"out", "in", "through"}] /\ primary \in BOOLEAN

In(p) == {t \in Threads : place[t] = p}

Init == place = [t \in Threads |-> "out"] /\ primary = TRUE

Arrive(t) ==
    /\ place[t] = "out"
    /\ Cardinality(In("in")) + 1 < Height
    /\ place' = [place EXCEPT ![t] = "in"]
    /\ UNCHANGED primary

\* The last one opens the barrier, when the round before is over.
Open(t) ==
    /\ place[t] = "out" /\ In("through") = {}
    /\ Cardinality(In("in")) + 1 = Height
    /\ place' = [u \in Threads |-> IF u = t \/ place[u] = "in" THEN "through" ELSE place[u]]
    /\ primary' = FALSE

PassPrimary(t) ==
    /\ place[t] = "through" /\ ~primary
    /\ place' = [place EXCEPT ![t] = "out"]
    /\ primary' = TRUE

\* The last one to pass is the primary one if nobody else was.
PassSecondary(t) ==
    /\ place[t] = "through" /\ (primary \/ In("through") # {t})
    /\ place' = [place EXCEPT ![t] = "out"]
    /\ UNCHANGED primary

Next == \E t \in Threads : Arrive(t) \/ Open(t) \/ PassPrimary(t) \/ PassSecondary(t)

Spec == Init /\ [][Next]_<<place, primary>>
=============================================================================
