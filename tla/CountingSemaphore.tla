------------------------- MODULE CountingSemaphore -------------------------
(***************************************************************************)
(* What class Semaphore promises (eathread_semaphore.h): a Wait that       *)
(* succeeds takes one unit that was there, one that fails takes none, and  *)
(* a Post adds units.  Semaphores implements this for every platform.      *)
(***************************************************************************)
EXTENDS Integers

CONSTANTS
    Threads,
    MaxPost        \* The most that one Post adds.

VARIABLES
    value,         \* The units that threads can take.
    call           \* The call each thread is in ("wait" or "post"), or what
                   \* its last call returned.

Results == {"none", "ok", "failed"}

TypeOK == value \in Nat /\ call \in [Threads -> Results \cup {"wait", "post"}]

Init == value \in Nat /\ call = [t \in Threads |-> "none"]

Move(t, from, to) == call[t] = from /\ call' = [call EXCEPT ![t] = to]

Call(t) == \E r \in Results, c \in {"wait", "post"} : Move(t, r, c) /\ UNCHANGED value
Take(t) == value > 0 /\ value' = value - 1 /\ Move(t, "wait", "ok")
GiveUp(t) == Move(t, "wait", "failed") /\ UNCHANGED value
Put(t) == \E n \in 1 .. MaxPost, to \in {"post", "ok"} : value' = value + n /\ Move(t, "post", to)
Return(t) == \E r \in {"ok", "failed"} : Move(t, "post", r) /\ UNCHANGED value

Next == \E t \in Threads : Call(t) \/ Take(t) \/ GiveUp(t) \/ Put(t) \/ Return(t)

Spec == Init /\ [][Next]_<<value, call>>
=============================================================================
