----------------------------- MODULE AtomicCell -----------------------------
(***************************************************************************)
(* An atomic integer: every call takes effect at one moment, and returns   *)
(* what is promised of that moment.                                        *)
(***************************************************************************)
CONSTANTS
    After(_, _),    \* The value after a call that is made on a value,
    Promised(_, _), \* and what that call returns.
    Threads,
    Calls,          \* Operations with their operand and, where it has one, condition.
    NoAnswer

VARIABLES
    value,
    answer          \* The last call of each thread and what it returned.

Init == value = 0 /\ answer = [t \in Threads |-> NoAnswer]

Act(t) == \E c \in Calls :
    /\ answer[t] = NoAnswer
    /\ value' = After(c, value)
    /\ answer' = [answer EXCEPT ![t] = <<c, Promised(c, value)>>]

Forget(t) == answer[t] # NoAnswer /\ answer' = [answer EXCEPT ![t] = NoAnswer] /\ UNCHANGED value

Next == \E t \in Threads : Act(t) \/ Forget(t)

Spec == Init /\ [][Next]_<<value, answer>>
=============================================================================
