--------------------------- MODULE PerThreadValue ---------------------------
(***************************************************************************)
(* What a thread local storage promises: every thread has a value in every *)
(* storage, which nobody else sees or changes, and which stays until the   *)
(* thread sets it, or the thread or the storage is gone; it is NULL when   *)
(* the thread or the storage is new.                                       *)
(***************************************************************************)
CONSTANTS Threads, Storages, Pointers, NULL

VARIABLES
    alive,    \* The threads, and
    exists,   \* the storages there are.
    value,    \* Of each storage and thread.
    got       \* What the thread's last call returned.

vars == <<alive, exists, value, got>>

Init ==
    /\ alive = Threads /\ exists = {}
    /\ value = [s \in Storages |-> [t \in Threads |-> NULL]]
    /\ got = [t \in Threads |-> NULL]

GetValue(t, s) ==
    /\ t \in alive /\ s \in exists
    /\ got' = [got EXCEPT ![t] = value[s][t]]
    /\ UNCHANGED <<alive, exists, value>>
SetValue(t, s) == \E p \in Pointers \cup {NULL} :
    /\ t \in alive /\ s \in exists
    /\ value' = [value EXCEPT ![s][t] = p]
    /\ got' = [got EXCEPT ![t] = TRUE]
    /\ UNCHANGED <<alive, exists>>
Refuse(t) ==
    /\ t \in alive /\ got' = [got EXCEPT ![t] = FALSE]
    /\ UNCHANGED <<alive, exists, value>>

\* Its values go with a thread, and with a storage the values in it.
EndThread(t) ==
    /\ t \in alive /\ alive' = alive \ {t}
    /\ value' = [s \in Storages |-> [value[s] EXCEPT ![t] = NULL]]
    /\ got' = [got EXCEPT ![t] = NULL]
    /\ UNCHANGED exists
DestroyStorage(s) ==
    /\ s \in exists /\ exists' = exists \ {s}
    /\ value' = [value EXCEPT ![s] = [t \in Threads |-> NULL]]
    /\ UNCHANGED <<alive, got>>

NewThread(t) ==
    /\ t \notin alive /\ alive' = alive \cup {t}
    /\ UNCHANGED <<exists, value, got>>
NewStorage(s) ==
    /\ s \notin exists /\ exists' = exists \cup {s}
    /\ UNCHANGED <<alive, value, got>>

Next ==
    \/ \E t \in Threads :
         \/ EndThread(t) \/ NewThread(t) \/ Refuse(t)
         \/ \E s \in Storages : GetValue(t, s) \/ SetValue(t, s)
    \/ \E s \in Storages : NewStorage(s) \/ DestroyStorage(s)

Spec == Init /\ [][Next]_vars
=============================================================================
