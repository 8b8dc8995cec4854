------------------------------- MODULE MCData -------------------------------
(***************************************************************************)
(* Shared pointers, lists and thread local storages: initially one of them *)
(* is picked.                                                              *)
(***************************************************************************)
EXTENDS SharedPointer, SimpleList, ThreadLocalStorage

CONSTANT Structures    \* Of "shared", "list", "storage".

VARIABLE structure

allVars == <<structure, sharedVars, listVars, storageVars>>

\* What a structure is when it is not the one that is picked.
SharedFresh ==
    /\ pointer = [p \in Pointers |-> NoPointer] /\ refCount = [n \in Counts |-> 0] /\ values = {}
    /\ mMutex = [p \in Pointers |-> Unlocked]
    /\ call = [t \in Sharers |-> NoCall(t)] /\ at = [t \in Sharers |-> "idle"]
    /\ held = [t \in Sharers |-> NoPointer] /\ sole = [t \in Sharers |-> FALSE]

Init ==
    /\ structure \in Structures
    /\ IF structure = "shared" THEN SharedInit ELSE SharedFresh
    /\ ListInit
    /\ StorageInit /\ (structure = "storage" \/ version = CHOOSE v \in StorageKinds : TRUE)

Next ==
    /\ UNCHANGED structure
    /\ \/ structure = "shared" /\ SharedNext /\ UNCHANGED <<listVars, storageVars>>
       \/ structure = "list" /\ ListNext /\ UNCHANGED <<sharedVars, storageVars>>
       \/ structure = "storage" /\ StorageNext /\ UNCHANGED <<sharedVars, listVars>>

Spec == Init /\ [][Next]_allVars

SharerStep(t) ==
    structure = "shared" /\ SharedStep(t) /\ UNCHANGED <<structure, listVars, storageVars>>

\* The scheduler runs the threads, and a lock that is free again and again does
\* not pass a thread over for ever.
FairSpec == Spec /\ \A t \in Sharers : SF_allVars(SharerStep(t))

\* shared_ptr_mt: a count is the number of the pointers that share the value, the
\* value lives until the last is gone, and unique() is true of sole owners only.
\* simple_list: the nodes are linked both ways, mnSize of them.
\* ThreadLocalStorage: each storage has a key, an array or a map of its own and
\* gives it back.
StructuresAreExact ==
    /\ SharedTypeOK /\ RefCountsAreExact /\ ValuesLiveWhileShared /\ UniqueIsSole
    /\ ListTypeOK /\ NodesAreLinkedBothWays
    /\ StorageTypeOK /\ KeysAreExact
=============================================================================
