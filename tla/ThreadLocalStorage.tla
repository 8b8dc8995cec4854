------------------------- MODULE ThreadLocalStorage -------------------------
(***************************************************************************)
(* ThreadLocalStorage, made of a key of the system (POSIX, Sony, Windows), *)
(* of an array where the platform has one thread only, or of a map that a  *)
(* Futex guards.                                                           *)
(***************************************************************************)
EXTENDS Integers, FiniteSets

CONSTANTS
    StorageKinds,      \* The versions, of "pthread", "windows", "array", "map".
    StorageThreads,
    Storages,
    Pointees,          \* What threads store.
    NULL,
    NoEntry,           \* Of a thread that is not in a map.
    SystemKeys,        \* The keys the system has, 1 .. SystemKeys.
    EA_TLS_MAX_COUNT

\* NULL is no thread, storage, value or map, nor is NoEntry a value.
ASSUME StorageAssumption ==
    /\ StorageKinds \subseteq {"pthread", "windows", "array", "map"}
    /\ {SystemKeys, EA_TLS_MAX_COUNT} \subseteq Nat /\ EA_TLS_MAX_COUNT >= 2
    /\ StorageThreads # {} /\ NULL \notin StorageThreads \cup Storages
    /\ NULL # NoEntry /\ {NULL, NoEntry} \cap (Pointees \cup BOOLEAN) = {}
    /\ NULL \notin [StorageThreads -> Pointees \cup {NULL, NoEntry}]

VARIABLES
    version,
    alive,       \* The threads, and
    exists,      \* the storages there are.
    mKey,        \* The key of each storage, and
    mResult,     \* whether it was created.
    specific,    \* What the system holds for each thread and key in use.
    mDataArray, mDataArrayCount,
    mThreadToDataMap,   \* Of each storage: NULL, or the entries of its map.
    mFutex,
    doing,       \* The call each thread is in, and what it stores.
    ended        \* What the thread's last call returned.

storageVars == <<version, alive, exists, mKey, mResult, specific, mDataArray, mDataArrayCount,
                 mThreadToDataMap, mFutex, doing, ended>>
keyVars == <<mKey, mResult, specific>>
arrayVars == <<mDataArray, mDataArrayCount>>
mapVars == <<mThreadToDataMap, mFutex>>

Users == IF version = "array" THEN {CHOOSE t \in StorageThreads : TRUE} ELSE StorageThreads
Keys == 1 .. SystemKeys
Unused == NULL
FreeKeys == {k \in Keys : specific[k] = Unused}
OutOfIndexes == 0
NoPair == [mThreadID |-> NULL, mpData |-> NULL]
Fresh == [t \in StorageThreads |-> NULL]
NoEntries == [t \in StorageThreads |-> NoEntry]
Idle == [at |-> "idle", storage |-> NULL, value |-> NULL]

StorageInit ==
    /\ version \in StorageKinds
    /\ alive = StorageThreads /\ exists = {}
    /\ mKey = [s \in Storages |-> OutOfIndexes] /\ mResult = [s \in Storages |-> FALSE]
    /\ specific = [k \in Keys |-> Unused]
    /\ mDataArray = [s \in Storages |-> [i \in 1 .. EA_TLS_MAX_COUNT |-> NoPair]]
    /\ mDataArrayCount = [s \in Storages |-> 0]
    /\ mThreadToDataMap = [s \in Storages |-> NULL]
    /\ mFutex = [s \in Storages |-> NULL]
    /\ doing = [t \in StorageThreads |-> Idle]
    /\ ended = [t \in StorageThreads |-> NULL]

Answers(t, s, r) ==
    /\ t \in alive /\ doing[t] = Idle /\ s \in exists
    /\ ended' = [ended EXCEPT ![t] = r]
    /\ UNCHANGED <<version, alive, exists, doing>>

-----------------------------------------------------------------------------
(* Keys of the system.  When it has none left, the assertion fails: the    *)
(* program goes no further.                                                *)

KeyCreate(s) ==
    /\ version \in {"pthread", "windows"} /\ s \notin exists
    /\ \E k \in FreeKeys :
         /\ mKey' = [mKey EXCEPT ![s] = k]
         /\ mResult' = [mResult EXCEPT ![s] = TRUE]
         /\ specific' = [specific EXCEPT ![k] = Fresh]
    /\ exists' = exists \cup {s}
    /\ UNCHANGED <<version, alive, arrayVars, mapVars, doing, ended>>

KeyDelete(s) ==
    /\ version \in {"pthread", "windows"}
    /\ mResult[s] /\ specific' = [specific EXCEPT ![mKey[s]] = Unused]
    /\ mResult' = [mResult EXCEPT ![s] = FALSE]
    /\ mKey' = [mKey EXCEPT ![s] = OutOfIndexes]
    /\ UNCHANGED <<arrayVars, mapVars>>

KeyGet(t, s) ==
    /\ version \in {"pthread", "windows"}
    /\ s \in exists /\ Answers(t, s, specific[mKey[s]][t])
    /\ UNCHANGED <<keyVars, arrayVars, mapVars>>

KeySet(t, s) == \E p \in Pointees \cup {NULL} :
    /\ version \in {"pthread", "windows"}
    /\ s \in exists
    /\ specific' = [specific EXCEPT ![mKey[s]][t] = p]
    /\ Answers(t, s, TRUE)
    /\ UNCHANGED <<mKey, mResult, arrayVars, mapVars>>

-----------------------------------------------------------------------------
(* The array, searched by thread id.                                       *)

ArrayFound(t, s) == {i \in 1 .. mDataArrayCount[s] : mDataArray[s][i].mThreadID = t}
ArrayHasRoom(s) == mDataArrayCount[s] + 1 < EA_TLS_MAX_COUNT

OfArray(s, t) == IF ArrayFound(t, s) = {} THEN NULL
                 ELSE mDataArray[s][CHOOSE i \in ArrayFound(t, s) : TRUE].mpData

ArrayCreate(s) ==
    /\ version = "array" /\ s \notin exists
    /\ mDataArray' = [mDataArray EXCEPT ![s] = [i \in 1 .. EA_TLS_MAX_COUNT |-> NoPair]]
    /\ mDataArrayCount' = [mDataArrayCount EXCEPT ![s] = 0]
    /\ exists' = exists \cup {s}
    /\ UNCHANGED <<version, alive, keyVars, mapVars, doing, ended>>

ArrayGet(t, s) ==
    /\ version = "array"
    /\ Answers(t, s, OfArray(s, t))
    /\ UNCHANGED <<keyVars, arrayVars, mapVars>>

ArraySet(t, s) == \E p \in Pointees :
    /\ version = "array"
    /\ LET i == IF ArrayFound(t, s) # {} THEN CHOOSE i \in ArrayFound(t, s) : TRUE
                ELSE IF ArrayHasRoom(s) THEN mDataArrayCount[s] + 1 ELSE 0
       IN IF i = 0 THEN Answers(t, s, FALSE) /\ UNCHANGED arrayVars
          ELSE /\ mDataArray' = [mDataArray EXCEPT ![s][i] = [mThreadID |-> t, mpData |-> p]]
               /\ mDataArrayCount' = [mDataArrayCount EXCEPT ![s] = IF i > @ THEN i ELSE @]
               /\ Answers(t, s, TRUE)
    /\ UNCHANGED <<keyVars, mapVars>>

\* The pairs behind the removed one, and the one behind the last, move down.
ArrayClear(t, s) ==
    /\ version = "array"
    /\ LET n == mDataArrayCount[s] IN
       IF ArrayFound(t, s) = {} THEN UNCHANGED arrayVars
       ELSE LET found == CHOOSE i \in ArrayFound(t, s) : TRUE IN
            /\ mDataArray' = [mDataArray EXCEPT ![s] =
                   [i \in 1 .. EA_TLS_MAX_COUNT |-> IF i \in found .. n THEN @[i + 1] ELSE @[i]]]
            /\ mDataArrayCount' = [mDataArrayCount EXCEPT ![s] = n - 1]
    /\ Answers(t, s, TRUE)
    /\ UNCHANGED <<keyVars, mapVars>>

-----------------------------------------------------------------------------
(* The map.  GetTLSEntry locks the futex, makes the map when there is none *)
(* and an entry is asked for, and gives out the address of the thread's    *)
(* entry, which its caller reads or writes without the lock.               *)

MapCreate(s) ==
    /\ version = "map" /\ s \notin exists
    /\ mThreadToDataMap' = [mThreadToDataMap EXCEPT ![s] = NULL]
    /\ exists' = exists \cup {s}
    /\ UNCHANGED <<version, alive, keyVars, arrayVars, mFutex, doing, ended>>

MapDelete(s) ==
    /\ version = "map"
    /\ mThreadToDataMap' = [mThreadToDataMap EXCEPT ![s] = NULL]
    /\ UNCHANGED <<keyVars, arrayVars, mFutex>>

To(t, step) ==
    /\ doing' = [doing EXCEPT ![t].at = step]
    /\ UNCHANGED <<version, alive, exists, ended, keyVars, arrayVars>>
MapReturns(t, r) ==
    /\ doing' = [doing EXCEPT ![t] = Idle] /\ ended' = [ended EXCEPT ![t] = r]
    /\ UNCHANGED <<version, alive, exists, keyVars, arrayVars>>

MapCall(t, s) == \E p \in Pointees \cup {NULL}, step \in {"get", "set"} :
    /\ version = "map" /\ t \in alive /\ s \in exists /\ doing[t] = Idle
    /\ step = "get" => p = NULL
    /\ doing' = [doing EXCEPT ![t] = [at |-> step, storage |-> s, value |-> p]]
    /\ UNCHANGED <<version, alive, exists, ended, keyVars, arrayVars, mapVars>>

Enter(t, from, to) == LET s == doing[t].storage IN
    /\ doing[t].at = from /\ mFutex[s] = NULL
    /\ mFutex' = [mFutex EXCEPT ![s] = t]
    /\ To(t, to) /\ UNCHANGED mThreadToDataMap
Leave(t) == mFutex' = [mFutex EXCEPT ![doing[t].storage] = NULL]

\* SetValue(NULL) erases the entry.
EraseEntry(t) == LET s == doing[t].storage IN
    /\ doing[t].at = "erase"
    /\ mThreadToDataMap' = [mThreadToDataMap EXCEPT ![s] = IF @ = NULL THEN NULL ELSE [@ EXCEPT ![t] = NoEntry]]
    /\ Leave(t) /\ MapReturns(t, TRUE)

\* std::map inserts NULL when the thread has no entry.  To make the map and to
\* insert in it are two steps.
CreateMapAnew(t) ==        \* Mutant: it is made although there is one.
    doing[t].at = "make" /\ To(t, "made") /\ UNCHANGED mapVars
CreateMap(t) == LET s == doing[t].storage IN
    /\ doing[t].at = "make"
    /\ IF mThreadToDataMap[s] = NULL THEN To(t, "made") ELSE To(t, "insert")
    /\ UNCHANGED mapVars
KeepMap(t) == LET s == doing[t].storage IN
    /\ doing[t].at = "made" /\ To(t, "insert")
    /\ mThreadToDataMap' = [mThreadToDataMap EXCEPT ![s] = NoEntries]
    /\ UNCHANGED mFutex
InsertEntry(t) == LET s == doing[t].storage IN
    /\ doing[t].at = "insert"
    /\ mThreadToDataMap' = [mThreadToDataMap EXCEPT ![s][t] = IF @ = NoEntry THEN NULL ELSE @]
    /\ Leave(t) /\ To(t, "write")
WriteEntry(t) == LET s == doing[t].storage IN
    /\ doing[t].at = "write"
    /\ mThreadToDataMap' = [mThreadToDataMap EXCEPT ![s][t] = doing[t].value]
    /\ MapReturns(t, TRUE) /\ UNCHANGED mFutex

FindEntry(t) == LET s == doing[t].storage IN
    /\ doing[t].at = "find" /\ Leave(t) /\ UNCHANGED mThreadToDataMap
    /\ IF mThreadToDataMap[s] = NULL \/ mThreadToDataMap[s][t] = NoEntry
         THEN MapReturns(t, NULL) ELSE To(t, "read")
ReadEntry(t) ==
    /\ doing[t].at = "read"
    /\ MapReturns(t, mThreadToDataMap[doing[t].storage][t]) /\ UNCHANGED mapVars

MapStep(t) ==
    \/ Enter(t, "get", "find")
    \/ doing[t].value = NULL /\ Enter(t, "set", "erase")
    \/ doing[t].value # NULL /\ Enter(t, "set", "make")
    \/ EraseEntry(t) \/ CreateMap(t) \/ KeepMap(t) \/ InsertEntry(t) \/ WriteEntry(t)
    \/ FindEntry(t) \/ ReadEntry(t)

-----------------------------------------------------------------------------
\* A storage is destroyed, maybe by its factory, when no thread uses it.
DestroyStorage(s) ==
    /\ s \in exists /\ \A t \in Users : doing[t].storage # s
    /\ KeyDelete(s) \/ MapDelete(s) \/ (version = "array" /\ UNCHANGED <<keyVars, arrayVars, mapVars>>)
    /\ exists' = exists \ {s}
    /\ UNCHANGED <<version, alive, doing, ended>>

\* The system clears the keys of a thread that ends; in a map the documentation
\* asks the thread to clear its value.
EndThread(t) ==
    /\ t \in alive /\ doing[t] = Idle /\ version # "array"
    /\ \A s \in exists : mThreadToDataMap[s] # NULL => mThreadToDataMap[s][t] = NoEntry
    /\ specific' = [k \in Keys |-> IF k \in FreeKeys THEN Unused ELSE [specific[k] EXCEPT ![t] = NULL]]
    /\ alive' = alive \ {t}
    /\ ended' = [ended EXCEPT ![t] = NULL]
    /\ UNCHANGED <<version, exists, mKey, mResult, arrayVars, mapVars, doing>>

\* Another thread gets its id.
NewThread(t) ==
    /\ t \notin alive /\ alive' = alive \cup {t}
    /\ UNCHANGED <<version, exists, keyVars, arrayVars, mapVars, doing, ended>>

StorageNext ==
    \/ \E s \in Storages : KeyCreate(s) \/ ArrayCreate(s) \/ MapCreate(s) \/ DestroyStorage(s)
    \/ \E t \in Users :
         \/ MapStep(t) \/ EndThread(t) \/ NewThread(t)
         \/ \E s \in Storages : KeyGet(t, s) \/ KeySet(t, s) \/ ArrayGet(t, s) \/ ArraySet(t, s)
                                \/ ArrayClear(t, s) \/ MapCall(t, s)

-----------------------------------------------------------------------------
StorageTypeOK ==
    /\ version \in StorageKinds /\ exists \subseteq Storages /\ alive \subseteq StorageThreads
    /\ mKey \in [Storages -> Keys \cup {OutOfIndexes}] /\ mResult \in [Storages -> BOOLEAN]
    /\ \A k \in Keys \ FreeKeys : specific[k] \in [StorageThreads -> Pointees \cup {NULL}]
    /\ mDataArrayCount \in [Storages -> 0 .. EA_TLS_MAX_COUNT]
    /\ \A s \in exists : mResult[s] = (version \in {"pthread", "windows"})
    /\ \A s \in Storages : mThreadToDataMap[s] # NULL => s \in exists /\
         mThreadToDataMap[s] \in [StorageThreads -> Pointees \cup {NULL, NoEntry}]
    /\ mFutex \in [Storages -> StorageThreads \cup {NULL}]

OfMap(s, t) == IF mThreadToDataMap[s] = NULL \/ mThreadToDataMap[s][t] = NoEntry THEN NULL
               ELSE mThreadToDataMap[s][t]

Stored(s, t) ==
    IF s \notin exists THEN NULL
    ELSE IF version = "array" THEN OfArray(s, t)
    ELSE IF version = "map" THEN OfMap(s, t)
    ELSE specific[mKey[s]][t]

\* Each thread has a value of its own in each storage, for as long as both are
\* there: threads that make the map, insert and erase at once do not lose each
\* other's values, and a storage that gets the key of an old one, or a thread
\* that gets the id of an old one, starts empty.
PerThread == INSTANCE PerThreadValue
    WITH Threads <- StorageThreads, Pointers <- Pointees,
         value <- [s \in Storages |-> [t \in StorageThreads |-> Stored(s, t)]],
         got <- ended
ImplementsPerThreadValue == PerThread!Spec

\* A storage that is gone gives its key back to the system, and only that one:
\* there are as many keys free as the storages leave.
KeysAreExact == version \in {"pthread", "windows"} =>
    Cardinality(FreeKeys) = SystemKeys - Cardinality(exists)
=============================================================================
