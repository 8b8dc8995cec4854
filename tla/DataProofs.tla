------------------------------ MODULE DataProofs ------------------------------
(***************************************************************************)
(* Proofs about MCData: shared pointers, lists and thread local storages,  *)
(* for any number of threads, pointers, items, storages and keys.          *)
(***************************************************************************)
EXTENDS MCData, FiniteSetTheorems, FunctionTheorems, SequenceTheorems, WellFoundedInduction, TLAPS

(* Numbers.                                                                *)

LEMMA CountIs ==
    ASSUME NEW n \in Nat
    PROVE  IsFiniteSet(1 .. n) /\ Cardinality(1 .. n) = n
<1>1. IsFiniteSet(1 .. n) /\ Cardinality(1 .. n) = IF 1 > n THEN 0 ELSE n - 1 + 1
  BY FS_Interval
<1> QED
  BY <1>1

\* A set of natural numbers has a least one.
LEMMA LeastOf ==
    ASSUME NEW S \in SUBSET Nat, S # {}
    PROVE  \E x \in S : \A y \in S : x <= y
<1> DEFINE R == OpToRel(<, Nat)
<1>1. IsWellFoundedOn(R, Nat)
  BY NatLessThanWellFounded
<1> HIDE DEF R
<1>2. PICK x \in S : \A y \in S : ~(<<y, x>> \in R)
  BY <1>1, WFMin
<1>3. ASSUME NEW y \in S PROVE x <= y
  <2>1. y \in Nat /\ x \in Nat
    OBVIOUS
  <2>2. y < x => <<y, x>> \in R
    BY <2>1 DEF R, OpToRel
  <2> QED
    BY <1>2, <2>1, <2>2
<1> QED
  BY <1>3

\* Induction up to n, for a property as the set of the numbers that have it.
LEMMA ReachesAll ==
    ASSUME NEW n \in Nat, NEW S, 0 \in S, \A k \in 0 .. n - 1 : k \in S => k + 1 \in S
    PROVE  0 .. n \subseteq S
<1> SUFFICES ASSUME ~(0 .. n \subseteq S) PROVE FALSE
  OBVIOUS
<1> DEFINE T == (0 .. n) \ S
<1>1. T \in SUBSET Nat /\ T # {}
  OBVIOUS
<1>2. PICK x \in T : \A y \in T : x <= y
  BY <1>1, LeastOf
<1>3. x \in 0 .. n /\ x \notin S /\ x # 0
  OBVIOUS
<1>4. x - 1 \in 0 .. n - 1 /\ x - 1 \in 0 .. n /\ ~(x <= x - 1)
  BY <1>3
<1>5. x - 1 \in S
  BY <1>2, <1>4
<1> QED
  BY <1>3, <1>4, <1>5

-----------------------------------------------------------------------------
USE SharedPointerAssumption, SimpleListAssumption, StorageAssumption

\* The structure that is picked makes a step, the others stay.
LEMMA OneStructureMoves ==
    [Next]_allVars =>
        /\ SharedNext \/ UNCHANGED sharedVars
        /\ ListNext \/ UNCHANGED listVars
        /\ StorageNext \/ UNCHANGED storageVars
<1> SUFFICES ASSUME [Next]_allVars
             PROVE  /\ SharedNext \/ UNCHANGED sharedVars
                    /\ ListNext \/ UNCHANGED listVars
                    /\ StorageNext \/ UNCHANGED storageVars
  OBVIOUS
<1>1. CASE UNCHANGED allVars
  BY <1>1 DEF allVars
<1>2. CASE Next
  BY <1>2 DEF Next
<1> QED
  BY <1>1, <1>2

-----------------------------------------------------------------------------
(* Thread local storages.                                                  *)

WithKeys == version \in {"pthread", "windows"}
Locked == {"find", "erase", "make", "made", "insert"}
MapSteps == Locked \cup {"get", "set", "write", "read"}
Values == Pointees \cup {NULL}

StorageTypes ==
    /\ version \in StorageKinds /\ exists \subseteq Storages /\ alive \subseteq StorageThreads
    /\ mKey \in [Storages -> Keys \cup {OutOfIndexes}] /\ mResult \in [Storages -> BOOLEAN]
    /\ specific \in [Keys -> [StorageThreads -> Values] \cup {NULL}]
    /\ mDataArray \in [Storages -> [1 .. EA_TLS_MAX_COUNT ->
          [mThreadID : StorageThreads \cup {NULL}, mpData : Values]]]
    /\ mDataArrayCount \in [Storages -> 0 .. EA_TLS_MAX_COUNT]
    /\ mThreadToDataMap \in [Storages -> [StorageThreads -> Values \cup {NoEntry}] \cup {NULL}]
    /\ mFutex \in [Storages -> StorageThreads \cup {NULL}]
    /\ doing \in [StorageThreads -> [at : MapSteps \cup {"idle"}, storage : Storages \cup {NULL},
                                     value : Values]]
    /\ DOMAIN ended = StorageThreads

\* Each storage has a key of its own, and only storages have keys.
KeyInv ==
    /\ \A s \in exists : WithKeys => mKey[s] \in Keys /\ specific[mKey[s]] # NULL
    /\ \A s, r \in exists : WithKeys /\ mKey[s] = mKey[r] => s = r
    /\ \A k \in Keys : specific[k] # NULL => WithKeys /\ \E s \in exists : mKey[s] = k
    /\ \A s \in Storages : mResult[s] <=> WithKeys /\ s \in exists

\* In the array there is the pair of the one thread, or none.
ArrayInv ==
    version = "array" => \A s \in Storages :
        /\ mDataArrayCount[s] \in {0, 1}
        /\ mDataArrayCount[s] = 1 => mDataArray[s][1].mThreadID \in Users

\* A thread between two steps of a call knows of the map what the futex, or its
\* being the only one to touch its entry, keeps.
MapRight(t) ==
    LET s == doing[t].storage IN
    /\ doing[t].at = "idle" => doing[t] = Idle
    /\ doing[t].at # "idle" => version = "map" /\ s \in exists /\ t \in alive
    /\ doing[t].at \in Locked => mFutex[s] = t
    /\ doing[t].at \in {"get", "find", "read", "erase"} => doing[t].value = NULL
    /\ doing[t].at = "made" => mThreadToDataMap[s] = NULL
    /\ doing[t].at \in {"insert", "write", "read"} => mThreadToDataMap[s] # NULL
    /\ doing[t].at \in {"write", "read"} => mThreadToDataMap[s][t] # NoEntry

MapInv ==
    /\ \A t \in StorageThreads : MapRight(t)
    /\ \A s \in Storages : mThreadToDataMap[s] # NULL => version = "map" /\ s \in exists

StorageInv == StorageTypes /\ KeyInv /\ ArrayInv /\ MapInv

LEMMA StorageBegins == StorageInit => StorageInv
<1> SUFFICES ASSUME StorageInit PROVE StorageInv
  OBVIOUS
<1> USE DEF StorageInit
<1>2. \A s \in Storages : ~mResult[s]
  OBVIOUS
<1>4. mDataArray \in [Storages -> [1 .. EA_TLS_MAX_COUNT ->
          [mThreadID : StorageThreads \cup {NULL}, mpData : Values]]]
  BY DEF NoPair, Values
<1>5. doing \in [StorageThreads -> [at : MapSteps \cup {"idle"}, storage : Storages \cup {NULL},
                                     value : Values]]
  BY DEF Idle, Values
<1>6. specific \in [Keys -> [StorageThreads -> Values] \cup {NULL}]
  BY DEF Unused
<1>7. StorageTypes
  BY <1>4, <1>5, <1>6 DEF StorageTypes, OutOfIndexes
<1>8. KeyInv
  BY <1>2 DEF KeyInv, Unused
<1>9. ArrayInv
  BY DEF ArrayInv
<1>10. MapInv
  BY DEF MapInv, MapRight, Idle, Locked
<1> QED
  BY <1>7, <1>8, <1>9, <1>10 DEF StorageInv
LEMMA UsersAre ==
    /\ Users \subseteq StorageThreads
    /\ version = "array" => \E c \in StorageThreads : Users = {c}
<1> DEFINE c == CHOOSE t \in StorageThreads : TRUE
<1>1. c \in StorageThreads
  OBVIOUS
<1>2. Users = IF version = "array" THEN {c} ELSE StorageThreads
  BY DEF Users
<1> HIDE DEF c
<1> QED
  BY <1>1, <1>2

\* NULL, NoEntry and the entries of a thread are told apart.
LEMMA NullIs ==
    /\ NULL \notin [StorageThreads -> Values] /\ NULL \notin [StorageThreads -> Values \cup {NoEntry}]
    /\ NULL \in Values /\ NoEntry \notin Values
    /\ Fresh \in [StorageThreads -> Values] /\ NoEntries \in [StorageThreads -> Values \cup {NoEntry}]
    /\ \A v \in Pointees : v # NULL
<1>1. [StorageThreads -> Values] \subseteq [StorageThreads -> Values \cup {NoEntry}]
  OBVIOUS
<1>2. Values \cup {NoEntry} = Pointees \cup {NULL, NoEntry}
  BY DEF Values
<1>3. Fresh \in [StorageThreads -> Values] /\ NoEntries \in [StorageThreads -> Values \cup {NoEntry}]
  BY DEF Values, Fresh, NoEntries
<1>4. NULL \notin [StorageThreads -> Values \cup {NoEntry}]
  BY <1>2
<1>5. NULL \in Values /\ NoEntry \notin Values /\ \A v \in Pointees : v # NULL
  BY DEF Values
<1> QED
  BY <1>1, <1>3, <1>4, <1>5

LEMMA StorageInvKeeps == StorageInv => StorageTypeOK
<1> SUFFICES ASSUME StorageInv PROVE StorageTypeOK
  OBVIOUS
<1> USE DEF StorageInv, StorageTypes
<1>1. \A k \in Keys \ FreeKeys : specific[k] \in [StorageThreads -> Pointees \cup {NULL}]
  BY DEF FreeKeys, Unused, Values
<1>2. \A s \in exists : mResult[s] = WithKeys
  BY DEF KeyInv, WithKeys
<1>3. \A s \in Storages : mThreadToDataMap[s] # NULL => s \in exists /\
       mThreadToDataMap[s] \in [StorageThreads -> Pointees \cup {NULL, NoEntry}]
  <2>1. Values \cup {NoEntry} = Pointees \cup {NULL, NoEntry}
    BY DEF Values
  <2> QED
    BY <2>1 DEF MapInv, MapRight
<1> QED
  BY <1>1, <1>2, <1>3 DEF StorageTypeOK, WithKeys

LEMMA KeyCreateKeeps ==
    ASSUME StorageInv, NEW s \in Storages, KeyCreate(s)
    PROVE  StorageInv'
<1> USE DEF KeyCreate, arrayVars, mapVars, WithKeys
<1>1. PICK k \in FreeKeys : /\ mKey' = [mKey EXCEPT ![s] = k]
                            /\ mResult' = [mResult EXCEPT ![s] = TRUE]
                            /\ specific' = [specific EXCEPT ![k] = Fresh]
  OBVIOUS
<1>2. k \in Keys /\ specific[k] = NULL
  BY DEF FreeKeys, Unused
<1> USE DEF StorageInv
<1>3. KeyInv'
  <2>1. Fresh # NULL /\ exists \subseteq Storages
    BY NullIs DEF StorageTypes
  <2>2. DOMAIN specific = Keys /\ DOMAIN mKey = Storages /\ DOMAIN mResult = Storages
    BY DEF StorageTypes
  <2>3. \A r \in exists : r # s /\ mKey[r] # k
    BY <1>2 DEF KeyInv
  <2> QED
    BY <1>1, <1>2, <2>1, <2>2, <2>3 DEF KeyInv
<1>4. MapInv'
  BY DEF MapInv, MapRight
<1>5. ArrayInv'
  BY DEF ArrayInv, Users
<1>6. specific' \in [Keys -> [StorageThreads -> Values] \cup {NULL}]
  BY <1>1, <1>2, NullIs DEF StorageTypes
<1>7. StorageTypes'
  BY <1>1, <1>2, <1>6 DEF StorageTypes
<1> QED
  BY <1>3, <1>4, <1>5, <1>7
LEMMA KeyCallsKeep ==
    ASSUME StorageInv, NEW t \in Users, NEW s \in Storages, KeyGet(t, s) \/ KeySet(t, s)
    PROVE  StorageInv'
<1> USE DEF KeyGet, KeySet, Answers, keyVars, arrayVars, mapVars, WithKeys, StorageInv
<1>1. t \in StorageThreads
  BY UsersAre
<1>2. DOMAIN ended' = StorageThreads
  BY <1>1 DEF StorageTypes
<1>3. /\ UNCHANGED <<version, alive, exists, doing, mKey, mResult, arrayVars, mapVars>>
      /\ s \in exists
  OBVIOUS
<1>4. /\ specific' \in [Keys -> [StorageThreads -> Values] \cup {NULL}]
      /\ \A k \in Keys : specific'[k] = NULL <=> specific[k] = NULL
  <2>1. CASE KeyGet(t, s)
    BY <2>1 DEF StorageTypes
  <2>2. CASE KeySet(t, s)
    <3>1. PICK p \in Pointees \cup {NULL} : specific' = [specific EXCEPT ![mKey[s]][t] = p]
      BY <2>2
    <3>2. version \in {"pthread", "windows"}
      BY <2>2
    <3>3. mKey[s] \in Keys /\ specific[mKey[s]] # NULL
      BY <1>3, <3>2 DEF KeyInv
    <3>4. specific[mKey[s]] \in [StorageThreads -> Values]
      BY <3>3 DEF StorageTypes
    <3> DEFINE f == [specific[mKey[s]] EXCEPT ![t] = p]
    <3>5. f \in [StorageThreads -> Values] /\ specific' = [specific EXCEPT ![mKey[s]] = f]
      BY <1>1, <3>1, <3>4 DEF Values
    <3>6. f # NULL
      BY <3>5, NullIs
    <3> HIDE DEF f
    <3> QED
      BY <3>3, <3>5, <3>6 DEF StorageTypes
  <2> QED
    BY <2>1, <2>2
<1>5. StorageTypes'
  BY <1>2, <1>3, <1>4 DEF StorageTypes
<1>6. KeyInv'
  <2>1. \A r \in exists : WithKeys => mKey[r] \in Keys
    BY DEF KeyInv
  <2> QED
    BY <1>3, <1>4, <2>1 DEF KeyInv
<1>7. ArrayInv'
  BY <1>3 DEF ArrayInv, Users
<1>8. MapInv'
  BY <1>3 DEF MapInv, MapRight
<1> QED
  BY <1>5, <1>6, <1>7, <1>8

LEMMA ArrayCreateKeeps ==
    ASSUME StorageInv, NEW s \in Storages, ArrayCreate(s)
    PROVE  StorageInv'
<1> USE DEF ArrayCreate, keyVars, mapVars, WithKeys, StorageInv
<1>1. /\ mDataArray' \in [Storages -> [1 .. EA_TLS_MAX_COUNT ->
             [mThreadID : StorageThreads \cup {NULL}, mpData : Values]]]
      /\ mDataArrayCount' \in [Storages -> 0 .. EA_TLS_MAX_COUNT]
  <2>1. [i \in 1 .. EA_TLS_MAX_COUNT |-> NoPair] \in [1 .. EA_TLS_MAX_COUNT ->
             [mThreadID : StorageThreads \cup {NULL}, mpData : Values]]
    BY DEF NoPair, Values
  <2> QED
    BY <2>1 DEF StorageTypes
<1>2. StorageTypes'
  BY <1>1 DEF StorageTypes
<1>3. KeyInv'
  BY DEF KeyInv
<1>4. ArrayInv'
  BY DEF ArrayInv, Users, StorageTypes
<1>5. MapInv'
  BY DEF MapInv, MapRight
<1> QED
  BY <1>2, <1>3, <1>4, <1>5

\* The one thread finds its pair at 1 or none, and then there is room.
LEMMA ArrayFoundIs ==
    ASSUME StorageInv, version = "array", NEW t \in Users, NEW s \in Storages
    PROVE  /\ ArrayFound(t, s) = IF mDataArrayCount[s] = 1 THEN {1} ELSE {}
           /\ ArrayHasRoom(s) \/ mDataArrayCount[s] = 1
           /\ (CHOOSE i \in {1} : TRUE) = 1
           /\ mDataArrayCount[s] \in {0, 1}
<1>1. mDataArrayCount[s] \in {0, 1} /\ (mDataArrayCount[s] = 1 => mDataArray[s][1].mThreadID = t)
  <2>1. \A u \in Users : u = t
    BY UsersAre
  <2>2. /\ mDataArrayCount[s] \in {0, 1}
        /\ mDataArrayCount[s] = 1 => mDataArray[s][1].mThreadID \in Users
    BY DEF StorageInv, ArrayInv
  <2> QED
    BY <2>1, <2>2
<1>2. ArrayHasRoom(s) \/ mDataArrayCount[s] = 1
  BY <1>1 DEF ArrayHasRoom
<1>3. CASE mDataArrayCount[s] = 1
  <2>1. 1 .. mDataArrayCount[s] = {1}
    BY <1>3
  <2>2. ArrayFound(t, s) = {1}
    BY <1>1, <1>3, <2>1 DEF ArrayFound
  <2> QED
    BY <1>1, <1>2, <1>3, <2>2
<1>4. CASE mDataArrayCount[s] = 0
  <2>1. 1 .. mDataArrayCount[s] = {}
    BY <1>4
  <2>2. ArrayFound(t, s) = {}
    BY <2>1 DEF ArrayFound
  <2> QED
    BY <1>1, <1>2, <1>4, <2>2
<1> QED
  BY <1>1, <1>3, <1>4

LEMMA ArrayCallsKeep ==
    ASSUME StorageInv, NEW t \in Users, NEW s \in Storages,
           ArrayGet(t, s) \/ ArraySet(t, s) \/ ArrayClear(t, s)
    PROVE  StorageInv'
<1> USE DEF keyVars, arrayVars, mapVars, WithKeys, StorageInv
<1>1. t \in StorageThreads
  BY UsersAre
<1>2. DOMAIN ended' = StorageThreads
  BY <1>1 DEF StorageTypes, ArrayGet, ArraySet, ArrayClear, Answers
<1>3. /\ UNCHANGED <<version, alive, exists, doing, keyVars, mapVars>>
      /\ version = "array"
  BY DEF ArrayGet, ArraySet, ArrayClear, Answers
<1>8. /\ ArrayFound(t, s) = IF mDataArrayCount[s] = 1 THEN {1} ELSE {}
      /\ ArrayHasRoom(s) \/ mDataArrayCount[s] = 1
      /\ (CHOOSE i \in {1} : TRUE) = 1
      /\ mDataArrayCount[s] \in {0, 1}
  BY <1>3, ArrayFoundIs
<1>4. /\ mDataArray' \in [Storages -> [1 .. EA_TLS_MAX_COUNT ->
             [mThreadID : StorageThreads \cup {NULL}, mpData : Values]]]
      /\ mDataArrayCount' \in [Storages -> 0 .. EA_TLS_MAX_COUNT]
      /\ ArrayInv'
  <2>1. CASE ArrayGet(t, s)
    BY <2>1 DEF ArrayGet, Answers, StorageTypes, ArrayInv, Users
  <2>2. CASE ArraySet(t, s)
    <3>1. PICK p \in Pointees :
             LET i == IF ArrayFound(t, s) # {} THEN CHOOSE i \in ArrayFound(t, s) : TRUE
                      ELSE IF ArrayHasRoom(s) THEN mDataArrayCount[s] + 1 ELSE 0
             IN IF i = 0 THEN Answers(t, s, FALSE) /\ UNCHANGED arrayVars
                ELSE /\ mDataArray' = [mDataArray EXCEPT ![s][i] = [mThreadID |-> t, mpData |-> p]]
                     /\ mDataArrayCount' = [mDataArrayCount EXCEPT ![s] = IF i > @ THEN i ELSE @]
                     /\ Answers(t, s, TRUE)
      BY <2>2 DEF ArraySet
    <3>2. (IF ArrayFound(t, s) # {} THEN CHOOSE i \in ArrayFound(t, s) : TRUE
           ELSE IF ArrayHasRoom(s) THEN mDataArrayCount[s] + 1 ELSE 0) = 1
      <4>1. CASE mDataArrayCount[s] = 1
        <5>1. ArrayFound(t, s) = {1}
          BY <1>8, <4>1
        <5>2. (CHOOSE i \in ArrayFound(t, s) : TRUE) \in ArrayFound(t, s)
          BY <5>1
        <5> QED
          BY <5>1, <5>2
      <4>2. CASE mDataArrayCount[s] = 0
        BY <1>8, <4>2
      <4> QED
        BY <1>8, <4>1, <4>2
    <3>3. /\ mDataArray' = [mDataArray EXCEPT ![s][1] = [mThreadID |-> t, mpData |-> p]]
          /\ mDataArrayCount' = [mDataArrayCount EXCEPT ![s] = IF 1 > @ THEN 1 ELSE @]
      <4> DEFINE i == IF ArrayFound(t, s) # {} THEN CHOOSE i \in ArrayFound(t, s) : TRUE
                      ELSE IF ArrayHasRoom(s) THEN mDataArrayCount[s] + 1 ELSE 0
      <4>1. i = 1
        BY <3>2
      <4>2. IF i = 0 THEN Answers(t, s, FALSE) /\ UNCHANGED arrayVars
            ELSE /\ mDataArray' = [mDataArray EXCEPT ![s][i] = [mThreadID |-> t, mpData |-> p]]
                 /\ mDataArrayCount' = [mDataArrayCount EXCEPT ![s] = IF i > @ THEN i ELSE @]
                 /\ Answers(t, s, TRUE)
        BY <3>1
      <4> HIDE DEF i
      <4> QED
        BY <4>1, <4>2
    <3>4. mDataArrayCount' = [mDataArrayCount EXCEPT ![s] = 1]
      <4>1. (IF 1 > mDataArrayCount[s] THEN 1 ELSE mDataArrayCount[s]) = 1
        BY <1>8
      <4> QED
        BY <3>3, <4>1
    <3>5. [mThreadID |-> t, mpData |-> p] \in [mThreadID : StorageThreads \cup {NULL}, mpData : Values]
      BY <1>1 DEF Values
    <3>6. 1 \in 1 .. EA_TLS_MAX_COUNT
      OBVIOUS
    <3>7. mDataArray'[s][1].mThreadID = t
      BY <3>3, <3>6 DEF StorageTypes
    <3> QED
      BY <1>3, <3>3, <3>4, <3>5, <3>6, <3>7 DEF StorageTypes, ArrayInv, Users
  <2>3. CASE ArrayClear(t, s)
    <3>1. CASE mDataArrayCount[s] = 0
      BY <1>3, <1>8, <2>3, <3>1 DEF ArrayClear, StorageTypes, ArrayInv, Users
    <3>2. CASE mDataArrayCount[s] = 1
      <4>1. /\ mDataArray' = [mDataArray EXCEPT ![s] =
                   [i \in 1 .. EA_TLS_MAX_COUNT |-> IF i \in 1 .. 1 THEN @[i + 1] ELSE @[i]]]
            /\ mDataArrayCount' = [mDataArrayCount EXCEPT ![s] = 0]
        BY <1>8, <2>3, <3>2 DEF ArrayClear
      <4>2. [i \in 1 .. EA_TLS_MAX_COUNT |-> IF i \in 1 .. 1 THEN mDataArray[s][i + 1] ELSE mDataArray[s][i]]
               \in [1 .. EA_TLS_MAX_COUNT -> [mThreadID : StorageThreads \cup {NULL}, mpData : Values]]
        <5>1. mDataArray[s] \in [1 .. EA_TLS_MAX_COUNT ->
                                    [mThreadID : StorageThreads \cup {NULL}, mpData : Values]]
          BY DEF StorageTypes
        <5>2. ASSUME NEW i \in 1 .. EA_TLS_MAX_COUNT
              PROVE  (IF i \in 1 .. 1 THEN i + 1 ELSE i) \in 1 .. EA_TLS_MAX_COUNT
          OBVIOUS
        <5> QED
          BY <5>1, <5>2
      <4> QED
        BY <1>3, <4>1, <4>2 DEF StorageTypes, ArrayInv, Users
    <3> QED
      BY <1>8, <3>1, <3>2
  <2> QED
    BY <2>1, <2>2, <2>3
<1>5. StorageTypes'
  BY <1>2, <1>3, <1>4 DEF StorageTypes
<1>6. KeyInv'
  BY <1>3 DEF KeyInv
<1>7. MapInv'
  BY <1>3 DEF MapInv, MapRight
<1> QED
  BY <1>4, <1>5, <1>6, <1>7
LEMMA MapCreateKeeps ==
    ASSUME StorageInv, NEW s \in Storages, MapCreate(s)
    PROVE  StorageInv'
<1> USE DEF MapCreate, keyVars, arrayVars, WithKeys, StorageInv
<1>1. mThreadToDataMap' = mThreadToDataMap
  BY DEF MapInv, MapRight, StorageTypes
<1>2. StorageTypes'
  BY <1>1 DEF StorageTypes
<1>3. KeyInv'
  BY DEF KeyInv
<1>4. ArrayInv'
  BY DEF ArrayInv, Users
<1>5. MapInv'
  BY <1>1 DEF MapInv, MapRight
<1> QED
  BY <1>2, <1>3, <1>4, <1>5

LEMMA DestroyKeeps ==
    ASSUME StorageInv, NEW s \in Storages, DestroyStorage(s)
    PROVE  StorageInv'
<1> USE DEF DestroyStorage, keyVars, arrayVars, mapVars, StorageInv
<1>1. /\ UNCHANGED <<version, doing, ended, arrayVars, mFutex>>
      /\ s \in exists /\ exists' = exists \ {s}
      /\ \A t \in StorageThreads : version # "array" => doing[t].storage # s
  BY DEF KeyDelete, MapDelete, Users
<1>2. CASE KeyDelete(s)
  <2> USE <1>2 DEF KeyDelete, WithKeys
  <2>1. mKey[s] \in Keys /\ specific[mKey[s]] # NULL
    BY <1>1 DEF KeyInv
  <2>2. /\ specific' = [specific EXCEPT ![mKey[s]] = NULL]
        /\ mKey' = [mKey EXCEPT ![s] = OutOfIndexes]
        /\ mResult' = [mResult EXCEPT ![s] = FALSE]
        /\ mThreadToDataMap' = mThreadToDataMap
    BY DEF Unused
  <2>3. StorageTypes'
    BY <1>1, <2>1, <2>2 DEF StorageTypes
  <2>4. KeyInv'
    <3>1. DOMAIN specific = Keys /\ DOMAIN mKey = Storages /\ DOMAIN mResult = Storages /\ exists \subseteq Storages
      BY DEF StorageTypes
    <3>2. \A r \in exists : r # s => mKey[r] # mKey[s]
      BY <1>1 DEF KeyInv
    <3> QED
      BY <1>1, <2>1, <2>2, <3>1, <3>2 DEF KeyInv
  <2>5. ArrayInv'
    BY <1>1 DEF ArrayInv, Users
  <2>6. MapInv'
    BY <1>1, <2>2 DEF MapInv, MapRight
  <2> QED
    BY <2>3, <2>4, <2>5, <2>6
<1>3. CASE MapDelete(s)
  <2> USE <1>3 DEF MapDelete, WithKeys
  <2>1. mThreadToDataMap' = [mThreadToDataMap EXCEPT ![s] = NULL]
    OBVIOUS
  <2>2. StorageTypes'
    BY <1>1, <2>1 DEF StorageTypes
  <2>3. KeyInv'
    BY <1>1 DEF KeyInv
  <2>4. ArrayInv'
    BY <1>1 DEF ArrayInv, Users
  <2>5. MapInv'
    <3>1. DOMAIN mThreadToDataMap = Storages
      BY DEF StorageTypes
    <3>2. \A t \in StorageThreads : doing[t].at # "idle" => doing[t].storage # s
      BY <1>1 DEF MapInv, MapRight
    <3>3. \A r \in Storages : r # s => mThreadToDataMap'[r] = mThreadToDataMap[r]
      BY <2>1, <3>1
    <3>4. mThreadToDataMap'[s] = NULL
      BY <2>1, <3>1
    <3>5. \A t \in StorageThreads : doing[t].at # "idle" => doing[t].storage \in Storages
      BY DEF MapInv, MapRight, StorageTypes
    <3>6. ASSUME NEW t \in StorageThreads PROVE MapRight(t)'
      <4>1. CASE doing[t].at = "idle"
        BY <1>1, <4>1 DEF MapInv, Locked, MapRight
      <4>2. CASE doing[t].at # "idle"
        <5>1. doing[t].storage # s /\ doing[t].storage \in Storages
          BY <3>2, <3>5, <4>2
        <5>2. mThreadToDataMap'[doing[t].storage] = mThreadToDataMap[doing[t].storage]
          BY <3>3, <5>1
        <5> QED
          BY <1>1, <4>2, <5>1, <5>2 DEF MapInv, MapRight
      <4> QED
        BY <4>1, <4>2
    <3>7. \A r \in Storages : mThreadToDataMap'[r] # NULL => version = "map" /\ r \in exists'
      BY <1>1, <3>3, <3>4 DEF MapInv, MapRight
    <3> QED
      BY <1>1, <3>6, <3>7 DEF MapInv, MapRight
  <2> QED
    BY <2>2, <2>3, <2>4, <2>5
<1>4. CASE version = "array" /\ UNCHANGED <<keyVars, arrayVars, mapVars>>
  <2> USE <1>4 DEF WithKeys
  <2>1. StorageTypes'
    BY <1>1 DEF StorageTypes
  <2>2. KeyInv'
    BY <1>1 DEF KeyInv
  <2>3. ArrayInv'
    BY <1>1 DEF ArrayInv, Users
  <2>4. MapInv'
    BY <1>1 DEF MapInv, MapRight
  <2> QED
    BY <2>1, <2>2, <2>3, <2>4
<1> QED
  BY <1>2, <1>3, <1>4

LEMMA EndThreadKeeps ==
    ASSUME StorageInv, NEW t \in Users, EndThread(t)
    PROVE  StorageInv'
<1> USE DEF EndThread, arrayVars, mapVars, WithKeys, StorageInv
<1>1. t \in StorageThreads
  BY UsersAre
<1>2. ASSUME NEW k \in Keys
      PROVE  /\ specific[k] = NULL => specific'[k] = NULL
             /\ specific[k] # NULL => specific'[k] \in [StorageThreads -> Values] /\ specific'[k] # NULL
  <2>1. specific'[k] = IF specific[k] = NULL THEN NULL ELSE [specific[k] EXCEPT ![t] = NULL]
    BY DEF FreeKeys, Unused
  <2>2. specific[k] # NULL => [specific[k] EXCEPT ![t] = NULL] \in [StorageThreads -> Values]
    BY NullIs DEF StorageTypes
  <2> QED
    BY <2>1, <2>2, NullIs
<1>3. specific' \in [Keys -> [StorageThreads -> Values] \cup {NULL}]
  BY <1>2
<1>4. StorageTypes'
  BY <1>1, <1>3 DEF StorageTypes
<1>5. KeyInv'
  <2>1. \A r \in exists : WithKeys => mKey[r] \in Keys
    BY DEF KeyInv
  <2>2. UNCHANGED <<version, exists, mKey, mResult>>
    OBVIOUS
  <2> QED
    BY <1>2, <2>1, <2>2 DEF KeyInv
<1>6. ArrayInv'
  BY DEF ArrayInv, Users
<1>7. MapInv'
  BY <1>1 DEF MapInv, MapRight, Idle, Locked
<1> QED
  BY <1>4, <1>5, <1>6, <1>7
LEMMA NewThreadKeeps ==
    ASSUME StorageInv, NEW t \in Users, NewThread(t)
    PROVE  StorageInv'
<1> USE DEF NewThread, keyVars, arrayVars, mapVars, StorageInv
<1>1. t \in StorageThreads
  BY UsersAre
<1>2. StorageTypes' /\ KeyInv'
  BY <1>1 DEF StorageTypes, KeyInv, WithKeys
<1>3. ArrayInv'
  BY DEF ArrayInv, Users
<1>4. MapInv'
  BY DEF MapInv, MapRight
<1> QED
  BY <1>2, <1>3, <1>4

\* The other threads stay right when t makes a step: what they have locked, what
\* there is in the maps, and their entries, is left to them.
LEMMA OthersKeepTheMap ==
    ASSUME StorageInv, NEW t \in StorageThreads, NEW u \in StorageThreads, u # t,
           MapRight(u),
           UNCHANGED <<version, alive, exists>>, doing'[u] = doing[u],
           \A s \in Storages : mFutex[s] = u => mFutex'[s] = u,
           \A s \in Storages : mFutex[s] = u /\ mThreadToDataMap[s] = NULL => mThreadToDataMap'[s] = NULL,
           \A s \in Storages : mThreadToDataMap[s] # NULL =>
               /\ mThreadToDataMap'[s] # NULL
               /\ mThreadToDataMap[s][u] # NoEntry => mThreadToDataMap'[s][u] # NoEntry
    PROVE  MapRight(u)'
<1>1. CASE doing[u].at = "idle"
  BY <1>1 DEF MapRight, Locked
<1>2. CASE doing[u].at # "idle"
  <2>1. doing[u].storage \in Storages
    BY <1>2 DEF MapRight, StorageInv, StorageTypes
  <2> QED
    BY <1>2, <2>1 DEF MapRight, Locked
<1> QED
  BY <1>1, <1>2

LEMMA MapCallKeeps ==
    ASSUME StorageInv, NEW t \in Users, NEW s \in Storages, MapCall(t, s)
    PROVE  StorageInv'
<1> USE DEF keyVars, arrayVars, mapVars, WithKeys, StorageInv
<1>1. t \in StorageThreads
  BY UsersAre
<1>2. PICK p \in Pointees \cup {NULL}, step \in {"get", "set"} :
         /\ version = "map" /\ s \in exists /\ t \in alive /\ doing[t] = Idle
         /\ step = "get" => p = NULL
         /\ doing' = [doing EXCEPT ![t] = [at |-> step, storage |-> s, value |-> p]]
  BY DEF MapCall
<1>3. UNCHANGED <<version, alive, exists, ended, keyVars, arrayVars, mapVars>>
  BY DEF MapCall
<1>4. StorageTypes'
  BY <1>1, <1>2, <1>3 DEF StorageTypes, MapSteps, Values
<1>5. KeyInv'
  BY <1>3 DEF KeyInv
<1>6. ArrayInv'
  BY <1>3 DEF ArrayInv, Users
<1>7. doing'[t] = [at |-> step, storage |-> s, value |-> p]
  BY <1>1, <1>2 DEF StorageTypes
<1>8. MapRight(t)'
  BY <1>2, <1>3, <1>7 DEF MapRight, Locked
<1>9. ASSUME NEW u \in StorageThreads, u # t PROVE MapRight(u)'
  <2>1. doing'[u] = doing[u] /\ MapRight(u)
    BY <1>2, <1>9 DEF MapInv, StorageTypes
  <2> QED
    BY <1>1, <1>3, <1>9, <2>1 DEF MapRight
<1> QED
  BY <1>3, <1>4, <1>5, <1>6, <1>8, <1>9 DEF MapInv

\* A step of a call, by what it does with the call, the futex and the map.
LEMMA MapStepIs ==
    ASSUME StorageInv, NEW t \in Users, MapStep(t), NEW s, s = doing[t].storage
    PROVE  /\ version = "map" /\ s \in exists /\ s \in Storages /\ t \in StorageThreads
           /\ t \in alive /\ MapRight(t)
           /\ UNCHANGED <<version, alive, exists, keyVars, arrayVars>>
           /\ DOMAIN ended' = StorageThreads
           /\ \/ \E a \in MapSteps : doing' = [doing EXCEPT ![t].at = a]
              \/ doing' = [doing EXCEPT ![t] = Idle]
<1> USE DEF MapStep, Enter, EraseEntry, CreateMap, KeepMap, InsertEntry, WriteEntry, FindEntry,
            ReadEntry, To, MapReturns, StorageInv
<1>1. t \in StorageThreads
  BY UsersAre
<1>2. doing[t].at # "idle"
  OBVIOUS
<1>3. MapRight(t)
  BY <1>1 DEF MapInv
<1>4. version = "map" /\ s \in exists /\ s \in Storages /\ t \in alive
  BY <1>2, <1>3 DEF MapRight, StorageTypes
<1>5. DOMAIN ended' = StorageThreads
  BY DEF StorageTypes
<1>6. UNCHANGED <<version, alive, exists, keyVars, arrayVars>>
  OBVIOUS
<1>7. \/ \E a \in MapSteps : doing' = [doing EXCEPT ![t].at = a]
      \/ doing' = [doing EXCEPT ![t] = Idle]
  BY DEF MapSteps, Locked
<1> QED
  BY <1>1, <1>3, <1>4, <1>5, <1>6, <1>7
\* What a step does with futex and map: nobody else's.
LEMMA MapStepChanges ==
    ASSUME StorageInv, NEW t \in Users, MapStep(t), NEW s, s = doing[t].storage
    PROVE  /\ mFutex' \in [Storages -> StorageThreads \cup {NULL}]
           /\ mThreadToDataMap' \in [Storages -> [StorageThreads -> Values \cup {NoEntry}] \cup {NULL}]
           /\ \A u \in StorageThreads : u # t =>
                 /\ \A r \in Storages : mFutex[r] = u => mFutex'[r] = u
                 /\ \A r \in Storages : mFutex[r] = u /\ mThreadToDataMap[r] = NULL => mThreadToDataMap'[r] = NULL
                 /\ \A r \in Storages : mThreadToDataMap[r] # NULL =>
                       /\ mThreadToDataMap'[r] # NULL
                       /\ mThreadToDataMap[r][u] # NoEntry => mThreadToDataMap'[r][u] # NoEntry
           /\ \A r \in Storages : r # s => mThreadToDataMap'[r] = mThreadToDataMap[r]
           /\ MapRight(t)'
<1> DEFINE Goal ==
        /\ mFutex' \in [Storages -> StorageThreads \cup {NULL}]
        /\ mThreadToDataMap' \in [Storages -> [StorageThreads -> Values \cup {NoEntry}] \cup {NULL}]
        /\ \A u \in StorageThreads : u # t =>
              /\ \A r \in Storages : mFutex[r] = u => mFutex'[r] = u
              /\ \A r \in Storages : mFutex[r] = u /\ mThreadToDataMap[r] = NULL => mThreadToDataMap'[r] = NULL
              /\ \A r \in Storages : mThreadToDataMap[r] # NULL =>
                    /\ mThreadToDataMap'[r] # NULL
                    /\ mThreadToDataMap[r][u] # NoEntry => mThreadToDataMap'[r][u] # NoEntry
        /\ \A r \in Storages : r # s => mThreadToDataMap'[r] = mThreadToDataMap[r]
        /\ MapRight(t)'
<1>1. /\ version = "map" /\ s \in exists /\ s \in Storages /\ t \in StorageThreads
      /\ MapRight(t)
      /\ UNCHANGED <<version, alive, exists, keyVars, arrayVars>>
  BY MapStepIs
<1>2. /\ mFutex \in [Storages -> StorageThreads \cup {NULL}]
      /\ mThreadToDataMap \in [Storages -> [StorageThreads -> Values \cup {NoEntry}] \cup {NULL}]
      /\ doing \in [StorageThreads -> [at : MapSteps \cup {"idle"}, storage : Storages \cup {NULL}, value : Values]]
  BY DEF StorageInv, StorageTypes
<1>3. \A x \in MapSteps : doing' = [doing EXCEPT ![t].at = x] =>
          doing'[t].at = x /\ doing'[t].storage = s /\ doing'[t].value = doing[t].value
  BY <1>1, <1>2
<1>4. doing' = [doing EXCEPT ![t] = Idle] => MapRight(t)'
  BY <1>1, <1>2 DEF MapRight, Locked, Idle
<1>5. \A m \in Values \cup {NoEntry}, f \in [StorageThreads -> Values \cup {NoEntry}] :
          /\ [f EXCEPT ![t] = m] \in [StorageThreads -> Values \cup {NoEntry}]
          /\ [f EXCEPT ![t] = m] # NULL /\ [f EXCEPT ![t] = m][t] = m
          /\ \A u \in StorageThreads : u # t => [f EXCEPT ![t] = m][u] = f[u]
  <2> SUFFICES ASSUME NEW m \in Values \cup {NoEntry}, NEW f \in [StorageThreads -> Values \cup {NoEntry}]
               PROVE  /\ [f EXCEPT ![t] = m] \in [StorageThreads -> Values \cup {NoEntry}]
                      /\ [f EXCEPT ![t] = m] # NULL /\ [f EXCEPT ![t] = m][t] = m
                      /\ \A u \in StorageThreads : u # t => [f EXCEPT ![t] = m][u] = f[u]
    OBVIOUS
  <2>1. [f EXCEPT ![t] = m] \in [StorageThreads -> Values \cup {NoEntry}]
    OBVIOUS
  <2> QED
    BY <1>1, <2>1, NullIs
<1> USE DEF mapVars
<1>10. ASSUME NEW from, NEW to, <<from, to>> \in {<<"get", "find">>, <<"set", "erase">>, <<"set", "make">>},
              Enter(t, from, to), to = "erase" => doing[t].value = NULL
       PROVE  Goal
  <2>1. /\ doing[t].at = from /\ mFutex[s] = NULL
        /\ mFutex' = [mFutex EXCEPT ![s] = t]
        /\ doing' = [doing EXCEPT ![t].at = to] /\ mThreadToDataMap' = mThreadToDataMap
    BY <1>10 DEF Enter, To
  <2>2. to \in {"find", "erase", "make"} /\ from \in {"get", "set"} /\ (to = "find" => from = "get")
    BY <1>10
  <2>3. doing'[t].at = to /\ doing'[t].storage = s /\ doing'[t].value = doing[t].value
    BY <1>3, <2>1, <2>2 DEF MapSteps, Locked
  <2>4. mFutex'[s] = t /\ \A r \in Storages : r # s => mFutex'[r] = mFutex[r]
    BY <1>1, <1>2, <2>1
  <2>5. MapRight(t)'
    BY <1>1, <1>10, <2>1, <2>2, <2>3, <2>4 DEF MapRight, Locked
  <2>6. mFutex' \in [Storages -> StorageThreads \cup {NULL}]
    BY <1>1, <1>2, <2>1
  <2> QED
    BY <1>2, <2>1, <2>4, <2>5, <2>6
<1>11. CASE EraseEntry(t)
  <2>1. /\ doing[t].at = "erase" /\ mFutex' = [mFutex EXCEPT ![s] = NULL]
        /\ mThreadToDataMap' = [mThreadToDataMap EXCEPT ![s] = IF @ = NULL THEN NULL ELSE [@ EXCEPT ![t] = NoEntry]]
        /\ doing' = [doing EXCEPT ![t] = Idle]
    BY <1>11 DEF EraseEntry, Leave, MapReturns
  <2>2. mFutex[s] = t
    BY <1>1, <2>1 DEF MapRight, Locked
  <2>3. mFutex'[s] = NULL /\ \A r \in Storages : r # s => mFutex'[r] = mFutex[r]
    BY <1>1, <1>2, <2>1
  <2>4. /\ mThreadToDataMap'[s] = IF mThreadToDataMap[s] = NULL THEN NULL ELSE [mThreadToDataMap[s] EXCEPT ![t] = NoEntry]
        /\ \A r \in Storages : r # s => mThreadToDataMap'[r] = mThreadToDataMap[r]
    BY <1>1, <1>2, <2>1
  <2>5. /\ mThreadToDataMap[s] # NULL =>
              /\ mThreadToDataMap[s] \in [StorageThreads -> Values \cup {NoEntry}]
              /\ mThreadToDataMap'[s] = [mThreadToDataMap[s] EXCEPT ![t] = NoEntry]
              /\ mThreadToDataMap'[s] # NULL
              /\ mThreadToDataMap'[s] \in [StorageThreads -> Values \cup {NoEntry}]
              /\ \A u \in StorageThreads : u # t => mThreadToDataMap'[s][u] = mThreadToDataMap[s][u]
    <3> SUFFICES ASSUME mThreadToDataMap[s] # NULL
                 PROVE  /\ mThreadToDataMap[s] \in [StorageThreads -> Values \cup {NoEntry}]
                        /\ mThreadToDataMap'[s] = [mThreadToDataMap[s] EXCEPT ![t] = NoEntry]
                        /\ mThreadToDataMap'[s] # NULL
                        /\ mThreadToDataMap'[s] \in [StorageThreads -> Values \cup {NoEntry}]
                        /\ \A u \in StorageThreads : u # t => mThreadToDataMap'[s][u] = mThreadToDataMap[s][u]
      OBVIOUS
    <3>1. mThreadToDataMap[s] \in [StorageThreads -> Values \cup {NoEntry}]
      BY <1>1, <1>2
    <3>2. mThreadToDataMap'[s] = [mThreadToDataMap[s] EXCEPT ![t] = NoEntry]
      BY <2>4
    <3>3. NoEntry \in Values \cup {NoEntry}
      OBVIOUS
    <3> QED
      BY <1>5, <3>1, <3>2, <3>3
  <2>6. mThreadToDataMap' \in [Storages -> [StorageThreads -> Values \cup {NoEntry}] \cup {NULL}]
    BY <1>1, <1>2, <2>1, <2>4, <2>5
  <2>7. mFutex' \in [Storages -> StorageThreads \cup {NULL}]
    BY <1>1, <1>2, <2>1
  <2> QED
    BY <1>4, <2>1, <2>2, <2>3, <2>4, <2>5, <2>6, <2>7
<1>12. CASE CreateMap(t)
  <2>1. /\ doing[t].at = "make" /\ UNCHANGED <<mFutex, mThreadToDataMap>>
        /\ IF mThreadToDataMap[s] = NULL THEN doing' = [doing EXCEPT ![t].at = "made"]
           ELSE doing' = [doing EXCEPT ![t].at = "insert"]
    BY <1>12 DEF CreateMap, To
  <2>2. MapRight(t)'
    BY <1>1, <1>3, <2>1 DEF MapRight, Locked, MapSteps
  <2> QED
    BY <1>2, <2>1, <2>2
<1>13. CASE KeepMap(t)
  <2>1. /\ doing[t].at = "made" /\ UNCHANGED mFutex
        /\ doing' = [doing EXCEPT ![t].at = "insert"]
        /\ mThreadToDataMap' = [mThreadToDataMap EXCEPT ![s] = NoEntries]
    BY <1>13 DEF KeepMap, To
  <2>2. mFutex[s] = t /\ mThreadToDataMap[s] = NULL
    BY <1>1, <2>1 DEF MapRight, Locked
  <2>3. /\ mThreadToDataMap'[s] = NoEntries /\ NoEntries # NULL
        /\ \A r \in Storages : r # s => mThreadToDataMap'[r] = mThreadToDataMap[r]
    BY <1>1, <1>2, <2>1, NullIs
  <2>4. MapRight(t)'
    BY <1>1, <1>3, <2>1, <2>3 DEF MapRight, Locked, MapSteps
  <2>5. mThreadToDataMap' \in [Storages -> [StorageThreads -> Values \cup {NoEntry}] \cup {NULL}]
    BY <1>1, <1>2, <2>1, NullIs
  <2> QED
    BY <1>2, <2>1, <2>2, <2>3, <2>4, <2>5
<1>14. CASE InsertEntry(t)
  <2> DEFINE v == IF mThreadToDataMap[s][t] = NoEntry THEN NULL ELSE mThreadToDataMap[s][t]
  <2>1. /\ doing[t].at = "insert" /\ mFutex' = [mFutex EXCEPT ![s] = NULL]
        /\ doing' = [doing EXCEPT ![t].at = "write"]
        /\ mThreadToDataMap' = [mThreadToDataMap EXCEPT ![s][t] = IF @ = NoEntry THEN NULL ELSE @]
    BY <1>14 DEF InsertEntry, Leave, To
  <2>2. mFutex[s] = t /\ mThreadToDataMap[s] # NULL
    BY <1>1, <2>1 DEF MapRight, Locked
  <2>3. mThreadToDataMap[s] \in [StorageThreads -> Values \cup {NoEntry}]
    BY <1>1, <1>2, <2>2
  <2>4. v \in Values /\ v # NoEntry
    BY <1>1, <2>3, NullIs
  <2>5. mThreadToDataMap' = [mThreadToDataMap EXCEPT ![s] = [mThreadToDataMap[s] EXCEPT ![t] = v]]
    BY <1>1, <1>2, <2>1
  <2> HIDE DEF v
  <2>6. /\ mThreadToDataMap'[s] = [mThreadToDataMap[s] EXCEPT ![t] = v]
        /\ \A r \in Storages : r # s => mThreadToDataMap'[r] = mThreadToDataMap[r]
    BY <1>1, <1>2, <2>5
  <2>7. /\ mThreadToDataMap'[s] # NULL /\ mThreadToDataMap'[s] \in [StorageThreads -> Values \cup {NoEntry}]
        /\ mThreadToDataMap'[s][t] = v
        /\ \A u \in StorageThreads : u # t => mThreadToDataMap'[s][u] = mThreadToDataMap[s][u]
    BY <1>5, <2>3, <2>4, <2>6
  <2>8. mFutex'[s] = NULL /\ \A r \in Storages : r # s => mFutex'[r] = mFutex[r]
    BY <1>1, <1>2, <2>1
  <2>9. MapRight(t)'
    BY <1>1, <1>3, <2>1, <2>4, <2>7 DEF MapRight, Locked, MapSteps
  <2>10. mThreadToDataMap' \in [Storages -> [StorageThreads -> Values \cup {NoEntry}] \cup {NULL}]
    BY <1>1, <1>2, <2>5, <2>6, <2>7
  <2>11. mFutex' \in [Storages -> StorageThreads \cup {NULL}]
    BY <1>1, <1>2, <2>1
  <2> QED
    BY <1>2, <2>1, <2>2, <2>6, <2>7, <2>8, <2>9, <2>10, <2>11
<1>15. CASE WriteEntry(t)
  <2>1. /\ doing[t].at = "write" /\ UNCHANGED mFutex
        /\ doing' = [doing EXCEPT ![t] = Idle]
        /\ mThreadToDataMap' = [mThreadToDataMap EXCEPT ![s][t] = doing[t].value]
    BY <1>15 DEF WriteEntry, MapReturns
  <2>2. mThreadToDataMap[s] # NULL
    BY <1>1, <2>1 DEF MapRight
  <2>3. mThreadToDataMap[s] \in [StorageThreads -> Values \cup {NoEntry}] /\ doing[t].value \in Values
    BY <1>1, <1>2, <2>2
  <2>5. mThreadToDataMap' = [mThreadToDataMap EXCEPT ![s] = [mThreadToDataMap[s] EXCEPT ![t] = doing[t].value]]
    BY <1>1, <1>2, <2>1
  <2>6. /\ mThreadToDataMap'[s] = [mThreadToDataMap[s] EXCEPT ![t] = doing[t].value]
        /\ \A r \in Storages : r # s => mThreadToDataMap'[r] = mThreadToDataMap[r]
    BY <1>1, <1>2, <2>5
  <2>7. /\ mThreadToDataMap'[s] # NULL /\ mThreadToDataMap'[s] \in [StorageThreads -> Values \cup {NoEntry}]
        /\ \A u \in StorageThreads : u # t => mThreadToDataMap'[s][u] = mThreadToDataMap[s][u]
    BY <1>5, <2>3, <2>6
  <2>10. mThreadToDataMap' \in [Storages -> [StorageThreads -> Values \cup {NoEntry}] \cup {NULL}]
    BY <1>1, <1>2, <2>5, <2>6, <2>7
  <2> QED
    BY <1>2, <1>4, <2>1, <2>2, <2>6, <2>7, <2>10
<1>16. CASE FindEntry(t)
  <2>1. /\ doing[t].at = "find" /\ mFutex' = [mFutex EXCEPT ![s] = NULL] /\ UNCHANGED mThreadToDataMap
        /\ IF mThreadToDataMap[s] = NULL \/ mThreadToDataMap[s][t] = NoEntry
           THEN doing' = [doing EXCEPT ![t] = Idle] ELSE doing' = [doing EXCEPT ![t].at = "read"]
    BY <1>16 DEF FindEntry, Leave, To, MapReturns
  <2>2. mFutex[s] = t
    BY <1>1, <2>1 DEF MapRight, Locked
  <2>3. mFutex'[s] = NULL /\ \A r \in Storages : r # s => mFutex'[r] = mFutex[r]
    BY <1>1, <1>2, <2>1
  <2>4. MapRight(t)'
    <3>1. CASE mThreadToDataMap[s] = NULL \/ mThreadToDataMap[s][t] = NoEntry
      BY <1>4, <2>1, <3>1
    <3>2. CASE ~(mThreadToDataMap[s] = NULL \/ mThreadToDataMap[s][t] = NoEntry)
      BY <1>1, <1>3, <2>1, <3>2 DEF MapRight, Locked, MapSteps
    <3> QED
      BY <3>1, <3>2
  <2>5. mFutex' \in [Storages -> StorageThreads \cup {NULL}]
    BY <1>1, <1>2, <2>1
  <2> QED
    BY <1>2, <2>1, <2>2, <2>3, <2>4, <2>5
<1>17. CASE ReadEntry(t)
  BY <1>2, <1>4, <1>17 DEF ReadEntry, MapReturns
<1> QED
  <2>1. CASE Enter(t, "get", "find")
    BY <1>10, <2>1
  <2>2. CASE doing[t].value = NULL /\ Enter(t, "set", "erase")
    BY <1>10, <2>2
  <2>3. CASE Enter(t, "set", "make")
    BY <1>10, <2>3
  <2> QED
    BY <1>11, <1>12, <1>13, <1>14, <1>15, <1>16, <1>17, <2>1, <2>2, <2>3 DEF MapStep

LEMMA MapStepKeeps ==
    ASSUME StorageInv, NEW t \in Users, MapStep(t)
    PROVE  StorageInv'
<1> DEFINE s == doing[t].storage
<1>1. /\ version = "map" /\ s \in exists /\ s \in Storages /\ t \in StorageThreads
      /\ UNCHANGED <<version, alive, exists, keyVars, arrayVars>>
      /\ DOMAIN ended' = StorageThreads
      /\ \/ \E a \in MapSteps : doing' = [doing EXCEPT ![t].at = a]
         \/ doing' = [doing EXCEPT ![t] = Idle]
  BY MapStepIs
<1>2. /\ mFutex' \in [Storages -> StorageThreads \cup {NULL}]
      /\ mThreadToDataMap' \in [Storages -> [StorageThreads -> Values \cup {NoEntry}] \cup {NULL}]
      /\ \A u \in StorageThreads : u # t =>
            /\ \A r \in Storages : mFutex[r] = u => mFutex'[r] = u
            /\ \A r \in Storages : mFutex[r] = u /\ mThreadToDataMap[r] = NULL => mThreadToDataMap'[r] = NULL
            /\ \A r \in Storages : mThreadToDataMap[r] # NULL =>
                  /\ mThreadToDataMap'[r] # NULL
                  /\ mThreadToDataMap[r][u] # NoEntry => mThreadToDataMap'[r][u] # NoEntry
      /\ \A r \in Storages : r # s => mThreadToDataMap'[r] = mThreadToDataMap[r]
      /\ MapRight(t)'
  BY MapStepChanges
<1>3. doing' \in [StorageThreads -> [at : MapSteps \cup {"idle"}, storage : Storages \cup {NULL}, value : Values]]
  <2>1. doing \in [StorageThreads -> [at : MapSteps \cup {"idle"}, storage : Storages \cup {NULL}, value : Values]]
    BY DEF StorageInv, StorageTypes
  <2>2. ASSUME NEW a \in MapSteps, doing' = [doing EXCEPT ![t].at = a] 
        PROVE  doing' \in [StorageThreads -> [at : MapSteps \cup {"idle"}, storage : Storages \cup {NULL}, value : Values]]
    BY <1>1, <2>1, <2>2
  <2>3. CASE doing' = [doing EXCEPT ![t] = Idle]
    BY <1>1, <2>1, <2>3, NullIs DEF Idle
  <2> QED
    BY <1>1, <2>2, <2>3
<1>4. \A u \in StorageThreads : u # t => doing'[u] = doing[u]
  BY <1>1 DEF StorageInv, StorageTypes
<1>5. \A u \in StorageThreads : MapRight(u)'
  <2> SUFFICES ASSUME NEW u \in StorageThreads PROVE MapRight(u)'
    OBVIOUS
  <2>1. CASE u = t
    BY <1>2, <2>1
  <2>2. CASE u # t
    <3>1. MapRight(u) /\ doing'[u] = doing[u] /\ t \in StorageThreads
          /\ UNCHANGED <<version, alive, exists>>
      BY <1>1, <1>4, <2>2 DEF StorageInv, MapInv
    <3>2. /\ \A r \in Storages : mFutex[r] = u => mFutex'[r] = u
          /\ \A r \in Storages : mFutex[r] = u /\ mThreadToDataMap[r] = NULL => mThreadToDataMap'[r] = NULL
          /\ \A r \in Storages : mThreadToDataMap[r] # NULL =>
                /\ mThreadToDataMap'[r] # NULL
                /\ mThreadToDataMap[r][u] # NoEntry => mThreadToDataMap'[r][u] # NoEntry
      BY <1>2, <2>2
    <3> HIDE DEF s
    <3> QED
      BY <2>2, <3>1, <3>2, OthersKeepTheMap
  <2> QED
    BY <2>1, <2>2
<1>6. \A r \in Storages : mThreadToDataMap'[r] # NULL => version' = "map" /\ r \in exists'
  BY <1>1, <1>2 DEF StorageInv, MapInv
<1> HIDE DEF s
<1> USE DEF keyVars, arrayVars, StorageInv
<1>7. StorageTypes'
  BY <1>1, <1>2, <1>3 DEF StorageTypes
<1>8. KeyInv'
  BY <1>1 DEF KeyInv, WithKeys
<1>9. ArrayInv'
  BY <1>1 DEF ArrayInv, Users
<1>10. MapInv'
  BY <1>5, <1>6 DEF MapInv
<1> QED
  BY <1>7, <1>8, <1>9, <1>10

LEMMA StorageGoesOn == StorageInv /\ (StorageNext \/ UNCHANGED storageVars) => StorageInv'
<1> SUFFICES ASSUME StorageInv, StorageNext \/ UNCHANGED storageVars PROVE StorageInv'
  OBVIOUS
<1>1. CASE UNCHANGED storageVars
  BY <1>1 DEF storageVars, StorageInv, StorageTypes, KeyInv, WithKeys, ArrayInv, Users, MapInv, MapRight
<1>2. CASE \E s \in Storages : KeyCreate(s) \/ ArrayCreate(s) \/ MapCreate(s) \/ DestroyStorage(s)
  BY <1>2, KeyCreateKeeps, ArrayCreateKeeps, MapCreateKeeps, DestroyKeeps
<1>3. ASSUME NEW t \in Users, MapStep(t) \/ EndThread(t) \/ NewThread(t) PROVE StorageInv'
  BY <1>3, MapStepKeeps, EndThreadKeeps, NewThreadKeeps
<1>4. ASSUME NEW t \in Users, NEW s \in Storages,
             \/ KeyGet(t, s) \/ KeySet(t, s) \/ ArrayGet(t, s) \/ ArraySet(t, s)
             \/ ArrayClear(t, s) \/ MapCall(t, s)
      PROVE  StorageInv'
  BY <1>4, KeyCallsKeep, ArrayCallsKeep, MapCallKeeps
<1> QED
  BY <1>1, <1>2, <1>3, <1>4 DEF StorageNext

\* There are as many keys in use as storages: each has one, its own.
LEMMA KeysAreCounted == StorageInv => KeysAreExact
<1> SUFFICES ASSUME StorageInv, WithKeys
             PROVE  Cardinality(FreeKeys) = SystemKeys - Cardinality(exists)
  BY DEF KeysAreExact, WithKeys
<1> DEFINE Taken == Keys \ FreeKeys
           f == [s \in exists |-> mKey[s]]
<1>1. FreeKeys \subseteq Keys /\ \A k \in Keys : k \in Taken <=> specific[k] # NULL
  BY DEF FreeKeys, Unused
<1>2. \A s \in exists : f[s] \in Taken
  BY <1>1 DEF StorageInv, KeyInv
<1>3. \A s, r \in exists : f[s] = f[r] => s = r
  BY DEF StorageInv, KeyInv
<1>4. \A k \in Taken : \E s \in exists : f[s] = k
  BY <1>1 DEF StorageInv, KeyInv
<1>5. IsFiniteSet(Keys) /\ Cardinality(Keys) = SystemKeys
  BY CountIs DEF Keys
<1>6. IsFiniteSet(Taken) /\ Cardinality(Taken) <= Cardinality(Keys)
  BY <1>5, FS_Subset
<1> HIDE DEF Taken
<1>7. f \in [exists -> Taken]
  BY <1>2
<1>12. f \in Injection(exists, Taken)
  BY <1>3, <1>7 DEF Injection, IsInjective
<1>8. f \in Surjection(exists, Taken)
  BY <1>4, <1>7 DEF Surjection
<1> HIDE DEF f
<1>9. IsFiniteSet(exists) /\ Cardinality(exists) = Cardinality(Taken)
  BY <1>6, <1>8, <1>12, FS_Injection
<1>10. FreeKeys = Keys \ Taken /\ Keys \cap Taken = Taken
  BY <1>1 DEF Taken
<1>11. Cardinality(FreeKeys) = Cardinality(Keys) - Cardinality(Taken)
  BY <1>5, <1>10, FS_Difference
<1> QED
  BY <1>5, <1>9, <1>11
(* The storages as PerThreadValue has them: what the values and answers say.  *)

LEMMA SameValues ==
    ASSUME \A s \in Storages, t \in StorageThreads : Stored(s, t)' = Stored(s, t),
           UNCHANGED <<alive, exists, ended>>
    PROVE  UNCHANGED <<alive, exists, [s \in Storages |-> [t \in StorageThreads |-> Stored(s, t)]], ended>>
  OBVIOUS

LEMMA ValueIsRead ==
    ASSUME NEW t \in StorageThreads, NEW s \in Storages, t \in alive, s \in exists, UNCHANGED <<alive, exists>>,
           \A r \in Storages, u \in StorageThreads : Stored(r, u)' = Stored(r, u),
           ended' = [ended EXCEPT ![t] = Stored(s, t)]
    PROVE  PerThread!GetValue(t, s)
  BY DEF PerThread!GetValue

LEMMA ValueIsWritten ==
    ASSUME NEW t \in StorageThreads, NEW s \in Storages, t \in alive, s \in exists, UNCHANGED <<alive, exists>>, NEW p \in Pointees \cup {NULL},
           Stored(s, t)' = p,
           \A r \in Storages, u \in StorageThreads : r # s \/ u # t => Stored(r, u)' = Stored(r, u),
           ended' = [ended EXCEPT ![t] = TRUE]
    PROVE  PerThread!SetValue(t, s)
<1> DEFINE V == [r \in Storages |-> [u \in StorageThreads |-> Stored(r, u)]]
<1>1. V' = [V EXCEPT ![s][t] = p]
  <2>1. [u \in StorageThreads |-> Stored(s, u)'] = [[u \in StorageThreads |-> Stored(s, u)] EXCEPT ![t] = p]
    OBVIOUS
  <2>2. \A r \in Storages : r # s =>
            [u \in StorageThreads |-> Stored(r, u)'] = [u \in StorageThreads |-> Stored(r, u)]
    OBVIOUS
  <2>3. V' = [r \in Storages |-> [u \in StorageThreads |-> Stored(r, u)']]
    OBVIOUS
  <2> QED
    BY <2>1, <2>2, <2>3
<1> QED
  BY <1>1 DEF PerThread!SetValue

LEMMA StorageIsGone ==
    ASSUME NEW s \in Storages, s \in exists, exists' = exists \ {s}, UNCHANGED <<alive, ended>>,
           \A r \in Storages, u \in StorageThreads : Stored(r, u)' = IF r = s THEN NULL ELSE Stored(r, u)
    PROVE  PerThread!DestroyStorage(s)
  BY DEF PerThread!DestroyStorage

LEMMA ThreadIsGone ==
    ASSUME NEW t \in StorageThreads, t \in alive, alive' = alive \ {t}, exists' = exists,
           \A r \in Storages, u \in StorageThreads : Stored(r, u)' = IF u = t THEN NULL ELSE Stored(r, u),
           ended' = [ended EXCEPT ![t] = NULL]
    PROVE  PerThread!EndThread(t)
  BY DEF PerThread!EndThread

LEMMA StorageIsNew ==
    ASSUME NEW s \in Storages, s \notin exists, exists' = exists \cup {s}, UNCHANGED <<alive, ended>>,
           \A r \in Storages, u \in StorageThreads : Stored(r, u)' = Stored(r, u)
    PROVE  PerThread!NewStorage(s)
  BY DEF PerThread!NewStorage

LEMMA ThreadIsNew ==
    ASSUME NEW t \in StorageThreads, t \notin alive, alive' = alive \cup {t}, UNCHANGED <<exists, ended>>,
           \A r \in Storages, u \in StorageThreads : Stored(r, u)' = Stored(r, u)
    PROVE  PerThread!NewThread(t)
  BY DEF PerThread!NewThread
\* Where a value is found.
LEMMA StoredIs ==
    ASSUME NEW s \in Storages, NEW t \in StorageThreads
    PROVE  /\ s \notin exists => Stored(s, t) = NULL
           /\ s \in exists /\ version = "array" => Stored(s, t) = OfArray(s, t)
           /\ s \in exists /\ version = "map" => Stored(s, t) = OfMap(s, t)
           /\ s \in exists /\ WithKeys => Stored(s, t) = specific[mKey[s]][t]
  BY DEF Stored, WithKeys

LEMMA StoredBecomes ==
    ASSUME NEW s \in Storages, NEW t \in StorageThreads
    PROVE  /\ s \notin exists' => Stored(s, t)' = NULL
           /\ s \in exists' /\ version' = "array" => Stored(s, t)' = OfArray(s, t)'
           /\ s \in exists' /\ version' = "map" => Stored(s, t)' = OfMap(s, t)'
           /\ s \in exists' /\ WithKeys' => Stored(s, t)' = specific'[mKey'[s]][t]
  BY DEF Stored, WithKeys

\* Only the one thread is in the array.
LEMMA OfArrayIs ==
    ASSUME StorageInv, version = "array", NEW s \in Storages, NEW t \in StorageThreads
    PROVE  OfArray(s, t) = IF t \in Users /\ mDataArrayCount[s] = 1 THEN mDataArray[s][1].mpData ELSE NULL
<1>1. PICK c \in StorageThreads : Users = {c}
  BY UsersAre
<1>2. CASE t = c
  <2>1. /\ ArrayFound(t, s) = IF mDataArrayCount[s] = 1 THEN {1} ELSE {}
        /\ (CHOOSE i \in {1} : TRUE) = 1
    BY <1>1, <1>2, ArrayFoundIs
  <2> QED
    BY <1>1, <1>2, <2>1 DEF OfArray
<1>3. CASE t # c
  <2>1. /\ mDataArrayCount[s] \in {0, 1}
        /\ mDataArrayCount[s] = 1 => mDataArray[s][1].mThreadID = c
    BY <1>1 DEF StorageInv, ArrayInv
  <2>2. ArrayFound(t, s) = {}
    BY <1>3, <2>1 DEF ArrayFound
  <2> QED
    BY <1>1, <1>3, <2>2 DEF OfArray
<1> QED
  BY <1>2, <1>3

PerThreadStep == PerThread!Next \/ UNCHANGED <<alive, exists, [s \in Storages |-> [t \in StorageThreads |-> Stored(s, t)]], ended>>

LEMMA KeyStepsImplement ==
    ASSUME StorageInv, StorageInv', NEW t \in Users, NEW s \in Storages,
           KeyCreate(s) \/ KeyGet(t, s) \/ KeySet(t, s)
    PROVE  PerThreadStep
<1>0. t \in StorageThreads
  BY UsersAre
<1> USE DEF keyVars, arrayVars, mapVars
<1>1. CASE KeyCreate(s)
  <2> USE <1>1 DEF KeyCreate
  <2>1. PICK k \in FreeKeys : /\ mKey' = [mKey EXCEPT ![s] = k]
                              /\ specific' = [specific EXCEPT ![k] = Fresh]
    OBVIOUS
  <2>2. WithKeys /\ WithKeys' /\ s \notin exists /\ exists' = exists \cup {s}
    BY DEF WithKeys
  <2>3. k \in Keys /\ specific[k] = NULL
    BY DEF FreeKeys, Unused
  <2>4. /\ mKey \in [Storages -> Keys \cup {OutOfIndexes}]
        /\ specific \in [Keys -> [StorageThreads -> Values] \cup {NULL}]
    BY DEF StorageInv, StorageTypes
  <2>5. ASSUME NEW r \in Storages, NEW u \in StorageThreads PROVE Stored(r, u)' = Stored(r, u)
    <3>1. CASE r = s
      <4>1. Stored(r, u) = NULL
        BY <2>2, <3>1, StoredIs
      <4>2. specific'[mKey'[r]][u] = NULL
        BY <2>1, <2>3, <2>4, <3>1 DEF Fresh
      <4> QED
        BY <2>2, <3>1, <4>1, <4>2, StoredBecomes
    <3>2. CASE r # s /\ r \in exists
      <4>1. mKey[r] \in Keys /\ specific[mKey[r]] # NULL
        BY <2>2, <3>2 DEF StorageInv, KeyInv
      <4>2. specific'[mKey'[r]] = specific[mKey[r]]
        BY <2>1, <2>3, <2>4, <3>2, <4>1
      <4> QED
        BY <2>2, <3>2, <4>2, StoredIs, StoredBecomes
    <3>3. CASE r # s /\ r \notin exists
      BY <2>2, <3>3, StoredIs, StoredBecomes
    <3> QED
      BY <3>1, <3>2, <3>3
  <2>6. PerThread!NewStorage(s)
    BY <2>2, <2>5, StorageIsNew
  <2> QED
    BY <2>6 DEF PerThreadStep, PerThread!Next
<1>2. CASE KeyGet(t, s)
  <2> USE <1>2 DEF KeyGet, Answers
  <2>1. s \in exists /\ WithKeys /\ ended' = [ended EXCEPT ![t] = specific[mKey[s]][t]]
    BY DEF WithKeys
  <2>2. ended' = [ended EXCEPT ![t] = Stored(s, t)]
    BY <1>0, <2>1, StoredIs
  <2>3. \A r \in Storages, u \in StorageThreads : Stored(r, u)' = Stored(r, u)
    BY DEF Stored, OfArray, OfMap, ArrayFound
  <2>4. PerThread!GetValue(t, s)
    <3>1. t \in alive /\ s \in exists /\ UNCHANGED <<alive, exists>>
      OBVIOUS
    <3> QED
      BY ONLY <1>0, <2>2, <2>3, <3>1, s \in Storages, ValueIsRead
  <2> QED
    BY <1>0, <2>4 DEF PerThreadStep, PerThread!Next
<1>3. CASE KeySet(t, s)
  <2> USE <1>3 DEF KeySet, Answers
  <2>1. PICK p \in Pointees \cup {NULL} : specific' = [specific EXCEPT ![mKey[s]][t] = p]
    OBVIOUS
  <2>2. s \in exists /\ WithKeys /\ WithKeys' /\ ended' = [ended EXCEPT ![t] = TRUE]
        /\ UNCHANGED <<exists, mKey>>
    BY DEF WithKeys
  <2>3. /\ mKey \in [Storages -> Keys \cup {OutOfIndexes}]
        /\ specific \in [Keys -> [StorageThreads -> Values] \cup {NULL}]
    BY DEF StorageInv, StorageTypes
  <2>4. \A r \in exists : mKey[r] \in Keys /\ specific[mKey[r]] \in [StorageThreads -> Values]
    BY <2>2, <2>3 DEF StorageInv, KeyInv, StorageTypes
  <2>5. \A r \in exists : r # s => mKey[r] # mKey[s]
    BY <2>2 DEF StorageInv, KeyInv
  <2>6. /\ specific'[mKey[s]][t] = p
        /\ \A u \in StorageThreads : u # t => specific'[mKey[s]][u] = specific[mKey[s]][u]
        /\ \A k \in Keys : k # mKey[s] => specific'[k] = specific[k]
    BY <1>0, <2>1, <2>2, <2>3, <2>4
  <2>7. Stored(s, t)' = p
    BY <1>0, <2>2, <2>6, StoredBecomes
  <2>8. ASSUME NEW r \in Storages, NEW u \in StorageThreads, r # s \/ u # t
        PROVE  Stored(r, u)' = Stored(r, u)
    <3>1. CASE r \notin exists
      BY <2>2, <3>1, StoredIs, StoredBecomes
    <3>2. CASE r \in exists
      <4>1. specific'[mKey'[r]][u] = specific[mKey[r]][u]
        BY <2>2, <2>4, <2>5, <2>6, <2>8, <3>2
      <4> QED
        BY <2>2, <3>2, <4>1, StoredIs, StoredBecomes
    <3> QED
      BY <3>1, <3>2
  <2>9. PerThread!SetValue(t, s)
    <3>1. t \in alive /\ UNCHANGED <<alive, exists>>
      OBVIOUS
    <3> QED
      BY <1>0, <2>2, <2>7, <2>8, <3>1, ValueIsWritten
  <2> QED
    BY <1>0, <2>9 DEF PerThreadStep, PerThread!Next
<1> QED
  BY <1>1, <1>2, <1>3
LEMMA OfArrayBecomes ==
    ASSUME StorageInv', version' = "array", Users' = Users, NEW s \in Storages, NEW t \in StorageThreads
    PROVE  OfArray(s, t)' = IF t \in Users /\ mDataArrayCount'[s] = 1 THEN mDataArray'[s][1].mpData ELSE NULL
<1>1. PICK c \in StorageThreads : Users' = {c}
  <2>1. version' = "array" => \E c \in StorageThreads : Users' = {c}
    BY DEF Users
  <2> QED
    BY <2>1
<1>2. /\ mDataArrayCount'[s] \in {0, 1}
      /\ mDataArrayCount'[s] = 1 => mDataArray'[s][1].mThreadID = c
  BY <1>1 DEF StorageInv, ArrayInv
<1>3. ArrayFound(t, s)' = IF mDataArrayCount'[s] = 1 /\ t = c THEN {1} ELSE {}
  <2>1. ArrayFound(t, s)' = {i \in 1 .. mDataArrayCount'[s] : mDataArray'[s][i].mThreadID = t}
    BY DEF ArrayFound
  <2>2. 1 .. 0 = {} /\ 1 .. 1 = {1}
    OBVIOUS
  <2>3. CASE mDataArrayCount'[s] = 0
    BY <2>1, <2>2, <2>3
  <2>4. CASE mDataArrayCount'[s] = 1
    BY <1>2, <2>1, <2>2, <2>4
  <2> QED
    BY <1>2, <2>3, <2>4
<1>4. OfArray(s, t)' = IF ArrayFound(t, s)' = {} THEN NULL
                       ELSE mDataArray'[s][CHOOSE i \in ArrayFound(t, s)' : TRUE].mpData
  BY DEF OfArray
<1>5. (CHOOSE i \in {1} : TRUE) = 1
  OBVIOUS
<1> QED
  BY <1>1, <1>2, <1>3, <1>4, <1>5

LEMMA ArrayStepsImplement ==
    ASSUME StorageInv, StorageInv', NEW t \in Users, NEW s \in Storages,
           ArrayCreate(s) \/ ArrayGet(t, s) \/ ArraySet(t, s) \/ ArrayClear(t, s)
    PROVE  PerThreadStep
<1>0. t \in StorageThreads
  BY UsersAre
<1>1. version = "array" /\ version' = "array" /\ Users' = Users
  BY DEF ArrayCreate, ArrayGet, ArraySet, ArrayClear, Answers, Users
<1>2. \A r \in Storages, u \in StorageThreads :
         /\ OfArray(r, u) = IF u \in Users /\ mDataArrayCount[r] = 1 THEN mDataArray[r][1].mpData ELSE NULL
  BY <1>1, OfArrayIs
<1>3. \A r \in Storages, u \in StorageThreads :
         OfArray(r, u)' = IF u \in Users /\ mDataArrayCount'[r] = 1 THEN mDataArray'[r][1].mpData ELSE NULL
  BY <1>1, OfArrayBecomes
<1>4. \A u \in StorageThreads : u \in Users <=> u = t
  BY <1>1, UsersAre
<1>5. /\ mDataArray \in [Storages -> [1 .. EA_TLS_MAX_COUNT ->
             [mThreadID : StorageThreads \cup {NULL}, mpData : Values]]]
      /\ mDataArrayCount \in [Storages -> 0 .. EA_TLS_MAX_COUNT]
      /\ exists \subseteq Storages
  BY DEF StorageInv, StorageTypes
<1>6. /\ ArrayFound(t, s) = IF mDataArrayCount[s] = 1 THEN {1} ELSE {}
      /\ ArrayHasRoom(s) \/ mDataArrayCount[s] = 1
      /\ (CHOOSE i \in {1} : TRUE) = 1
      /\ mDataArrayCount[s] \in {0, 1}
  BY <1>1, ArrayFoundIs
<1>7. \A r \in Storages, u \in StorageThreads :
         /\ Stored(r, u) = IF r \in exists THEN OfArray(r, u) ELSE NULL
         /\ Stored(r, u)' = IF r \in exists' THEN OfArray(r, u)' ELSE NULL
  BY <1>1, StoredIs, StoredBecomes
<1>8. 1 \in 1 .. EA_TLS_MAX_COUNT
  OBVIOUS
<1> USE DEF keyVars, arrayVars, mapVars
<1>10. CASE ArrayCreate(s)
  <2> USE <1>10 DEF ArrayCreate
  <2>1. /\ mDataArrayCount'[s] = 0 /\ \A r \in Storages : r # s => mDataArrayCount'[r] = mDataArrayCount[r]
        /\ \A r \in Storages : r # s => mDataArray'[r] = mDataArray[r]
        /\ s \notin exists /\ exists' = exists \cup {s} /\ ended' = ended
    BY <1>5
  <2>2. \A r \in Storages, u \in StorageThreads : Stored(r, u)' = Stored(r, u)
    BY <1>2, <1>3, <1>7, <2>1
  <2>3. UNCHANGED <<alive, ended>>
    OBVIOUS
  <2>4. PerThread!NewStorage(s)
    BY <2>1, <2>2, <2>3, StorageIsNew
  <2> QED
    BY <2>4 DEF PerThreadStep, PerThread!Next
<1>11. CASE ArrayGet(t, s)
  <2> USE <1>11 DEF ArrayGet, Answers
  <2>1. ended' = [ended EXCEPT ![t] = Stored(s, t)]
    BY <1>0, <1>7
  <2>2. \A r \in Storages, u \in StorageThreads : Stored(r, u)' = Stored(r, u)
    BY DEF Stored, OfArray, OfMap, ArrayFound
  <2>3. PerThread!GetValue(t, s)
    <3>1. t \in alive /\ s \in exists /\ UNCHANGED <<alive, exists>>
      OBVIOUS
    <3> QED
      BY <1>0, <2>1, <2>2, <3>1, ValueIsRead
  <2> QED
    BY <1>0, <2>3 DEF PerThreadStep, PerThread!Next
<1>12. CASE ArraySet(t, s)
  <2> DEFINE i == IF ArrayFound(t, s) # {} THEN CHOOSE i \in ArrayFound(t, s) : TRUE
                  ELSE IF ArrayHasRoom(s) THEN mDataArrayCount[s] + 1 ELSE 0
  <2>1. PICK p \in Pointees :
           IF i = 0 THEN Answers(t, s, FALSE) /\ UNCHANGED arrayVars
           ELSE /\ mDataArray' = [mDataArray EXCEPT ![s][i] = [mThreadID |-> t, mpData |-> p]]
                /\ mDataArrayCount' = [mDataArrayCount EXCEPT ![s] = IF i > @ THEN i ELSE @]
                /\ Answers(t, s, TRUE)
    BY <1>12 DEF ArraySet
  <2>2. i = 1 /\ i # 0
    <3>1. CASE mDataArrayCount[s] = 1
      <4>1. ArrayFound(t, s) = {1}
        BY <1>6, <3>1
      <4>2. (CHOOSE j \in ArrayFound(t, s) : TRUE) \in ArrayFound(t, s)
        BY <4>1
      <4> QED
        BY <4>1, <4>2
    <3>2. CASE mDataArrayCount[s] = 0
      BY <1>6, <3>2
    <3> QED
      BY <1>6, <3>1, <3>2
  <2> HIDE DEF i
  <2>3. mDataArray' = [mDataArray EXCEPT ![s][i] = [mThreadID |-> t, mpData |-> p]]
    BY <2>1, <2>2
  <2>4. mDataArrayCount' = [mDataArrayCount EXCEPT ![s] = IF i > @ THEN i ELSE @]
    BY <2>1, <2>2
  <2>4a. Answers(t, s, TRUE)
    BY <2>1, <2>2
  <2>5. /\ mDataArray'[s][1].mpData = p /\ mDataArrayCount'[s] = 1
        /\ \A r \in Storages : r # s => mDataArray'[r] = mDataArray[r] /\ mDataArrayCount'[r] = mDataArrayCount[r]
    <3>1. mDataArray'[s][1].mpData = p
      BY <1>5, <1>8, <2>2, <2>3
    <3>2. mDataArrayCount'[s] = 1
      BY <1>5, <1>6, <2>2, <2>4
    <3>3. \A r \in Storages : r # s => mDataArray'[r] = mDataArray[r] /\ mDataArrayCount'[r] = mDataArrayCount[r]
      BY <1>5, <2>3, <2>4
    <3> QED
      BY <3>1, <3>2, <3>3
  <2>6. t \in alive /\ s \in exists /\ UNCHANGED <<alive, exists>> /\ ended' = [ended EXCEPT ![t] = TRUE]
    BY <2>4a DEF Answers
  <2>7. Stored(s, t)' = p
    BY <1>0, <1>3, <1>7, <2>5, <2>6
  <2>8. \A r \in Storages, u \in StorageThreads : r # s \/ u # t => Stored(r, u)' = Stored(r, u)
    <3> SUFFICES ASSUME NEW r \in Storages, NEW u \in StorageThreads, r # s \/ u # t
                 PROVE  Stored(r, u)' = Stored(r, u)
      OBVIOUS
    <3>1. CASE r # s
      BY <1>2, <1>3, <1>7, <2>5, <2>6, <3>1
    <3>2. CASE u # t
      BY <1>2, <1>3, <1>4, <1>7, <2>6, <3>2
    <3> QED
      BY <3>1, <3>2
  <2>9. PerThread!SetValue(t, s)
    BY <1>0, <2>6, <2>7, <2>8, ValueIsWritten
  <2> QED
    BY <1>0, <2>9 DEF PerThreadStep, PerThread!Next
<1>13. CASE ArrayClear(t, s)
  <2>1. t \in alive /\ s \in exists /\ UNCHANGED <<alive, exists>> /\ ended' = [ended EXCEPT ![t] = TRUE]
    BY <1>13 DEF Answers, ArrayClear
  <2>2. /\ mDataArrayCount'[s] = 0
        /\ \A r \in Storages : r # s => mDataArray'[r] = mDataArray[r] /\ mDataArrayCount'[r] = mDataArrayCount[r]
    <3>1. CASE mDataArrayCount[s] = 0
      BY <1>6, <1>13, <3>1 DEF ArrayClear
    <3>2. CASE mDataArrayCount[s] = 1
      <4>1. mDataArrayCount' = [mDataArrayCount EXCEPT ![s] = 0]
        BY <1>6, <1>13, <3>2 DEF ArrayClear
      <4>2. \A r \in Storages : r # s => mDataArray'[r] = mDataArray[r]
        BY <1>5, <1>6, <1>13, <3>2 DEF ArrayClear
      <4> QED
        BY <1>5, <4>1, <4>2
    <3> QED
      BY <1>6, <3>1, <3>2
  <2>3. Stored(s, t)' = NULL
    BY <1>0, <1>3, <1>7, <2>1, <2>2
  <2>4. \A r \in Storages, u \in StorageThreads : r # s \/ u # t => Stored(r, u)' = Stored(r, u)
    <3> SUFFICES ASSUME NEW r \in Storages, NEW u \in StorageThreads, r # s \/ u # t
                 PROVE  Stored(r, u)' = Stored(r, u)
      OBVIOUS
    <3>1. CASE r # s
      BY <1>2, <1>3, <1>7, <2>1, <2>2, <3>1
    <3>2. CASE u # t
      BY <1>2, <1>3, <1>4, <1>7, <2>1, <3>2
    <3> QED
      BY <3>1, <3>2
  <2>5. PerThread!SetValue(t, s)
    BY <1>0, <2>1, <2>3, <2>4, ValueIsWritten
  <2> QED
    BY <1>0, <2>5 DEF PerThreadStep, PerThread!Next
<1> QED
  BY <1>10, <1>11, <1>12, <1>13
\* What a map holds.
LEMMA OfMapIs ==
    ASSUME NEW s \in Storages, NEW t \in StorageThreads
    PROVE  /\ version = "map" =>
                 Stored(s, t) = IF s \notin exists \/ mThreadToDataMap[s] = NULL \/ mThreadToDataMap[s][t] = NoEntry
                                THEN NULL ELSE mThreadToDataMap[s][t]
           /\ version' = "map" =>
                 Stored(s, t)' = IF s \notin exists' \/ mThreadToDataMap'[s] = NULL \/ mThreadToDataMap'[s][t] = NoEntry
                                 THEN NULL ELSE mThreadToDataMap'[s][t]
<1>1. OfMap(s, t) = IF mThreadToDataMap[s] = NULL \/ mThreadToDataMap[s][t] = NoEntry
                    THEN NULL ELSE mThreadToDataMap[s][t]
  BY DEF OfMap
<1>2. OfMap(s, t)' = IF mThreadToDataMap'[s] = NULL \/ mThreadToDataMap'[s][t] = NoEntry
                     THEN NULL ELSE mThreadToDataMap'[s][t]
  BY DEF OfMap
<1> QED
  BY <1>1, <1>2, StoredIs, StoredBecomes

\* A storage begins and ends empty, and takes nothing from the others.
LEMMA DestroyImplements ==
    ASSUME StorageInv, NEW s \in Storages, DestroyStorage(s)
    PROVE  PerThreadStep
<1> USE DEF DestroyStorage, keyVars, arrayVars, mapVars
<1>1. /\ UNCHANGED <<version, doing, ended, arrayVars, mFutex>>
      /\ s \in exists /\ exists' = exists \ {s}
  BY DEF KeyDelete, MapDelete
<1>2. ASSUME NEW r \in Storages, NEW u \in StorageThreads
      PROVE  Stored(r, u)' = IF r = s THEN NULL ELSE Stored(r, u)
  <2>1. CASE r \notin exists'
    BY <1>1, <2>1, StoredIs, StoredBecomes
  <2>2. CASE r \in exists' /\ KeyDelete(s)
    <3> USE <2>2 DEF KeyDelete
    <3>1. r \in exists /\ r # s /\ WithKeys /\ WithKeys'
      BY <1>1 DEF WithKeys
    <3>2. mKey[r] \in Keys /\ mKey[s] \in Keys /\ mKey[r] # mKey[s]
      BY <1>1, <3>1 DEF StorageInv, KeyInv
    <3>3. mKey'[r] = mKey[r] /\ specific'[mKey[r]] = specific[mKey[r]]
      BY <3>1, <3>2 DEF StorageInv, StorageTypes
    <3> QED
      BY <1>1, <3>1, <3>3, StoredIs, StoredBecomes
  <2>3. CASE r \in exists' /\ MapDelete(s)
    <3> USE <2>3 DEF MapDelete
    <3>1. r \in exists /\ r # s /\ mThreadToDataMap'[r] = mThreadToDataMap[r]
      BY <1>1 DEF StorageInv, StorageTypes
    <3> QED
      BY <1>1, <3>1, OfMapIs
  <2>4. CASE r \in exists' /\ version = "array" /\ UNCHANGED <<keyVars, arrayVars, mapVars>>
    <3>1. r \in exists /\ r # s /\ OfArray(r, u)' = OfArray(r, u)
      BY <1>1, <2>4 DEF OfArray, ArrayFound
    <3> QED
      BY <1>1, <2>4, <3>1, StoredIs, StoredBecomes
  <2> QED
    BY <2>1, <2>2, <2>3, <2>4
<1>3. PerThread!DestroyStorage(s)
  BY <1>1, <1>2, StorageIsGone
<1> QED
  BY <1>3 DEF PerThreadStep, PerThread!Next

LEMMA MapCreateImplements ==
    ASSUME StorageInv, NEW s \in Storages, MapCreate(s)
    PROVE  PerThreadStep
<1> USE DEF MapCreate
<1>1. mThreadToDataMap[s] = NULL /\ mThreadToDataMap' = mThreadToDataMap
  BY DEF StorageInv, MapInv, StorageTypes
<1>2. \A r \in Storages, u \in StorageThreads : Stored(r, u)' = Stored(r, u)
  BY <1>1, OfMapIs
<1>3. PerThread!NewStorage(s)
  BY <1>2, StorageIsNew
<1> QED
  BY <1>3 DEF PerThreadStep, PerThread!Next

LEMMA EndThreadImplements ==
    ASSUME StorageInv, NEW t \in Users, EndThread(t)
    PROVE  PerThreadStep
<1> USE DEF EndThread, arrayVars, mapVars
<1>1. t \in StorageThreads
  BY UsersAre
<1>2. ASSUME NEW r \in Storages, NEW u \in StorageThreads
      PROVE  Stored(r, u)' = IF u = t THEN NULL ELSE Stored(r, u)
  <2>1. CASE r \notin exists
    BY <2>1, StoredIs, StoredBecomes
  <2>2. CASE r \in exists /\ version = "map"
    BY <2>2, OfMapIs
  <2>3. CASE r \in exists /\ WithKeys
    <3>1. mKey[r] \in Keys /\ specific[mKey[r]] # NULL
      BY <2>3 DEF StorageInv, KeyInv
    <3>2. specific[mKey[r]] \in [StorageThreads -> Values]
      BY <3>1 DEF StorageInv, StorageTypes
    <3>3. specific'[mKey[r]] = [specific[mKey[r]] EXCEPT ![t] = NULL]
      BY <3>1 DEF FreeKeys, Unused
    <3>4. WithKeys' /\ exists' = exists /\ mKey' = mKey
      BY <2>3 DEF WithKeys
    <3> QED
      BY <1>1, <2>3, <3>2, <3>3, <3>4, StoredIs, StoredBecomes
  <2>4. version \in {"pthread", "windows", "map"}
    BY DEF StorageInv, StorageTypes
  <2> QED
    BY <2>1, <2>2, <2>3, <2>4 DEF WithKeys
<1>3. PerThread!EndThread(t)
  BY <1>1, <1>2, ThreadIsGone
<1> QED
  BY <1>1, <1>3 DEF PerThreadStep, PerThread!Next

LEMMA NewThreadImplements ==
    ASSUME StorageInv, NEW t \in Users, NewThread(t)
    PROVE  PerThreadStep
<1>1. t \in StorageThreads
  BY UsersAre
<1>2. \A r \in Storages, u \in StorageThreads : Stored(r, u)' = Stored(r, u)
  BY DEF NewThread, keyVars, arrayVars, mapVars, Stored, OfArray, OfMap, ArrayFound
<1>3. PerThread!NewThread(t)
  BY <1>1, <1>2, ThreadIsNew DEF NewThread
<1> QED
  BY <1>1, <1>3 DEF PerThreadStep, PerThread!Next

LEMMA MapCallImplements ==
    ASSUME StorageInv, NEW t \in Users, NEW s \in Storages, MapCall(t, s)
    PROVE  PerThreadStep
<1>1. \A r \in Storages, u \in StorageThreads : Stored(r, u)' = Stored(r, u)
  BY OfMapIs DEF MapCall, mapVars
<1>2. UNCHANGED <<alive, exists, ended>>
  BY DEF MapCall
<1> QED
  BY <1>1, <1>2, SameValues DEF PerThreadStep

\* A value of the map is read and written when the call of the thread returns.
LEMMA MapStepImplements ==
    ASSUME StorageInv, NEW t \in Users, MapStep(t)
    PROVE  PerThreadStep
<1>0. PICK s \in Storages : s = doing[t].storage
  BY MapStepIs
<1>1. /\ version = "map" /\ s \in exists /\ t \in alive /\ s \in Storages /\ t \in StorageThreads
      /\ MapRight(t)
      /\ UNCHANGED <<version, alive, exists, keyVars, arrayVars>>
  BY <1>0, MapStepIs
<1>2. /\ mThreadToDataMap \in [Storages -> [StorageThreads -> Values \cup {NoEntry}] \cup {NULL}]
      /\ doing[t].value \in Values
  BY <1>1 DEF StorageInv, StorageTypes
<1>3. mThreadToDataMap[s] # NULL => mThreadToDataMap[s] \in [StorageThreads -> Values \cup {NoEntry}]
  BY <1>1, <1>2
<1>4. ASSUME NEW r \in Storages, NEW u \in StorageThreads
      PROVE  /\ Stored(r, u) = IF r \notin exists \/ mThreadToDataMap[r] = NULL \/ mThreadToDataMap[r][u] = NoEntry
                               THEN NULL ELSE mThreadToDataMap[r][u]
             /\ Stored(r, u)' = IF r \notin exists \/ mThreadToDataMap'[r] = NULL \/ mThreadToDataMap'[r][u] = NoEntry
                                THEN NULL ELSE mThreadToDataMap'[r][u]
  BY <1>1, OfMapIs
<1> USE DEF mapVars
<1>10. ASSUME UNCHANGED <<mThreadToDataMap, ended>> PROVE PerThreadStep
  BY <1>1, <1>4, <1>10, SameValues DEF PerThreadStep
<1>11. ASSUME NEW f \in [StorageThreads -> Values \cup {NoEntry}], f = mThreadToDataMap[s] \/ mThreadToDataMap[s] = NULL,
              NEW v \in Values \cup {NoEntry}, mThreadToDataMap' = [mThreadToDataMap EXCEPT ![s] = [f EXCEPT ![t] = v]]
       PROVE  /\ mThreadToDataMap'[s] # NULL /\ mThreadToDataMap'[s][t] = v
              /\ \A u \in StorageThreads : u # t => mThreadToDataMap'[s][u] = f[u]
              /\ \A r \in Storages : r # s => mThreadToDataMap'[r] = mThreadToDataMap[r]
  <2>1. [f EXCEPT ![t] = v] \in [StorageThreads -> Values \cup {NoEntry}]
    BY <1>1
  <2>2. mThreadToDataMap'[s] = [f EXCEPT ![t] = v]
    BY <1>1, <1>2, <1>11
  <2>3. \A r \in Storages : r # s => mThreadToDataMap'[r] = mThreadToDataMap[r]
    BY <1>1, <1>2, <1>11
  <2> QED
    BY <1>1, <2>1, <2>2, <2>3, NullIs
<1>12. ASSUME mThreadToDataMap[s] # NULL, NEW v \in Values \cup {NoEntry},
              mThreadToDataMap' = [mThreadToDataMap EXCEPT ![s] = [mThreadToDataMap[s] EXCEPT ![t] = v]],
              NEW p, p = IF v = NoEntry THEN NULL ELSE v
       PROVE  /\ Stored(s, t)' = p
              /\ \A r \in Storages, u \in StorageThreads : r # s \/ u # t => Stored(r, u)' = Stored(r, u)
  <2>1. /\ mThreadToDataMap'[s] # NULL /\ mThreadToDataMap'[s][t] = v
        /\ \A u \in StorageThreads : u # t => mThreadToDataMap'[s][u] = mThreadToDataMap[s][u]
        /\ \A r \in Storages : r # s => mThreadToDataMap'[r] = mThreadToDataMap[r]
    BY <1>3, <1>11, <1>12
  <2>2. Stored(s, t)' = p
    <3>1. Stored(s, t)' = IF s \notin exists \/ mThreadToDataMap'[s] = NULL \/ mThreadToDataMap'[s][t] = NoEntry
                          THEN NULL ELSE mThreadToDataMap'[s][t]
      BY <1>1, <1>4
    <3> QED
      BY <1>1, <1>12, <2>1, <3>1
  <2>3. ASSUME NEW r \in Storages, NEW u \in StorageThreads, r # s \/ u # t
        PROVE  Stored(r, u)' = Stored(r, u)
    BY <1>4, <1>12, <2>1, <2>3
  <2> QED
    BY <2>2, <2>3
<1>20. CASE Enter(t, "get", "find") \/ Enter(t, "set", "erase") \/ Enter(t, "set", "make") \/ CreateMap(t)
  BY <1>10, <1>20 DEF Enter, CreateMap, To
<1>21. CASE KeepMap(t)
  <2>1. /\ doing[t].at = "made" /\ ended' = ended
        /\ mThreadToDataMap' = [mThreadToDataMap EXCEPT ![s] = NoEntries]
    BY <1>0, <1>21 DEF KeepMap, To
  <2>2. mThreadToDataMap[s] = NULL
    BY <1>0, <1>1, <2>1 DEF MapRight
  <2>3. /\ \A u \in StorageThreads : mThreadToDataMap'[s][u] = NoEntry
        /\ \A r \in Storages : r # s => mThreadToDataMap'[r] = mThreadToDataMap[r]
    BY <1>1, <1>2, <2>1 DEF NoEntries
  <2>4. \A r \in Storages, u \in StorageThreads : Stored(r, u)' = Stored(r, u)
    BY <1>1, <1>4, <2>2, <2>3
  <2> QED
    BY <1>1, <2>1, <2>4, SameValues DEF PerThreadStep
<1>22. CASE InsertEntry(t)
  <2> DEFINE v == IF mThreadToDataMap[s][t] = NoEntry THEN NULL ELSE mThreadToDataMap[s][t]
  <2>1. /\ doing[t].at = "insert" /\ ended' = ended
        /\ mThreadToDataMap' = [mThreadToDataMap EXCEPT ![s][t] = IF @ = NoEntry THEN NULL ELSE @]
    BY <1>0, <1>22 DEF InsertEntry, To
  <2>2. mThreadToDataMap[s] # NULL
    BY <1>0, <1>1, <2>1 DEF MapRight
  <2>3. v \in Values /\ v # NoEntry
    BY <1>1, <1>3, <2>2, NullIs
  <2>4. mThreadToDataMap' = [mThreadToDataMap EXCEPT ![s] = [mThreadToDataMap[s] EXCEPT ![t] = v]]
    BY <1>1, <1>2, <2>1
  <2>5. Stored(s, t) = v
    BY <1>1, <1>4, <2>2
  <2> HIDE DEF v
  <2>6. /\ Stored(s, t)' = v
        /\ \A r \in Storages, u \in StorageThreads : r # s \/ u # t => Stored(r, u)' = Stored(r, u)
    BY <1>12, <2>2, <2>3, <2>4
  <2>7. \A r \in Storages, u \in StorageThreads : Stored(r, u)' = Stored(r, u)
    <3> SUFFICES ASSUME NEW r \in Storages, NEW u \in StorageThreads PROVE Stored(r, u)' = Stored(r, u)
      OBVIOUS
    <3>1. CASE r = s /\ u = t
      BY <2>5, <2>6, <3>1
    <3>2. CASE r # s \/ u # t
      BY <2>6, <3>2
    <3> QED
      BY <3>1, <3>2
  <2> QED
    BY <1>1, <2>1, <2>7, SameValues DEF PerThreadStep
<1>23. CASE WriteEntry(t)
  <2>1. /\ doing[t].at = "write" /\ ended' = [ended EXCEPT ![t] = TRUE]
        /\ mThreadToDataMap' = [mThreadToDataMap EXCEPT ![s][t] = doing[t].value]
    BY <1>0, <1>23 DEF WriteEntry, MapReturns
  <2>2. mThreadToDataMap[s] # NULL
    BY <1>0, <1>1, <2>1 DEF MapRight
  <2>3. mThreadToDataMap' = [mThreadToDataMap EXCEPT ![s] = [mThreadToDataMap[s] EXCEPT ![t] = doing[t].value]]
    BY <1>1, <1>2, <2>1
  <2>4. doing[t].value # NoEntry /\ doing[t].value \in Pointees \cup {NULL}
    BY <1>2, NullIs DEF Values
  <2>5. /\ Stored(s, t)' = doing[t].value
        /\ \A r \in Storages, u \in StorageThreads : r # s \/ u # t => Stored(r, u)' = Stored(r, u)
    BY <1>2, <1>12, <2>2, <2>3, <2>4
  <2>6. PerThread!SetValue(t, s)
    <3>1. PICK p \in Pointees \cup {NULL} : p = doing[t].value
      BY <2>4
    <3>2. /\ Stored(s, t)' = p
          /\ \A r \in Storages, u \in StorageThreads : r # s \/ u # t => Stored(r, u)' = Stored(r, u)
          /\ ended' = [ended EXCEPT ![t] = TRUE]
          /\ s \in Storages /\ t \in StorageThreads
          /\ t \in alive /\ s \in exists /\ UNCHANGED <<alive, exists>>
      BY <1>1, <2>1, <2>5, <3>1
    <3> QED
      BY <3>2, ValueIsWritten
  <2> QED
    BY <1>1, <2>6 DEF PerThreadStep, PerThread!Next
<1>24. CASE EraseEntry(t)
  <2>1. /\ ended' = [ended EXCEPT ![t] = TRUE]
        /\ mThreadToDataMap' = [mThreadToDataMap EXCEPT ![s] = IF @ = NULL THEN NULL ELSE [@ EXCEPT ![t] = NoEntry]]
    BY <1>0, <1>24 DEF EraseEntry, MapReturns
  <2>2. /\ Stored(s, t)' = NULL
        /\ \A r \in Storages, u \in StorageThreads : r # s \/ u # t => Stored(r, u)' = Stored(r, u)
    <3>1. CASE mThreadToDataMap[s] = NULL
      <4>1. mThreadToDataMap' = mThreadToDataMap
        BY <1>2, <2>1, <3>1
      <4>2. \A r \in Storages, u \in StorageThreads : Stored(r, u)' = Stored(r, u)
        BY <1>4, <4>1
      <4>3. Stored(s, t) = NULL
        <5>1. Stored(s, t) = IF s \notin exists \/ mThreadToDataMap[s] = NULL \/ mThreadToDataMap[s][t] = NoEntry
                             THEN NULL ELSE mThreadToDataMap[s][t]
          BY <1>1, <1>4
        <5> QED
          BY <3>1, <5>1
      <4> QED
        BY <1>1, <4>2, <4>3
    <3>2. CASE mThreadToDataMap[s] # NULL
      <4>1. mThreadToDataMap' = [mThreadToDataMap EXCEPT ![s] = [mThreadToDataMap[s] EXCEPT ![t] = NoEntry]]
        BY <1>2, <2>1, <3>2
      <4>2. NoEntry \in Values \cup {NoEntry}
        OBVIOUS
      <4> QED
        BY <1>12, <3>2, <4>1, <4>2
    <3> QED
      BY <3>1, <3>2
  <2>3. PerThread!SetValue(t, s)
    <3>1. PICK p \in Pointees \cup {NULL} : p = NULL
      OBVIOUS
    <3>2. /\ Stored(s, t)' = p
          /\ \A r \in Storages, u \in StorageThreads : r # s \/ u # t => Stored(r, u)' = Stored(r, u)
          /\ ended' = [ended EXCEPT ![t] = TRUE]
          /\ s \in Storages /\ t \in StorageThreads
          /\ t \in alive /\ s \in exists /\ UNCHANGED <<alive, exists>>
      BY <1>1, <2>1, <2>2, <3>1
    <3> QED
      BY <3>2, ValueIsWritten
  <2> QED
    BY <1>1, <2>3 DEF PerThreadStep, PerThread!Next
<1>25. CASE FindEntry(t)
  <2>1. /\ mThreadToDataMap' = mThreadToDataMap
        /\ IF mThreadToDataMap[s] = NULL \/ mThreadToDataMap[s][t] = NoEntry
           THEN ended' = [ended EXCEPT ![t] = NULL] ELSE ended' = ended
    BY <1>0, <1>25 DEF FindEntry, To, MapReturns
  <2>2. CASE mThreadToDataMap[s] = NULL \/ mThreadToDataMap[s][t] = NoEntry
    <3>1. Stored(s, t) = NULL /\ \A r \in Storages, u \in StorageThreads : Stored(r, u)' = Stored(r, u)
      BY <1>1, <1>4, <2>1, <2>2
    <3>2. PerThread!GetValue(t, s)
      BY <1>1, <2>1, <2>2, <3>1, ValueIsRead
    <3> QED
      BY <1>1, <3>2 DEF PerThreadStep, PerThread!Next
  <2> QED
    BY <1>10, <2>1, <2>2
<1>26. CASE ReadEntry(t)
  <2>1. /\ doing[t].at = "read" /\ mThreadToDataMap' = mThreadToDataMap
        /\ ended' = [ended EXCEPT ![t] = mThreadToDataMap[s][t]]
    BY <1>0, <1>26 DEF ReadEntry, MapReturns
  <2>2. mThreadToDataMap[s] # NULL /\ mThreadToDataMap[s][t] # NoEntry
    BY <1>0, <1>1, <2>1 DEF MapRight
  <2>3. /\ Stored(s, t) = mThreadToDataMap[s][t]
        /\ \A r \in Storages, u \in StorageThreads : Stored(r, u)' = Stored(r, u)
    BY <1>1, <1>4, <2>1, <2>2
  <2>4. PerThread!GetValue(t, s)
    BY <1>1, <2>1, <2>3, ValueIsRead
  <2> QED
    BY <1>1, <2>4 DEF PerThreadStep, PerThread!Next
<1> QED
  BY <1>20, <1>21, <1>22, <1>23, <1>24, <1>25, <1>26 DEF MapStep

\* The specification of the storages in MCData.
LEMMA StorageStepsImplement ==
    ASSUME StorageInv, StorageInv', StorageNext \/ UNCHANGED storageVars
    PROVE  PerThreadStep
<1>1. CASE UNCHANGED storageVars
  BY <1>1, SameValues DEF PerThreadStep, storageVars, Stored, OfArray, ArrayFound, OfMap
<1>2. CASE StorageNext
  <2>0. StorageThreads # {} /\ \E t \in StorageThreads : t \in Users
    BY UsersAre DEF Users
  <2>1. PICK t \in Users : TRUE
    BY <2>0
  <2>2. ASSUME NEW s \in Storages, KeyCreate(s) \/ ArrayCreate(s) \/ MapCreate(s) \/ DestroyStorage(s)
        PROVE  PerThreadStep
    BY <2>1, <2>2, KeyStepsImplement, ArrayStepsImplement, MapCreateImplements, DestroyImplements
  <2>3. ASSUME NEW u \in Users, MapStep(u) \/ EndThread(u) \/ NewThread(u) PROVE PerThreadStep
    BY <2>3, MapStepImplements, EndThreadImplements, NewThreadImplements
  <2>4. ASSUME NEW u \in Users, NEW s \in Storages,
               \/ KeyGet(u, s) \/ KeySet(u, s) \/ ArrayGet(u, s) \/ ArraySet(u, s)
               \/ ArrayClear(u, s) \/ MapCall(u, s)
        PROVE  PerThreadStep
    BY <2>4, KeyStepsImplement, ArrayStepsImplement, MapCallImplements
  <2> QED
    BY <1>2, <2>2, <2>3, <2>4 DEF StorageNext
<1> QED
  BY <1>1, <1>2

\* ThreadLocalStorage: each thread has a value of its own in each storage, with
\* every version of it, for any number of threads, storages, keys and pointees.
THEOREM StoragesImplement == Spec => ImplementsPerThreadValue
<1>1. Init => StorageInv
  BY StorageBegins DEF Init
<1>2. StorageInv /\ [Next]_allVars => StorageInv'
  BY OneStructureMoves, StorageGoesOn
<1>3. StorageInit => PerThread!Init
  <2> SUFFICES ASSUME StorageInit PROVE PerThread!Init
    OBVIOUS
  <2>1. \A s \in Storages, t \in StorageThreads : Stored(s, t) = NULL
    BY DEF StorageInit, Stored
  <2> QED
    BY <2>1 DEF PerThread!Init, StorageInit
<1>4. Init => PerThread!Init
  BY <1>3 DEF Init
<1>5. StorageInv /\ StorageInv' /\ [Next]_allVars =>
          PerThread!Next \/ UNCHANGED <<alive, exists, [s \in Storages |-> [t \in StorageThreads |-> Stored(s, t)]], ended>>
  BY OneStructureMoves, StorageStepsImplement DEF PerThreadStep
<1> QED
  BY <1>1, <1>2, <1>4, <1>5, PTL DEF Spec, ImplementsPerThreadValue, PerThread!Spec, PerThread!vars
-----------------------------------------------------------------------------
(* Shared pointers.                                                        *)

Copying == {"copyLock", "copyValue", "copyCount", "increment"}
Swapping == {"swapLock", "swapLockOther", "swapValue", "swapCount", "swapUnlock"}
BothLocked == {"swapValue", "swapCount", "swapUnlock"}

\* The pointers whose Futex a thread has, and how often.
Locks(t) ==
    IF at[t] \in Copying \ {"copyLock"} THEN {Source(t)}
    ELSE IF at[t] = "swapLockOther" THEN {First(t)}
    ELSE IF at[t] \in BothLocked THEN {First(t), Second(t)}
    ELSE IF at[t] = "delete" THEN {Dying(t)} ELSE {}
Depth(t) == IF at[t] \in BothLocked /\ First(t) = Second(t) THEN 2 ELSE 1

SharedTypes ==
    /\ pointer \in [Pointers -> [mpValue : Counts \cup {Null}, mpRefCount : Counts \cup {0}]]
    /\ refCount \in [Counts -> Nat] /\ values \subseteq Counts
    /\ mMutex \in [Pointers -> [owner : Sharers \cup {"none"}, count : 0 .. 2]]
    /\ call \in [Sharers -> Calls] /\ at \in [Sharers -> Steps]
    /\ held \in [Sharers -> [mpValue : Counts \cup {Null}, mpRefCount : Counts \cup {0}]]
    /\ sole \in [Sharers -> BOOLEAN]

LocksAreRight == \A p \in Pointers :
    /\ mMutex[p].owner = "none" => mMutex[p].count = 0
    /\ \A t \in Sharers :
          /\ mMutex[p].owner = t <=> p \in Locks(t)
          /\ mMutex[p].owner = t => mMutex[p].count = Depth(t)

\* The call of a thread, and the pointers there are for it.
CallIsRight(t) ==
    LET name == call[t].name IN
    /\ at[t] = "idle" <=> name = "none"
    /\ at[t] = "idle" => call[t] = NoCall(t)
    /\ {call[t].this, call[t].other} \subseteq Usable(t)
    /\ at[t] = "compare" => name \in {"assign", "reset"}
    /\ at[t] = "construct" => name = "reset"
    /\ at[t] \in Copying => name \in {"copy", "assign"}
    /\ at[t] \in Swapping => name \in {"swap", "assign", "reset"}
    /\ at[t] \in {"decrement", "delete"} => name \in {"destroy", "assign", "reset"}
    /\ name \in {"assign", "reset", "swap"} => Exists(call[t].this)
    /\ name \in {"copy", "assign", "swap"} => Exists(call[t].other)
    /\ name \in {"copy", "destroy"} => call[t].this = t
    /\ name = "copy" => call[t].other # t /\ ~Exists(t)
    /\ name = "destroy" /\ at[t] = "decrement" => Exists(t)
    /\ Exists(Temp(t)) <=> name \in {"assign", "reset"} /\ at[t] \in Swapping \cup {"decrement"}

\* What it has read of the pointer that it copies.
CopyIsRight(t) ==
    /\ at[t] = "copyCount" => held[t].mpValue = pointer[Source(t)].mpValue
    /\ at[t] = "increment" => held[t] = pointer[Source(t)]

\* The value that was given with a count.
ValueOf(n) == IF n \in values THEN n ELSE Null

\* Half a swap has exchanged the values and not yet the counts.
HalfSwapped(t) == IF at[t] = "swapCount" THEN {First(t), Second(t)} ELSE {}
PairsAreRight ==
    /\ \A p \in Pointers : (\A t \in Sharers : p \notin HalfSwapped(t)) =>
          pointer[p].mpValue = ValueOf(pointer[p].mpRefCount)
    /\ \A t \in Sharers : at[t] = "swapCount" =>
          /\ pointer[First(t)].mpValue = ValueOf(pointer[Second(t)].mpRefCount)
          /\ pointer[Second(t)].mpValue = ValueOf(pointer[First(t)].mpRefCount)

Having(n) == {p \in Pointers : pointer[p].mpRefCount = n}
Deleting(t, n) == at[t] = "delete" /\ held[t].mpRefCount = n

CountsAreRight ==
    /\ \A n \in Counts : refCount[n] = Cardinality(Having(n))
    /\ \A n \in values : Having(n) # {} \/ \E t \in Sharers : Deleting(t, n)

\* Who deletes is the last that had the count.
DeletersAreRight ==
    /\ \A t \in Sharers : at[t] = "delete" =>
          /\ held[t].mpRefCount \in Counts /\ Having(held[t].mpRefCount) = {}
          /\ held[t].mpValue = ValueOf(held[t].mpRefCount)
    /\ \A t, u \in Sharers : at[t] = "delete" /\ at[u] = "delete" /\ t # u =>
          held[t].mpRefCount # held[u].mpRefCount

SolesAreRight == \A t \in Sharers : sole[t] =>
    /\ at[t] = "idle" /\ Exists(t)
    /\ \A p \in Pointers \ {t} : pointer[p].mpRefCount # pointer[t].mpRefCount

SharedInv ==
    /\ SharedTypes /\ LocksAreRight /\ PairsAreRight /\ CountsAreRight /\ DeletersAreRight /\ SolesAreRight
    /\ \A t \in Sharers : CallIsRight(t) /\ CopyIsRight(t)

LEMMA NamesDiffer ==
    ASSUME NEW t \in Sharers
    PROVE  /\ Temp(t) \in Pointers /\ t \in Pointers /\ SharedPtrs \subseteq Pointers
           /\ Temp(t) \notin SharedPtrs \cup Sharers /\ t \notin SharedPtrs
           /\ \A u \in Sharers : Temp(u) = Temp(t) => u = t
           /\ Usable(t) = SharedPtrs \cup {t} /\ Usable(t) \subseteq Pointers
  BY DEF Temp, Pointers, Usable

LEMMA PointersAreFinite == IsFiniteSet(Pointers)
<1> DEFINE T == {Temp(t) : t \in Sharers}
           f == [t \in Sharers |-> Temp(t)]
<1>1. f \in Surjection(Sharers, T)
  BY DEF Surjection
<1> HIDE DEF f
<1>2. IsFiniteSet(T)
  BY <1>1, FS_Surjection
<1> HIDE DEF T
<1>3. Pointers = SharedPtrs \cup (Sharers \cup T)
  BY DEF Pointers, T
<1>4. IsFiniteSet(Sharers \cup T)
  BY <1>2, FS_Union
<1> QED
  BY <1>3, <1>4, FS_Union

\* A thread is about pointers that all use, its own, and its temporary.
LEMMA LocksAre ==
    ASSUME SharedInv, NEW t \in Sharers
    PROVE  /\ {Source(t), First(t), Second(t), Dying(t)} \subseteq SharedPtrs \cup {t, Temp(t)}
           /\ Locks(t) \subseteq SharedPtrs \cup {t, Temp(t)}
           /\ SharedPtrs \cup {t, Temp(t)} \subseteq Pointers
<1>1. {call[t].this, call[t].other} \subseteq SharedPtrs \cup {t}
  BY NamesDiffer DEF SharedInv, CallIsRight
<1>2. {Source(t), First(t), Second(t), Dying(t)} \subseteq SharedPtrs \cup {t, Temp(t)}
  BY <1>1 DEF Source, First, Second, Dying
<1> QED
  BY <1>2, NamesDiffer DEF Locks

\* The other threads, when t changes only pointers of its own or that it has locked.
LEMMA OthersStayRight ==
    ASSUME SharedInv, NEW t \in Sharers, NEW u \in Sharers, u # t,
           at'[u] = at[u], call'[u] = call[u], held'[u] = held[u],
           \A p \in Pointers : p \notin {t, Temp(t)} \cup Locks(t) => pointer'[p] = pointer[p],
           \A p \in SharedPtrs : pointer'[p].mpRefCount = 0 <=> pointer[p].mpRefCount = 0
    PROVE  /\ CallIsRight(u)' /\ CopyIsRight(u)'
           /\ Locks(u)' = Locks(u) /\ Depth(u)' = Depth(u) /\ HalfSwapped(u)' = HalfSwapped(u)
           /\ \A p \in Locks(u) : pointer'[p] = pointer[p]
           /\ pointer'[u] = pointer[u]
<1>1. /\ Source(u)' = Source(u) /\ First(u)' = First(u) /\ Second(u)' = Second(u) /\ Dying(u)' = Dying(u)
      /\ Locks(u)' = Locks(u) /\ Depth(u)' = Depth(u) /\ HalfSwapped(u)' = HalfSwapped(u)
  BY DEF Source, First, Second, Dying, Locks, Depth, HalfSwapped
<1>2. /\ Locks(u) \subseteq SharedPtrs \cup {u, Temp(u)} /\ SharedPtrs \cup {u, Temp(u)} \subseteq Pointers
      /\ Locks(t) \subseteq SharedPtrs \cup {t, Temp(t)}
  BY LocksAre
<1>3. /\ u \notin SharedPtrs \cup {t, Temp(t)} /\ Temp(u) \notin SharedPtrs \cup {t, Temp(t)}
      /\ {t, Temp(t)} \cap (SharedPtrs \cup {u, Temp(u)}) = {}
  BY NamesDiffer
<1>4. pointer'[u] = pointer[u] /\ pointer'[Temp(u)] = pointer[Temp(u)]
  BY <1>2, <1>3
<1>5. \A p \in Locks(u) : pointer'[p] = pointer[p]
  <2> SUFFICES ASSUME NEW p \in Locks(u) PROVE pointer'[p] = pointer[p]
    OBVIOUS
  <2>1. p \in Pointers /\ mMutex[p].owner = u
    BY <1>2 DEF SharedInv, LocksAreRight
  <2>2. p \notin Locks(t)
    BY <2>1 DEF SharedInv, LocksAreRight
  <2>3. p \notin {t, Temp(t)}
    BY <1>2, <1>3
  <2> QED
    BY <2>1, <2>2, <2>3
<1>6. CopyIsRight(u)'
  <2>1. at[u] \in {"copyCount", "increment"} => Source(u) \in Locks(u)
    BY DEF Locks, Copying
  <2>2. CopyIsRight(u)
    BY DEF SharedInv
  <2> QED
    BY <1>1, <1>5, <2>1, <2>2 DEF CopyIsRight
<1>7. CallIsRight(u)'
  <2>1. CallIsRight(u)
    BY DEF SharedInv
  <2>2. {call[u].this, call[u].other} \subseteq SharedPtrs \cup {u} /\ Usable(u) = SharedPtrs \cup {u}
    BY <2>1, NamesDiffer DEF CallIsRight
  <2>3. \A p \in SharedPtrs \cup {u, Temp(u)} : Exists(p)' <=> Exists(p)
    BY <1>4 DEF Exists
  <2> QED
    BY <2>1, <2>2, <2>3 DEF CallIsRight, Usable, NoCall
<1> QED
  BY <1>1, <1>4, <1>5, <1>6, <1>7
\* A step of t as the others see it.
OthersAreLeft(t) ==
    /\ \A u \in Sharers : u # t =>
          at'[u] = at[u] /\ call'[u] = call[u] /\ held'[u] = held[u] /\ sole'[u] = sole[u]
    /\ \A p \in Pointers : p \notin {t, Temp(t)} \cup Locks(t) => pointer'[p] = pointer[p]
    /\ \A p \in SharedPtrs : pointer'[p].mpRefCount = 0 <=> pointer[p].mpRefCount = 0

\* t unlocks what it has locked and needs no more.
LEMMA LocksStayRight ==
    ASSUME SharedInv, NEW t \in Sharers, OthersAreLeft(t),
           \A p \in Pointers :
              IF p \in Locks(t)'
                THEN /\ mMutex'[p] = [owner |-> t, count |-> Depth(t)']
                     /\ mMutex[p].owner \in {"none", t}
                ELSE mMutex'[p] = IF p \in Locks(t) THEN Unlocked ELSE mMutex[p]
    PROVE  LocksAreRight'
<1>1. \A u \in Sharers : u # t => Locks(u)' = Locks(u) /\ Depth(u)' = Depth(u)
  BY OthersStayRight DEF OthersAreLeft
<1> SUFFICES ASSUME NEW p \in Pointers
             PROVE  /\ mMutex'[p].owner = "none" => mMutex'[p].count = 0
                    /\ \A u \in Sharers :
                          /\ mMutex'[p].owner = u <=> p \in Locks(u)'
                          /\ mMutex'[p].owner = u => mMutex'[p].count = Depth(u)'
  BY DEF LocksAreRight
<1>2. /\ mMutex[p].owner = "none" => mMutex[p].count = 0
      /\ \A u \in Sharers :
            /\ mMutex[p].owner = u <=> p \in Locks(u)
            /\ mMutex[p].owner = u => mMutex[p].count = Depth(u)
      /\ mMutex[p].owner \in Sharers \cup {"none"} /\ "none" \notin Sharers
  BY DEF SharedInv, LocksAreRight, SharedTypes
<1>3. CASE p \in Locks(t)'
  <2>1. mMutex'[p].owner = t /\ mMutex'[p].count = Depth(t)' /\ mMutex[p].owner \in {"none", t}
    BY <1>3
  <2>2. \A u \in Sharers : u # t => p \notin Locks(u)'
    BY <1>1, <1>2, <2>1
  <2> QED
    BY <1>2, <1>3, <2>1, <2>2
<1>4. CASE p \notin Locks(t)' /\ p \in Locks(t)
  <2>1. mMutex'[p].owner = "none" /\ mMutex'[p].count = 0
    BY <1>4 DEF Unlocked
  <2>2. \A u \in Sharers : u # t => p \notin Locks(u)'
    BY <1>1, <1>2, <1>4
  <2> QED
    BY <1>2, <1>4, <2>1, <2>2
<1>5. CASE p \notin Locks(t)' /\ p \notin Locks(t)
  <2>1. mMutex'[p] = mMutex[p] /\ mMutex[p].owner # t
    BY <1>2, <1>5
  <2> QED
    BY <1>1, <1>2, <1>5, <2>1
<1> QED
  BY <1>3, <1>4, <1>5

\* A step that changes nothing of the pointers, counts and values.
LEMMA DataStaysRight ==
    ASSUME SharedInv, NEW t \in Sharers, OthersAreLeft(t), UNCHANGED <<pointer, refCount, values>>,
           at[t] \notin {"swapCount", "delete"}, at'[t] \notin {"swapCount", "delete"}
    PROVE  PairsAreRight' /\ CountsAreRight' /\ DeletersAreRight'
<1>1. \A u \in Sharers : HalfSwapped(u)' = HalfSwapped(u)
  <2>1. HalfSwapped(t)' = HalfSwapped(t)
    BY DEF HalfSwapped
  <2>2. \A u \in Sharers : u # t => at'[u] = at[u] /\ call'[u] = call[u]
    BY DEF OthersAreLeft
  <2>3. \A u \in Sharers : u # t => HalfSwapped(u)' = HalfSwapped(u)
    BY <2>2 DEF HalfSwapped, First, Second
  <2> QED
    BY <2>1, <2>3
<1>2. \A u \in Sharers : at'[u] = "delete" <=> at[u] = "delete"
  BY DEF OthersAreLeft
<1>3. \A u \in Sharers : at[u] = "delete" => held'[u] = held[u]
  BY DEF OthersAreLeft
<1>4. \A n : ValueOf(n)' = ValueOf(n) /\ Having(n)' = Having(n)
  BY DEF ValueOf, Having
<1>5. PairsAreRight'
  <2>1. \A p \in Pointers : (\A u \in Sharers : p \notin HalfSwapped(u)') =>
            pointer'[p].mpValue = ValueOf(pointer[p].mpRefCount)
    BY <1>1 DEF SharedInv, PairsAreRight
  <2>2. \A u \in Sharers : at'[u] = "swapCount" =>
          /\ at[u] = "swapCount" /\ First(u)' = First(u) /\ Second(u)' = Second(u)
    BY DEF OthersAreLeft, First, Second
  <2>3. \A u \in Sharers : at[u] = "swapCount" =>
          /\ pointer[First(u)].mpValue = ValueOf(pointer[Second(u)].mpRefCount)
          /\ pointer[Second(u)].mpValue = ValueOf(pointer[First(u)].mpRefCount)
    BY DEF SharedInv, PairsAreRight
  <2> QED
    BY <2>1, <2>2, <2>3 DEF PairsAreRight, ValueOf
<1>6. \A n : \A u \in Sharers : Deleting(u, n)' <=> Deleting(u, n)
  BY <1>2, <1>3 DEF Deleting
<1>7. CountsAreRight'
  BY <1>4, <1>6 DEF SharedInv, CountsAreRight
<1>8. DeletersAreRight'
  <2>1. \A u \in Sharers : at'[u] = "delete" =>
          /\ held'[u].mpRefCount \in Counts /\ Having(held[u].mpRefCount) = {}
          /\ held'[u].mpValue = ValueOf(held[u].mpRefCount)
    BY <1>2, <1>3 DEF SharedInv, DeletersAreRight
  <2>2. \A u, w \in Sharers : at'[u] = "delete" /\ at'[w] = "delete" /\ u # w =>
          held'[u].mpRefCount # held'[w].mpRefCount
    BY <1>2, <1>3 DEF SharedInv, DeletersAreRight
  <2>3. \A u \in Sharers : at'[u] = "delete" => held'[u] = held[u]
    BY <1>2, <1>3
  <2> QED
    BY <2>1, <2>2, <2>3 DEF DeletersAreRight, Having, ValueOf
<1> QED
  BY <1>5, <1>7, <1>8

\* A step of t, by what it changes of what is t's.
Moves(t, step) ==
    /\ at' = [at EXCEPT ![t] = step]
    /\ \A u \in Sharers : u # t => call'[u] = call[u] /\ held'[u] = held[u] /\ sole'[u] = sole[u]

LEMMA MovesLeaves ==
    ASSUME SharedInv, NEW t \in Sharers, NEW step \in Steps, Moves(t, step), UNCHANGED pointer
    PROVE  OthersAreLeft(t) /\ at'[t] = step /\ at' \in [Sharers -> Steps]
  BY DEF Moves, OthersAreLeft, SharedInv, SharedTypes

LEMMA QuietStep ==
    ASSUME SharedInv, NEW t \in Sharers, NEW step \in Steps, Moves(t, step), UNCHANGED <<pointer, refCount, values>>,
           at[t] \notin {"swapCount", "delete"}, step \notin {"swapCount", "delete"}, ~sole'[t],
           SharedTypes', LocksAreRight', CallIsRight(t)', CopyIsRight(t)'
    PROVE  SharedInv'
<1>1. OthersAreLeft(t) /\ at'[t] = step
  BY MovesLeaves
<1>2. PairsAreRight' /\ CountsAreRight' /\ DeletersAreRight'
  BY <1>1, DataStaysRight
<1>3. SolesAreRight'
  BY <1>1 DEF SharedInv, SolesAreRight, OthersAreLeft, Exists
<1>4. \A u \in Sharers : u # t => CallIsRight(u)' /\ CopyIsRight(u)'
  BY <1>1, OthersStayRight DEF OthersAreLeft
<1> QED
  BY <1>2, <1>3, <1>4 DEF SharedInv

LEMMA LocksUnchanged ==
    ASSUME SharedInv, NEW t \in Sharers, OthersAreLeft(t), mMutex' = mMutex,
           Locks(t)' = Locks(t), Depth(t)' = Depth(t) \/ Locks(t) = {}
    PROVE  LocksAreRight'
<1>1. \A p \in Pointers : p \in Locks(t) => mMutex[p] = [owner |-> t, count |-> Depth(t)]
  BY DEF SharedInv, LocksAreRight, SharedTypes
<1>2. \A p \in Pointers :
              IF p \in Locks(t)'
                THEN /\ mMutex'[p] = [owner |-> t, count |-> Depth(t)']
                     /\ mMutex[p].owner \in {"none", t}
                ELSE mMutex'[p] = IF p \in Locks(t) THEN Unlocked ELSE mMutex[p]
  BY <1>1
<1> QED
  BY <1>2, LocksStayRight

LEMMA LocksUnlocked ==
    ASSUME SharedInv, NEW t \in Sharers, OthersAreLeft(t), Unlock(t, Locks(t)), Locks(t)' = {}
    PROVE  LocksAreRight' /\ mMutex' \in [Pointers -> [owner : Sharers \cup {"none"}, count : 0 .. 2]]
<1>1. \A p \in Pointers : mMutex'[p] = IF p \in Locks(t) THEN Unlocked ELSE mMutex[p]
  BY DEF Unlock
<1>2. \A p \in Pointers :
              IF p \in Locks(t)'
                THEN /\ mMutex'[p] = [owner |-> t, count |-> Depth(t)']
                     /\ mMutex[p].owner \in {"none", t}
                ELSE mMutex'[p] = IF p \in Locks(t) THEN Unlocked ELSE mMutex[p]
  BY <1>1
<1>3. mMutex' \in [Pointers -> [owner : Sharers \cup {"none"}, count : 0 .. 2]]
  BY DEF Unlock, Unlocked, SharedInv, SharedTypes
<1> QED
  BY <1>2, <1>3, LocksStayRight

LEMMA LocksLocked ==
    ASSUME SharedInv, NEW t \in Sharers, OthersAreLeft(t), NEW q \in Pointers, Lock(t, q),
           Locks(t)' = Locks(t) \cup {q}, Locks(t) \in {{}, {q}} \/ Depth(t)' = Depth(t),
           q \notin Locks(t) => Depth(t)' = 1,
           q \in Locks(t) => Depth(t) = 1 /\ Depth(t)' = 2
    PROVE  LocksAreRight' /\ mMutex' \in [Pointers -> [owner : Sharers \cup {"none"}, count : 0 .. 2]]
<1>1. /\ mMutex[q].owner \in {"none", t}
      /\ mMutex'[q] = [owner |-> t, count |-> mMutex[q].count + 1]
      /\ \A p \in Pointers : p # q => mMutex'[p] = mMutex[p]
  BY DEF Lock, SharedInv, SharedTypes
<1>2. /\ q \in Locks(t) => mMutex[q].count = Depth(t)
      /\ q \notin Locks(t) => mMutex[q].count = 0
  BY <1>1 DEF SharedInv, LocksAreRight
<1>3. mMutex'[q] = [owner |-> t, count |-> Depth(t)']
  BY <1>1, <1>2
<1>4. \A p \in Pointers : p \in Locks(t) => mMutex[p] = [owner |-> t, count |-> Depth(t)]
  BY DEF SharedInv, LocksAreRight, SharedTypes
<1>5. \A p \in Pointers :
              IF p \in Locks(t)'
                THEN /\ mMutex'[p] = [owner |-> t, count |-> Depth(t)']
                     /\ mMutex[p].owner \in {"none", t}
                ELSE mMutex'[p] = IF p \in Locks(t) THEN Unlocked ELSE mMutex[p]
  <2> SUFFICES ASSUME NEW p \in Pointers
               PROVE  IF p \in Locks(t)'
                        THEN /\ mMutex'[p] = [owner |-> t, count |-> Depth(t)']
                             /\ mMutex[p].owner \in {"none", t}
                        ELSE mMutex'[p] = IF p \in Locks(t) THEN Unlocked ELSE mMutex[p]
    OBVIOUS
  <2>1. CASE p = q
    BY <1>1, <1>3, <2>1
  <2>2. CASE p # q
    <3>1. mMutex'[p] = mMutex[p]
      BY <1>1, <2>2
    <3>2. CASE p \in Locks(t)
      <4>1. Depth(t)' = Depth(t) /\ mMutex[p] = [owner |-> t, count |-> Depth(t)]
        BY <1>4, <2>2, <3>2
      <4> QED
        BY <3>1, <3>2, <4>1
    <3> QED
      BY <2>2, <3>1, <3>2
  <2> QED
    BY <2>1, <2>2
<1>6. mMutex[q].count + 1 \in 0 .. 2
  BY <1>2
<1>7. mMutex' \in [Pointers -> [owner : Sharers \cup {"none"}, count : 0 .. 2]]
  BY <1>6 DEF Lock, SharedInv, SharedTypes
<1> QED
  BY <1>5, <1>7, LocksStayRight
\* A thread in a call is not the sole owner of its pointer.
LEMMA NotSole ==
    ASSUME SharedInv, NEW t \in Sharers, at[t] # "idle", sole' = sole
    PROVE  ~sole'[t]
  BY DEF SharedInv, SolesAreRight

LEMMA GoMoves ==
    ASSUME SharedInv, NEW t \in Sharers, NEW step \in Steps, Go(t, step), held' = held \/ \E h : held' = [held EXCEPT ![t] = h]
    PROVE  /\ Moves(t, step) /\ at'[t] = step /\ call'[t] = call[t] /\ call' = call /\ sole' = sole
           /\ Source(t)' = Source(t) /\ First(t)' = First(t) /\ Second(t)' = Second(t) /\ Dying(t)' = Dying(t)
  BY DEF Go, Moves, SharedInv, SharedTypes, Source, First, Second, Dying

LEMMA ReturnMoves ==
    ASSUME SharedInv, NEW t \in Sharers, Return(t), held' = held \/ \E h : held' = [held EXCEPT ![t] = h]
    PROVE  /\ Moves(t, "idle") /\ at'[t] = "idle" /\ call'[t] = NoCall(t) /\ sole' = sole
           /\ Locks(t)' = {} /\ call' \in [Sharers -> Calls]
<1>1. NoCall(t) \in Calls
  BY NamesDiffer DEF NoCall, Calls
<1> QED
  BY <1>1 DEF Return, Moves, SharedInv, SharedTypes, Locks, Copying, BothLocked, Swapping

LEMMA CopyLockKeeps ==
    ASSUME SharedInv, NEW t \in Sharers, CopyLock(t)
    PROVE  SharedInv'
<1> USE DEF CopyLock
<1>1. /\ Moves(t, "copyValue") /\ at'[t] = "copyValue" /\ call'[t] = call[t] /\ call' = call /\ sole' = sole
      /\ Source(t)' = Source(t) /\ First(t)' = First(t) /\ Second(t)' = Second(t) /\ Dying(t)' = Dying(t)
  BY GoMoves DEF Steps
<1>2. OthersAreLeft(t) /\ at' \in [Sharers -> Steps]
  BY <1>1, MovesLeaves DEF Steps
<1>3. Locks(t) = {} /\ Locks(t)' = {Source(t)} /\ Depth(t)' = 1 /\ Source(t) \in Pointers
  BY <1>1, LocksAre DEF Locks, Depth, Copying, BothLocked
<1>4. LocksAreRight' /\ mMutex' \in [Pointers -> [owner : Sharers \cup {"none"}, count : 0 .. 2]]
  BY <1>2, <1>3, LocksLocked
<1>5. SharedTypes'
  BY <1>1, <1>2, <1>4 DEF SharedInv, SharedTypes
<1>6. CallIsRight(t)' /\ CopyIsRight(t)'
  BY <1>1 DEF SharedInv, CallIsRight, CopyIsRight, Exists, Usable, Copying, Swapping
<1>7. ~sole'[t]
  BY <1>1, NotSole
<1> QED
  BY <1>1, <1>4, <1>5, <1>6, <1>7, QuietStep DEF Steps

LEMMA CopyReadsKeep ==
    ASSUME SharedInv, NEW t \in Sharers, CopyValue(t) \/ CopyCount(t)
    PROVE  SharedInv'
<1> DEFINE step == IF at[t] = "copyValue" THEN "copyCount" ELSE "increment"
<1>0. step \in {"copyCount", "increment"} /\ Go(t, step) /\ at[t] \in {"copyValue", "copyCount"}
      /\ UNCHANGED <<pointer, refCount, values, mMutex>>
  BY DEF CopyValue, CopyCount
<1>a. \E h : held' = [held EXCEPT ![t] = h]
  BY DEF CopyValue, CopyCount
<1>b. step \in Steps
  BY <1>0 DEF Steps
<1>1. /\ Moves(t, step) /\ at'[t] = step /\ call'[t] = call[t] /\ call' = call /\ sole' = sole
      /\ Source(t)' = Source(t) /\ First(t)' = First(t) /\ Second(t)' = Second(t) /\ Dying(t)' = Dying(t)
  BY <1>0, <1>a, <1>b, GoMoves
<1>2. OthersAreLeft(t) /\ at' \in [Sharers -> Steps]
  BY <1>0, <1>1, <1>b, MovesLeaves
<1>3. Locks(t) = {Source(t)} /\ Locks(t)' = {Source(t)} /\ Depth(t) = 1 /\ Depth(t)' = 1 /\ Source(t) \in Pointers
  BY <1>0, <1>1, LocksAre DEF Locks, Depth, Copying, BothLocked
<1>4. LocksAreRight'
  BY <1>0, <1>2, <1>3, LocksUnchanged
<1>5. held' \in [Sharers -> [mpValue : Counts \cup {Null}, mpRefCount : Counts \cup {0}]]
  <2>1. /\ held \in [Sharers -> [mpValue : Counts \cup {Null}, mpRefCount : Counts \cup {0}]]
        /\ pointer[Source(t)] \in [mpValue : Counts \cup {Null}, mpRefCount : Counts \cup {0}]
    BY <1>3 DEF SharedInv, SharedTypes
  <2>2. held[t] \in [mpValue : Counts \cup {Null}, mpRefCount : Counts \cup {0}]
    BY <2>1
  <2>3. CASE CopyValue(t)
    <3>1. held' = [held EXCEPT ![t].mpValue = pointer[Source(t)].mpValue]
      BY <2>3 DEF CopyValue
    <3> QED
      BY <2>1, <2>2, <3>1
  <2>4. CASE CopyCount(t)
    <3>1. held' = [held EXCEPT ![t].mpRefCount = pointer[Source(t)].mpRefCount]
      BY <2>4 DEF CopyCount
    <3> QED
      BY <2>1, <2>2, <3>1
  <2> QED
    BY <2>3, <2>4
<1>6. SharedTypes'
  BY <1>0, <1>1, <1>2, <1>5 DEF SharedInv, SharedTypes
<1>7. CallIsRight(t)'
  BY <1>0, <1>1 DEF SharedInv, CallIsRight, Exists, Usable, Copying, Swapping
<1>8. CopyIsRight(t)'
  <2>1. CASE CopyValue(t)
    BY <1>0, <1>1, <2>1 DEF SharedInv, SharedTypes, CopyIsRight, CopyValue
  <2>2. CASE CopyCount(t)
    <3>1. /\ held'[t] = [held[t] EXCEPT !.mpRefCount = pointer[Source(t)].mpRefCount]
          /\ held[t].mpValue = pointer[Source(t)].mpValue
      BY <2>2 DEF SharedInv, SharedTypes, CopyIsRight, CopyCount
    <3>2. /\ held[t] \in [mpValue : Counts \cup {Null}, mpRefCount : Counts \cup {0}]
          /\ pointer[Source(t)] \in [mpValue : Counts \cup {Null}, mpRefCount : Counts \cup {0}]
      BY <1>3 DEF SharedInv, SharedTypes
    <3>3. held'[t] = pointer[Source(t)]
      BY <3>1, <3>2
    <3>4. at[t] = "copyCount"
      BY <2>2 DEF CopyCount
    <3> QED
      BY <1>0, <1>1, <3>3, <3>4 DEF CopyIsRight
  <2> QED
    BY <2>1, <2>2
<1>9. ~sole'[t]
  BY <1>0, <1>1, NotSole
<1> QED
  BY <1>0, <1>1, <1>b, <1>4, <1>6, <1>7, <1>8, <1>9, QuietStep

LEMMA SwapLocksKeep ==
    ASSUME SharedInv, NEW t \in Sharers, SwapLock(t) \/ SwapLockOther(t)
    PROVE  SharedInv'
<1> DEFINE step == IF at[t] = "swapLock" THEN "swapLockOther" ELSE "swapValue"
<1> DEFINE q == IF at[t] = "swapLock" THEN First(t) ELSE Second(t)
<1>0. /\ step \in {"swapLockOther", "swapValue"} /\ Go(t, step) /\ at[t] \in {"swapLock", "swapLockOther"}
      /\ UNCHANGED <<pointer, refCount, values, held>> /\ Lock(t, q)
  BY DEF SwapLock, SwapLockOther
<1>b. step \in Steps
  BY <1>0 DEF Steps
<1>1. /\ Moves(t, step) /\ at'[t] = step /\ call'[t] = call[t] /\ call' = call /\ sole' = sole
      /\ Source(t)' = Source(t) /\ First(t)' = First(t) /\ Second(t)' = Second(t) /\ Dying(t)' = Dying(t)
  BY <1>0, <1>b, GoMoves
<1>2. OthersAreLeft(t) /\ at' \in [Sharers -> Steps]
  BY <1>0, <1>1, <1>b, MovesLeaves
<1>3. First(t) \in Pointers /\ Second(t) \in Pointers
  BY LocksAre
<1>4. LocksAreRight' /\ mMutex' \in [Pointers -> [owner : Sharers \cup {"none"}, count : 0 .. 2]]
  <2>1. CASE at[t] = "swapLock"
    <3>1. Locks(t) = {} /\ Locks(t)' = {First(t)} /\ Depth(t)' = 1
      BY <1>0, <1>1, <2>1 DEF Locks, Depth, Copying, BothLocked
    <3>2. Lock(t, First(t))
      BY <1>0, <2>1
    <3> QED
      BY <1>2, <1>3, <3>1, <3>2, LocksLocked
  <2>2. CASE at[t] = "swapLockOther"
    <3>1. /\ Locks(t) = {First(t)} /\ Locks(t)' = {First(t), Second(t)}
          /\ Depth(t) = 1 /\ Depth(t)' = IF First(t) = Second(t) THEN 2 ELSE 1
      BY <1>0, <1>1, <2>2 DEF Locks, Depth, Copying, BothLocked
    <3>2. Lock(t, Second(t))
      BY <1>0, <2>2
    <3> QED
      BY <1>2, <1>3, <3>1, <3>2, LocksLocked
  <2> QED
    BY <1>0, <2>1, <2>2
<1>5. SharedTypes'
  BY <1>0, <1>1, <1>2, <1>4 DEF SharedInv, SharedTypes
<1>6. CallIsRight(t)' /\ CopyIsRight(t)'
  BY <1>0, <1>1 DEF SharedInv, CallIsRight, CopyIsRight, Exists, Usable, Copying, Swapping
<1>7. ~sole'[t]
  BY <1>0, <1>1, NotSole
<1> QED
  BY <1>0, <1>1, <1>b, <1>4, <1>5, <1>6, <1>7, QuietStep

LEMMA SwapUnlockKeeps ==
    ASSUME SharedInv, NEW t \in Sharers, SwapUnlock(t)
    PROVE  SharedInv'
<1> DEFINE step == IF call[t].name = "swap" THEN "idle" ELSE "decrement"
<1>0. /\ IF call[t].name = "swap" THEN Return(t) ELSE Go(t, "decrement")
      /\ at[t] = "swapUnlock"
      /\ UNCHANGED <<pointer, refCount, values, held>> /\ Unlock(t, {First(t), Second(t)})
  BY DEF SwapUnlock
<1>b. step \in Steps /\ step \in {"idle", "decrement"} /\ {"idle", "decrement"} \subseteq Steps
  BY DEF Steps
<1>1. /\ Moves(t, step) /\ at'[t] = step /\ sole' = sole /\ call' \in [Sharers -> Calls]
      /\ call'[t] = IF call[t].name = "swap" THEN NoCall(t) ELSE call[t]
  BY <1>0, <1>b, GoMoves, ReturnMoves DEF SharedInv, SharedTypes
<1>2. OthersAreLeft(t) /\ at' \in [Sharers -> Steps]
  BY <1>0, <1>1, <1>b, MovesLeaves
<1>3. Locks(t) = {First(t), Second(t)} /\ Locks(t)' = {}
  BY <1>0, <1>1 DEF Locks, Copying, BothLocked
<1>4. LocksAreRight' /\ mMutex' \in [Pointers -> [owner : Sharers \cup {"none"}, count : 0 .. 2]]
  BY <1>0, <1>2, <1>3, LocksUnlocked
<1>5. SharedTypes'
  BY <1>0, <1>1, <1>2, <1>4 DEF SharedInv, SharedTypes
<1>6. CallIsRight(t)' /\ CopyIsRight(t)'
  BY <1>0, <1>1 DEF SharedInv, CallIsRight, CopyIsRight, Exists, Usable, Copying, Swapping, NoCall
<1>7. ~sole'[t]
  BY <1>0, <1>1, NotSole
<1> QED
  BY <1>0, <1>1, <1>b, <1>4, <1>5, <1>6, <1>7, QuietStep
LEMMA CompareKeeps ==
    ASSUME SharedInv, NEW t \in Sharers, Compare(t)
    PROVE  SharedInv'
<1>0. PICK step \in {"idle", "copyLock", "construct"} :
         /\ step = "idle" => Return(t)
         /\ step # "idle" => Go(t, step)
         /\ step = "copyLock" => call[t].name = "assign"
         /\ step = "construct" => call[t].name # "assign"
  BY DEF Compare
<1>a. /\ at[t] = "compare" /\ UNCHANGED <<pointer, refCount, values, mMutex>>
      /\ held' = [held EXCEPT ![t] = NoPointer]
  BY DEF Compare, Forget
<1>b. step \in Steps
  BY DEF Steps
<1>1. /\ Moves(t, step) /\ at'[t] = step /\ sole' = sole /\ call' \in [Sharers -> Calls]
      /\ call'[t] = IF step = "idle" THEN NoCall(t) ELSE call[t]
  <2>1. \E h : held' = [held EXCEPT ![t] = h]
    BY <1>a
  <2>2. CASE step = "idle"
    BY <1>0, <2>1, <2>2, ReturnMoves
  <2>3. CASE step # "idle"
    <3>1. Go(t, step)
      BY <1>0, <2>3
    <3>2. /\ Moves(t, step) /\ at'[t] = step /\ call'[t] = call[t] /\ call' = call /\ sole' = sole
      BY <1>b, <2>1, <3>1, GoMoves
    <3> QED
      BY <2>3, <3>2 DEF SharedInv, SharedTypes
  <2> QED
    BY <2>2, <2>3
<1>2. OthersAreLeft(t) /\ at' \in [Sharers -> Steps]
  BY <1>a, <1>1, <1>b, MovesLeaves
<1>3. Locks(t) = {} /\ Locks(t)' = {}
  BY <1>a, <1>1 DEF Locks, Copying, BothLocked
<1>4. LocksAreRight'
  BY <1>a, <1>2, <1>3, LocksUnchanged
<1>5. SharedTypes'
  BY <1>a, <1>1, <1>2 DEF SharedInv, SharedTypes, NoPointer
<1>6. CallIsRight(t)' /\ CopyIsRight(t)'
  BY <1>0, <1>a, <1>1 DEF SharedInv, CallIsRight, CopyIsRight, Exists, Usable, Copying, Swapping, NoCall
<1>7. ~sole'[t]
  BY <1>a, <1>1, NotSole
<1> QED
  BY <1>a, <1>1, <1>b, <1>4, <1>5, <1>6, <1>7, QuietStep

\* There is no memory: the call returns.
LEMMA NoMemoryKeeps ==
    ASSUME SharedInv, NEW t \in Sharers, at[t] = "construct", Return(t),
           UNCHANGED <<pointer, refCount, values, mMutex, held>>
    PROVE  SharedInv'
<1>b. "idle" \in Steps
  BY DEF Steps
<1>1. /\ Moves(t, "idle") /\ at'[t] = "idle" /\ sole' = sole /\ call' \in [Sharers -> Calls]
      /\ call'[t] = NoCall(t) /\ Locks(t)' = {}
  BY ReturnMoves
<1>2. OthersAreLeft(t) /\ at' \in [Sharers -> Steps]
  BY <1>1, <1>b, MovesLeaves
<1>3. Locks(t) = {}
  BY DEF Locks, Copying, BothLocked
<1>4. LocksAreRight'
  BY <1>1, <1>2, <1>3, LocksUnchanged
<1>5. SharedTypes'
  BY <1>1, <1>2 DEF SharedInv, SharedTypes
<1>6. CallIsRight(t)' /\ CopyIsRight(t)'
  BY <1>1 DEF SharedInv, CallIsRight, CopyIsRight, Exists, Usable, Copying, Swapping, NoCall
<1>7. ~sole'[t]
  BY <1>1, NotSole
<1> QED
  BY <1>1, <1>b, <1>4, <1>5, <1>6, <1>7, QuietStep

\* A call begins.
LEMMA BeginKeeps ==
    ASSUME SharedInv, NEW t \in Sharers, NEW name, NEW this, NEW other, NEW step,
           Begin(t, name, this, other, step),
           held' = held \/ \E p \in Pointers : Reads(t, p),
           this \in Usable(t), other \in Usable(t),
           \/ name = "destroy" /\ step = "decrement" /\ this = t /\ Exists(t)
           \/ name = "copy" /\ step = "copyLock" /\ this = t /\ other # t /\ ~Exists(t) /\ Exists(other)
           \/ name = "reset" /\ step = "compare" /\ Exists(this)
           \/ name = "assign" /\ step = "compare" /\ Exists(this) /\ Exists(other)
           \/ name = "swap" /\ step = "swapLock" /\ Exists(this) /\ Exists(other)
    PROVE  SharedInv'
<1>0. /\ at[t] = "idle" /\ at' = [at EXCEPT ![t] = step]
      /\ call' = [call EXCEPT ![t] = [name |-> name, this |-> this, other |-> other]]
      /\ sole' = [sole EXCEPT ![t] = FALSE]
      /\ UNCHANGED <<pointer, refCount, values, mMutex>>
  BY DEF Begin
<1>b. step \in Steps /\ step \in {"decrement", "copyLock", "compare", "swapLock"}
  BY DEF Steps
<1>c. held' \in [Sharers -> [mpValue : Counts \cup {Null}, mpRefCount : Counts \cup {0}]]
      /\ \A u \in Sharers : u # t => held'[u] = held[u]
  <2>1. CASE held' = held
    BY <2>1 DEF SharedInv, SharedTypes
  <2>2. ASSUME NEW p \in Pointers, Reads(t, p)
        PROVE  /\ held' \in [Sharers -> [mpValue : Counts \cup {Null}, mpRefCount : Counts \cup {0}]]
               /\ \A u \in Sharers : u # t => held'[u] = held[u]
    <3>1. pointer[p].mpValue \in Counts \cup {Null}
      BY DEF SharedInv, SharedTypes
    <3>2. held[t] \in [mpValue : Counts \cup {Null}, mpRefCount : Counts \cup {0}]
          /\ held \in [Sharers -> [mpValue : Counts \cup {Null}, mpRefCount : Counts \cup {0}]]
      BY DEF SharedInv, SharedTypes
    <3>3. held' = [held EXCEPT ![t] = [held[t] EXCEPT !.mpValue = pointer[p].mpValue]]
      BY <2>2, <3>2 DEF Reads
    <3>4. [held[t] EXCEPT !.mpValue = pointer[p].mpValue] \in [mpValue : Counts \cup {Null}, mpRefCount : Counts \cup {0}]
      BY <3>1, <3>2
    <3> QED
      BY <3>2, <3>3, <3>4
  <2> QED
    BY <2>1, <2>2
<1>d. [name |-> name, this |-> this, other |-> other] \in Calls
  BY NamesDiffer DEF Calls
<1>1. /\ Moves(t, step) /\ at'[t] = step /\ ~sole'[t] /\ call' \in [Sharers -> Calls] /\ sole' \in [Sharers -> BOOLEAN]
      /\ call'[t] = [name |-> name, this |-> this, other |-> other]
  BY <1>0, <1>c, <1>d DEF SharedInv, SharedTypes, Moves
<1>2. OthersAreLeft(t) /\ at' \in [Sharers -> Steps]
  BY <1>0, <1>1, <1>b, MovesLeaves
<1>3. Locks(t) = {} /\ Locks(t)' = {}
  BY <1>0, <1>1, <1>b DEF Locks, Copying, BothLocked
<1>4. LocksAreRight'
  BY <1>0, <1>2, <1>3, LocksUnchanged
<1>5. SharedTypes'
  BY <1>0, <1>1, <1>2, <1>c DEF SharedInv, SharedTypes
<1>6. CallIsRight(t)' /\ CopyIsRight(t)'
  BY <1>0, <1>1 DEF SharedInv, CallIsRight, CopyIsRight, Exists, Usable, Copying, Swapping, NoCall
<1> QED
  BY <1>0, <1>1, <1>b, <1>4, <1>5, <1>6, QuietStep

LEMMA uniqueKeeps ==
    ASSUME SharedInv, NEW t \in Sharers, unique(t)
    PROVE  SharedInv'
<1> USE DEF unique
<1>b. "idle" \in Steps
  BY DEF Steps
<1>1. /\ OthersAreLeft(t) /\ at'[t] = "idle" /\ at[t] = "idle"
  BY DEF OthersAreLeft, SharedInv, SharedTypes
<1>2. PairsAreRight' /\ CountsAreRight' /\ DeletersAreRight'
  BY <1>1, DataStaysRight
<1>3. \A u \in Sharers : u # t => CallIsRight(u)' /\ CopyIsRight(u)'
  BY <1>1, OthersStayRight DEF OthersAreLeft
<1>4. CallIsRight(t)' /\ CopyIsRight(t)'
  BY DEF SharedInv, CallIsRight, CopyIsRight, Exists, Usable, NoCall, Source
<1>5. Locks(t) = {} /\ Locks(t)' = {}
  BY <1>1 DEF Locks, Copying, BothLocked
<1>6. LocksAreRight'
  BY <1>1, <1>5, LocksUnchanged
<1>7. SharedTypes'
  BY DEF SharedInv, SharedTypes
<1>8. SolesAreRight'
  <2>1. ASSUME sole'[t], NEW p \in Pointers \ {t} PROVE pointer[p].mpRefCount # pointer[t].mpRefCount
    <3> DEFINE n == pointer[t].mpRefCount
    <3>1. refCount[n] = 1 /\ n \in Counts /\ t \in Pointers
      BY <2>1, NamesDiffer DEF SharedInv, SharedTypes, Exists
    <3>2. Cardinality(Having(n)) = 1 /\ Having(n) \subseteq Pointers /\ t \in Having(n)
      BY <3>1 DEF SharedInv, CountsAreRight, Having
    <3>3. IsFiniteSet(Having(n))
      BY <3>2, PointersAreFinite, FS_Subset
    <3>4. \E x : Having(n) = {x}
      BY <3>2, <3>3, FS_Singleton
    <3>5. p \notin Having(n)
      BY <3>2, <3>4
    <3> QED
      BY <3>5 DEF Having
  <2>2. \A u \in Sharers : u # t => sole'[u] = sole[u]
    BY <1>1 DEF OthersAreLeft
  <2> QED
    BY <2>1, <2>2 DEF SharedInv, SolesAreRight, Exists
<1> QED
  BY <1>2, <1>3, <1>4, <1>6, <1>7, <1>8 DEF SharedInv
(* Steps that change the pointers, the counts or the values.               *)

LEMMA LoudStep ==
    ASSUME SharedInv, NEW t \in Sharers, OthersAreLeft(t), SharedTypes', LocksAreRight', PairsAreRight',
           CountsAreRight', DeletersAreRight', SolesAreRight', CallIsRight(t)', CopyIsRight(t)'
    PROVE  SharedInv'
<1>1. \A u \in Sharers : u # t => CallIsRight(u)' /\ CopyIsRight(u)'
  BY OthersStayRight DEF OthersAreLeft
<1> QED
  BY <1>1 DEF SharedInv

LEMMA HavingIs ==
    ASSUME SharedInv, NEW n \in Counts
    PROVE  /\ IsFiniteSet(Having(n)) /\ refCount[n] = Cardinality(Having(n)) /\ refCount[n] \in Nat
           /\ refCount[n] = 0 <=> Having(n) = {}
<1>1. Having(n) \in SUBSET Pointers
  BY DEF Having
<1>2. IsFiniteSet(Having(n))
  BY <1>1, PointersAreFinite, FS_Subset
<1>3. refCount[n] = Cardinality(Having(n)) /\ refCount[n] \in Nat
  BY DEF SharedInv, CountsAreRight, SharedTypes
<1>4. Cardinality(Having(n)) = 0 <=> Having(n) = {}
  BY <1>2, FS_EmptySet
<1> QED
  BY <1>2, <1>3, <1>4

LEMMA FirstFreeIs ==
    ASSUME SharedInv, FreeCounts # {}
    PROVE  /\ FirstFree \in Counts /\ FirstFree # 0 /\ refCount[FirstFree] = 0 /\ Having(FirstFree) = {} /\ FirstFree \notin values
           /\ \A t \in Sharers : ~Deleting(t, FirstFree)
<1>1. FreeCounts \in SUBSET Nat
  BY DEF FreeCounts, Counts
<1>2. \E n \in FreeCounts : \A m \in FreeCounts : n <= m
  BY <1>1, LeastOf
<1>3. FirstFree \in FreeCounts
  BY <1>2 DEF FirstFree
<1> DEFINE n == FirstFree
<1>4. n \in Counts /\ n # 0 /\ refCount[n] = 0 /\ \A t \in Sharers : ~Deleting(t, n)
  BY <1>3 DEF FreeCounts, Deleting, Counts
<1> HIDE DEF n
<1>5. Having(n) = {}
  BY <1>4, HavingIs
<1>6. n \notin values
  BY <1>4, <1>5 DEF SharedInv, CountsAreRight
<1> QED
  BY <1>4, <1>5, <1>6 DEF n

\* A pointer that had none gets a count.
LEMMA GivesCount ==
    ASSUME SharedInv, NEW p \in Pointers, ~Exists(p), NEW n \in Counts, NEW w,
           pointer'[p] = w, w.mpRefCount = n, \A q \in Pointers : q # p => pointer'[q] = pointer[q],
           refCount'[n] = refCount[n] + 1, \A m \in Counts : m # n => refCount'[m] = refCount[m]
    PROVE  /\ Having(n)' = Having(n) \cup {p}
           /\ \A m \in Counts : m # n => Having(m)' = Having(m)
           /\ \A m \in Counts : refCount'[m] = Cardinality(Having(m)')
<1>1. /\ pointer \in [Pointers -> [mpValue : Counts \cup {Null}, mpRefCount : Counts \cup {0}]]
      /\ refCount \in [Counts -> Nat] /\ pointer[p].mpRefCount = 0
  BY DEF SharedInv, SharedTypes, Exists
<1>2. pointer'[p] = w /\ \A q \in Pointers : q # p => pointer'[q] = pointer[q]
  OBVIOUS
<1>3. 0 \notin Counts
  BY DEF Counts
<1>4. Having(n)' = Having(n) \cup {p}
  BY <1>1, <1>2 DEF Having
<1>5. ASSUME NEW m \in Counts, m # n PROVE Having(m)' = Having(m)
  BY <1>1, <1>2, <1>3, <1>5 DEF Having
<1>6. p \notin Having(n)
  BY <1>1, <1>3 DEF Having
<1>7. Cardinality(Having(n) \cup {p}) = refCount[n] + 1
  <2>1. IsFiniteSet(Having(n)) /\ refCount[n] = Cardinality(Having(n))
    BY HavingIs
  <2>2. Cardinality(Having(n) \cup {p}) = IF p \in Having(n) THEN Cardinality(Having(n)) ELSE Cardinality(Having(n)) + 1
    BY <2>1, FS_AddElement
  <2> QED
    BY <1>6, <2>1, <2>2
<1>9. ASSUME NEW m \in Counts PROVE refCount'[m] = Cardinality(Having(m)')
  <2>1. CASE m = n
    BY <1>4, <1>7, <2>1
  <2>2. CASE m # n
    BY <1>5, <2>2, HavingIs
  <2> QED
    BY <2>1, <2>2
<1> QED
  BY <1>4, <1>5, <1>9

\* A pointer gives up its count.
LEMMA TakesCount ==
    ASSUME SharedInv, NEW p \in Pointers, Exists(p), NEW n, n = pointer[p].mpRefCount,
           pointer'[p] = NoPointer, \A q \in Pointers : q # p => pointer'[q] = pointer[q],
           refCount'[n] = refCount[n] - 1, \A m \in Counts : m # n => refCount'[m] = refCount[m]
    PROVE  /\ n \in Counts /\ Having(n)' = Having(n) \ {p} /\ p \in Having(n)
           /\ \A m \in Counts : m # n => Having(m)' = Having(m)
           /\ \A m \in Counts : refCount'[m] = Cardinality(Having(m)')
           /\ refCount'[n] \in Nat
           /\ refCount[n] = 1 <=> Having(n)' = {}
<1>1. /\ pointer \in [Pointers -> [mpValue : Counts \cup {Null}, mpRefCount : Counts \cup {0}]]
      /\ refCount \in [Counts -> Nat] /\ n \in Counts
  BY DEF SharedInv, SharedTypes, Exists
<1>2. pointer'[p] = NoPointer /\ \A q \in Pointers : q # p => pointer'[q] = pointer[q]
  OBVIOUS
<1>3. 0 \notin Counts /\ NoPointer.mpRefCount = 0
  BY DEF Counts, NoPointer
<1>4. Having(n)' = Having(n) \ {p} /\ p \in Having(n)
  BY <1>1, <1>2, <1>3 DEF Having
<1>5. ASSUME NEW m \in Counts, m # n PROVE Having(m)' = Having(m)
  BY <1>1, <1>2, <1>3, <1>5 DEF Having
<1>6. /\ Cardinality(Having(n) \ {p}) = refCount[n] - 1 /\ IsFiniteSet(Having(n) \ {p})
      /\ refCount[n] \in Nat /\ refCount[n] # 0
  BY <1>1, <1>4, HavingIs, FS_RemoveElement
<1>7. refCount[n] = 1 <=> Having(n) \ {p} = {}
  BY <1>6, FS_EmptySet
<1>8. refCount'[n] \in Nat
  BY <1>6
<1>9. ASSUME NEW m \in Counts PROVE refCount'[m] = Cardinality(Having(m)')
  <2>1. CASE m = n
    BY <1>4, <1>6, <2>1
  <2>2. CASE m # n
    BY <1>5, <2>2, HavingIs
  <2> QED
    BY <2>1, <2>2
<1> QED
  BY <1>1, <1>4, <1>5, <1>7, <1>8, <1>9

LEMMA PairsStayRight ==
    ASSUME SharedInv, NEW t \in Sharers, OthersAreLeft(t),
           at[t] # "swapCount", at'[t] # "swapCount",
           \A p \in Pointers : pointer[p].mpRefCount \in values <=> pointer[p].mpRefCount \in values',
           \A p \in Pointers : \/ pointer'[p] = pointer[p]
                               \/ pointer'[p].mpValue = IF pointer'[p].mpRefCount \in values' THEN pointer'[p].mpRefCount ELSE Null
    PROVE  PairsAreRight'
<1>1. \A u \in Sharers : HalfSwapped(u)' = HalfSwapped(u)
  <2>1. HalfSwapped(t)' = HalfSwapped(t)
    BY DEF HalfSwapped
  <2> QED
    BY <2>1, OthersStayRight DEF OthersAreLeft
<1>2. ASSUME NEW p \in Pointers, \A u \in Sharers : p \notin HalfSwapped(u)'
      PROVE  pointer'[p].mpValue = ValueOf(pointer[p].mpRefCount)'
  BY <1>1, <1>2 DEF SharedInv, PairsAreRight, ValueOf
<1>3. ASSUME NEW u \in Sharers, at'[u] = "swapCount"
      PROVE  /\ pointer'[First(u)'].mpValue = ValueOf(pointer[Second(u)].mpRefCount)'
             /\ pointer'[Second(u)'].mpValue = ValueOf(pointer[First(u)].mpRefCount)'
  <2>1. u # t /\ at[u] = "swapCount" /\ First(u)' = First(u) /\ Second(u)' = Second(u)
    BY <1>3 DEF OthersAreLeft, First, Second
  <2>2. First(u) \in Locks(u) /\ Second(u) \in Locks(u)
    BY <2>1 DEF Locks, Copying, BothLocked
  <2>3. pointer'[First(u)] = pointer[First(u)] /\ pointer'[Second(u)] = pointer[Second(u)]
    BY <2>1, <2>2, OthersStayRight DEF OthersAreLeft
  <2>4. First(u) \in Pointers /\ Second(u) \in Pointers
    BY LocksAre
  <2> QED
    BY <2>1, <2>3, <2>4 DEF SharedInv, PairsAreRight, ValueOf
<1> QED
  BY <1>2, <1>3 DEF PairsAreRight

LEMMA DeletersStayRight ==
    ASSUME SharedInv, NEW t \in Sharers, OthersAreLeft(t), at'[t] # "delete",
           \A n \in Counts : (\E u \in Sharers : u # t /\ Deleting(u, n)) =>
              Having(n)' = {} /\ (n \in values <=> n \in values')
    PROVE  DeletersAreRight'
<1>1. \A u \in Sharers : at'[u] = "delete" => u # t /\ at[u] = "delete" /\ held'[u] = held[u]
  BY DEF OthersAreLeft
<1>2. ASSUME NEW u \in Sharers, at'[u] = "delete"
      PROVE  /\ held'[u].mpRefCount \in Counts /\ Having(held[u].mpRefCount)' = {}
             /\ held'[u].mpValue = ValueOf(held[u].mpRefCount)'
  <2>1. PICK n \in Counts : n = held[u].mpRefCount
    BY <1>1, <1>2 DEF SharedInv, DeletersAreRight
  <2>2. Having(n)' = {} /\ (n \in values <=> n \in values')
    BY <1>1, <1>2, <2>1 DEF Deleting
  <2>3. held'[u].mpRefCount = n /\ held'[u].mpValue = IF n \in values THEN n ELSE Null
    BY <1>1, <1>2, <2>1 DEF SharedInv, DeletersAreRight, ValueOf
  <2> QED
    BY <2>2, <2>3 DEF Having, ValueOf
<1>3. \A u, w \in Sharers : at'[u] = "delete" /\ at'[w] = "delete" /\ u # w =>
          held'[u].mpRefCount # held'[w].mpRefCount
  BY <1>1 DEF SharedInv, DeletersAreRight
<1> QED
  BY <1>2, <1>3 DEF DeletersAreRight
\* The heart of GivesCount for a thread that makes a pointer: of a new count, or
\* of that of a pointer it has locked.
LEMMA MakesPointer ==
    ASSUME SharedInv, NEW t \in Sharers, NEW p \in {t, Temp(t)}, ~Exists(p), NEW n \in Counts, NEW w,
           pointer'[p] = w, w.mpRefCount = n, \A q \in Pointers : q # p => pointer'[q] = pointer[q],
           refCount'[n] = refCount[n] + 1, \A m \in Counts : m # n => refCount'[m] = refCount[m],
           values' \subseteq Counts, values \subseteq values', \A m \in values' : m # n => m \in values,
           w.mpValue = IF n \in values' THEN n ELSE Null,
           Having(n) # {} => values' = values,
           \A u \in Sharers : ~Deleting(u, n),
           \A u \in Sharers : u # t =>
              at'[u] = at[u] /\ call'[u] = call[u] /\ held'[u] = held[u] /\ sole'[u] = sole[u],
           \A u \in Sharers : u # t /\ Exists(u) /\ pointer[u].mpRefCount = n
              => \E q \in Pointers : q # u /\ pointer[q].mpRefCount = n,
           ~sole'[t], at[t] \notin {"swapCount", "delete"}, at'[t] \notin {"swapCount", "delete"}
    PROVE  /\ OthersAreLeft(t) /\ PairsAreRight' /\ CountsAreRight' /\ DeletersAreRight' /\ SolesAreRight'
<1>0. p \in Pointers /\ p \notin SharedPtrs
  BY NamesDiffer
<1>1. /\ Having(n)' = Having(n) \cup {p}
      /\ \A m \in Counts : m # n => Having(m)' = Having(m)
      /\ \A m \in Counts : refCount'[m] = Cardinality(Having(m)')
  BY <1>0, GivesCount
<1>2. pointer'[p] = w /\ \A q \in Pointers : q # p => pointer'[q] = pointer[q]
  OBVIOUS
<1>3. OthersAreLeft(t)
  BY <1>0, <1>2, NamesDiffer DEF OthersAreLeft
<1>4. PairsAreRight'
  <2>1. \A q \in Pointers : pointer[q].mpRefCount \in values <=> pointer[q].mpRefCount \in values'
    BY DEF Having
  <2>2. \A q \in Pointers : \/ pointer'[q] = pointer[q]
                            \/ pointer'[q].mpValue = IF pointer'[q].mpRefCount \in values' THEN pointer'[q].mpRefCount ELSE Null
    BY <1>2
  <2> QED
    BY <1>3, <2>1, <2>2, PairsStayRight
<1>5. \A u \in Sharers : \A m : Deleting(u, m)' <=> Deleting(u, m)
  BY DEF Deleting
<1>6. CountsAreRight'
  <2>1. ASSUME NEW m \in values' PROVE Having(m)' # {} \/ \E u \in Sharers : Deleting(u, m)'
    <3>1. CASE m = n
      BY <1>1, <3>1
    <3>2. CASE m # n
      BY <1>1, <1>5, <3>2 DEF SharedInv, CountsAreRight
    <3> QED
      BY <3>1, <3>2
  <2> QED
    BY <1>1, <2>1 DEF CountsAreRight
<1>7. DeletersAreRight'
  <2>1. \A m \in Counts : (\E u \in Sharers : u # t /\ Deleting(u, m)) =>
              Having(m)' = {} /\ (m \in values <=> m \in values')
    <3> SUFFICES ASSUME NEW m \in Counts, NEW u \in Sharers, Deleting(u, m)
                 PROVE  Having(m)' = {} /\ (m \in values <=> m \in values')
      OBVIOUS
    <3>1. m # n
      OBVIOUS
    <3>2. Having(m) = {}
      BY DEF SharedInv, DeletersAreRight, Deleting
    <3>3. Having(m)' = Having(m)
      BY <1>1, <3>1
    <3> QED
      BY <3>1, <3>2, <3>3
  <2> QED
    BY <1>3, <2>1, DeletersStayRight
<1>8. SolesAreRight'
  <2> SUFFICES ASSUME NEW u \in Sharers, sole'[u]
               PROVE  /\ at'[u] = "idle" /\ pointer'[u].mpRefCount # 0
                      /\ \A q \in Pointers \ {u} : pointer'[q].mpRefCount # pointer'[u].mpRefCount
    BY DEF SolesAreRight, Exists
  <2>1. u # t /\ sole[u] /\ u \in Pointers
    BY NamesDiffer
  <2>2. at'[u] = "idle" /\ pointer'[u] = pointer[u] /\ Exists(u) /\ u # p
    BY <1>2, <2>1, NamesDiffer DEF SharedInv, SolesAreRight
  <2>3. pointer[u].mpRefCount # n
    BY <2>1, <2>2 DEF SharedInv, SolesAreRight
  <2>4. \A q \in Pointers \ {u} : pointer'[q].mpRefCount # pointer'[u].mpRefCount
    BY <1>2, <2>1, <2>2, <2>3 DEF SharedInv, SolesAreRight
  <2> QED
    BY <2>2, <2>4 DEF Exists
<1> QED
  BY <1>3, <1>4, <1>6, <1>7, <1>8

LEMMA TakeMakes ==
    ASSUME SharedInv, NEW t \in Sharers, NEW p \in {t, Temp(t)}, ~Exists(p), FreeCounts # {}, Take(t, p),
           \A u \in Sharers : u # t =>
              at'[u] = at[u] /\ call'[u] = call[u] /\ held'[u] = held[u] /\ sole'[u] = sole[u],
           ~sole'[t], at[t] \notin {"swapCount", "delete"}, at'[t] \notin {"swapCount", "delete"}
    PROVE  /\ OthersAreLeft(t) /\ PairsAreRight' /\ CountsAreRight' /\ DeletersAreRight' /\ SolesAreRight'
           /\ pointer' \in [Pointers -> [mpValue : Counts \cup {Null}, mpRefCount : Counts \cup {0}]]
           /\ refCount' \in [Counts -> Nat] /\ values' \subseteq Counts
           /\ pointer'[p].mpRefCount # 0 /\ \A q \in Pointers : q # p => pointer'[q] = pointer[q]
<1>1. PICK n \in Counts : /\ n = FirstFree /\ n # 0 /\ refCount[n] = 0 /\ Having(n) = {} /\ n \notin values
                          /\ \A u \in Sharers : ~Deleting(u, n)
  BY FirstFreeIs
<1>2. PICK v \in {Null, n} :
         /\ pointer' = [pointer EXCEPT ![p] = [mpValue |-> v, mpRefCount |-> n]]
         /\ refCount' = [refCount EXCEPT ![n] = 1]
         /\ values' = values \cup ({v} \ {Null})
  BY <1>1 DEF Take
<1> DEFINE w == [mpValue |-> v, mpRefCount |-> n]
<1>3. w \in [mpValue : Counts \cup {Null}, mpRefCount : Counts \cup {0}] /\ w.mpRefCount = n /\ w.mpValue = v
  OBVIOUS
<1>4. /\ pointer'[p] = w /\ \A q \in Pointers : q # p => pointer'[q] = pointer[q]
      /\ refCount'[n] = refCount[n] + 1 /\ \A m \in Counts : m # n => refCount'[m] = refCount[m]
      /\ pointer' \in [Pointers -> [mpValue : Counts \cup {Null}, mpRefCount : Counts \cup {0}]]
      /\ refCount' \in [Counts -> Nat]
  <2>1. /\ pointer \in [Pointers -> [mpValue : Counts \cup {Null}, mpRefCount : Counts \cup {0}]]
        /\ refCount \in [Counts -> Nat]
    BY DEF SharedInv, SharedTypes
  <2>1a. p \in Pointers
    BY NamesDiffer
  <2>2. pointer' = [pointer EXCEPT ![p] = w]
    BY <1>2
  <2> HIDE DEF w
  <2>3. /\ pointer'[p] = w /\ \A q \in Pointers : q # p => pointer'[q] = pointer[q]
        /\ pointer' \in [Pointers -> [mpValue : Counts \cup {Null}, mpRefCount : Counts \cup {0}]]
    BY <1>3, <2>1, <2>1a, <2>2
  <2>4. /\ refCount'[n] = refCount[n] + 1 /\ \A m \in Counts : m # n => refCount'[m] = refCount[m]
        /\ refCount' \in [Counts -> Nat]
    BY <1>1, <1>2, <2>1
  <2> QED
    BY <2>3, <2>4
<1>5. /\ values' \subseteq Counts /\ values \subseteq values' /\ \A m \in values' : m # n => m \in values
      /\ v = IF n \in values' THEN n ELSE Null
  BY <1>1, <1>2 DEF SharedInv, SharedTypes, Null
<1>6. \A u \in Sharers : u # t /\ Exists(u) /\ pointer[u].mpRefCount = n
              => \E q \in Pointers : q # u /\ pointer[q].mpRefCount = n
  BY <1>1, NamesDiffer DEF Having
<1> HIDE DEF w
<1>7. OthersAreLeft(t) /\ PairsAreRight' /\ CountsAreRight' /\ DeletersAreRight' /\ SolesAreRight'
  BY <1>1, <1>3, <1>4, <1>5, <1>6, MakesPointer
<1> QED
  BY <1>1, <1>3, <1>4, <1>5, <1>7

LEMMA ConstructKeeps ==
    ASSUME SharedInv, NEW t \in Sharers, Construct(t)
    PROVE  SharedInv'
<1> USE DEF Construct
<1>0. at[t] = "idle" /\ ~Exists(t) /\ ~sole'[t]
  BY DEF MayConstruct, SharedInv, SolesAreRight
<1>1. /\ OthersAreLeft(t) /\ PairsAreRight' /\ CountsAreRight' /\ DeletersAreRight' /\ SolesAreRight'
      /\ pointer' \in [Pointers -> [mpValue : Counts \cup {Null}, mpRefCount : Counts \cup {0}]]
      /\ refCount' \in [Counts -> Nat] /\ values' \subseteq Counts
      /\ pointer'[t].mpRefCount # 0 /\ \A q \in Pointers : q # t => pointer'[q] = pointer[q]
  BY <1>0, TakeMakes
<1>2. SharedTypes'
  BY <1>1 DEF SharedInv, SharedTypes
<1>3. Locks(t) = {} /\ Locks(t)' = {}
  BY <1>0 DEF Locks, Copying, BothLocked
<1>4. LocksAreRight'
  BY <1>1, <1>3, LocksUnchanged
<1>5. CallIsRight(t)' /\ CopyIsRight(t)'
  <2>1. Exists(Temp(t))' <=> Exists(Temp(t))
    BY <1>1, NamesDiffer DEF Exists
  <2>2. CopyIsRight(t)'
    BY <1>0 DEF CopyIsRight
  <2> QED
    BY <1>0, <2>1, <2>2 DEF SharedInv, CallIsRight, Usable, NoCall, Copying, Swapping
<1> QED
  BY <1>1, <1>2, <1>4, <1>5, LoudStep

LEMMA ConstructTempKeeps ==
    ASSUME SharedInv, NEW t \in Sharers, ConstructTemp(t)
    PROVE  SharedInv'
<1>0. at[t] = "construct"
  BY DEF ConstructTemp
<1>1. CASE FreeCounts # {} /\ Take(t, Temp(t)) /\ Go(t, "swapLock") /\ UNCHANGED <<mMutex, held>>
  <2>1. /\ Moves(t, "swapLock") /\ at'[t] = "swapLock" /\ call'[t] = call[t] /\ call' = call /\ sole' = sole
        /\ Source(t)' = Source(t) /\ First(t)' = First(t) /\ Second(t)' = Second(t) /\ Dying(t)' = Dying(t)
    BY <1>1, GoMoves DEF Steps
  <2>2. ~sole'[t] /\ ~Exists(Temp(t)) /\ call[t].name = "reset"
    BY <1>0, <2>1, NotSole DEF SharedInv, CallIsRight, Swapping
  <2>3. \A u \in Sharers : u # t =>
              at'[u] = at[u] /\ call'[u] = call[u] /\ held'[u] = held[u] /\ sole'[u] = sole[u]
    BY <2>1 DEF Moves, SharedInv, SharedTypes
  <2>4. /\ OthersAreLeft(t) /\ PairsAreRight' /\ CountsAreRight' /\ DeletersAreRight' /\ SolesAreRight'
        /\ pointer' \in [Pointers -> [mpValue : Counts \cup {Null}, mpRefCount : Counts \cup {0}]]
        /\ refCount' \in [Counts -> Nat] /\ values' \subseteq Counts
        /\ pointer'[Temp(t)].mpRefCount # 0 /\ \A q \in Pointers : q # Temp(t) => pointer'[q] = pointer[q]
    BY <1>0, <1>1, <2>1, <2>2, <2>3, TakeMakes
  <2>5. SharedTypes'
    <3>1. at' \in [Sharers -> Steps]
      BY <2>1 DEF Moves, Steps, SharedInv, SharedTypes
    <3> QED
      BY <1>1, <2>1, <2>4, <3>1 DEF SharedInv, SharedTypes
  <2>6. Locks(t) = {} /\ Locks(t)' = {}
    BY <1>0, <2>1 DEF Locks, Copying, BothLocked
  <2>7. LocksAreRight'
    BY <1>1, <2>4, <2>6, LocksUnchanged
  <2>8. CallIsRight(t)' /\ CopyIsRight(t)'
    <3>1. Exists(Temp(t))' /\ \A q \in Usable(t) : Exists(q)' <=> Exists(q)
      BY <2>4, NamesDiffer DEF Exists
    <3>2. CopyIsRight(t)'
      BY <2>1 DEF CopyIsRight
    <3> QED
      BY <1>0, <2>1, <2>2, <3>1, <3>2 DEF SharedInv, CallIsRight, Usable, NoCall, Copying, Swapping
  <2> QED
    BY <2>4, <2>5, <2>7, <2>8, LoudStep
<1> QED
  BY <1>0, <1>1, NoMemoryKeeps DEF ConstructTemp
\* What no thread has half swapped is a count with its value.
LEMMA PairIs ==
    ASSUME SharedInv, NEW t \in Sharers, NEW p \in Pointers, at[t] # "swapCount",
           p \in {t, Temp(t)} \cup Locks(t)
    PROVE  pointer[p].mpValue = ValueOf(pointer[p].mpRefCount)
<1>1. ASSUME NEW u \in Sharers PROVE p \notin HalfSwapped(u)
  <2>1. HalfSwapped(u) \subseteq Locks(u)
    BY DEF HalfSwapped, Locks, Copying, BothLocked
  <2>2. CASE u # t
    <3>1. Locks(u) \subseteq SharedPtrs \cup {u, Temp(u)}
      BY LocksAre
    <3>2. p \notin Locks(t) \/ p \notin Locks(u)
      BY <2>2 DEF SharedInv, LocksAreRight
    <3>3. p \in {t, Temp(t)} => p \notin SharedPtrs \cup {u, Temp(u)}
      BY <2>2, NamesDiffer
    <3> QED
      BY <2>1, <3>1, <3>2, <3>3
  <2>3. CASE u = t
    BY <2>3 DEF HalfSwapped
  <2> QED
    BY <2>2, <2>3
<1> QED
  BY <1>1 DEF SharedInv, PairsAreRight

LEMMA IncrementKeeps ==
    ASSUME SharedInv, NEW t \in Sharers, Increment(t)
    PROVE  SharedInv'
<1> DEFINE step == IF call[t].name = "copy" THEN "idle" ELSE "swapLock"
<1>0. /\ at[t] = "increment" /\ held' = [held EXCEPT ![t] = NoPointer] /\ values' = values
      /\ refCount' = [refCount EXCEPT ![held[t].mpRefCount] = @ + 1]
      /\ pointer' = [pointer EXCEPT ![Made(t)] = held[t]]
      /\ Unlock(t, {Source(t)})
      /\ IF call[t].name = "copy" THEN Return(t) ELSE Go(t, "swapLock")
  BY DEF Increment, Forget
<1>b. step \in Steps /\ step \in {"idle", "swapLock"} /\ {"idle", "swapLock"} \subseteq Steps
  BY DEF Steps
<1>1. /\ Moves(t, step) /\ at'[t] = step /\ sole' = sole /\ call' \in [Sharers -> Calls]
      /\ call'[t] = IF call[t].name = "copy" THEN NoCall(t) ELSE call[t]
  <2>1. \E h : held' = [held EXCEPT ![t] = h]
    BY <1>0
  <2> QED
    BY <1>0, <1>b, <2>1, GoMoves, ReturnMoves DEF SharedInv, SharedTypes
<1>2. /\ call[t].name \in {"copy", "assign"} /\ held[t] = pointer[Source(t)] /\ Exists(Source(t))
      /\ Source(t) \in SharedPtrs \cup {t} /\ Source(t) \in Pointers
  BY <1>0, NamesDiffer DEF SharedInv, CallIsRight, CopyIsRight, Source, Copying
<1>3. Made(t) \in {t, Temp(t)} /\ ~Exists(Made(t)) /\ (call[t].name = "copy" => Made(t) = t)
      /\ (call[t].name # "copy" => Made(t) = Temp(t))
  BY <1>0, <1>2 DEF SharedInv, CallIsRight, Made, Copying, Swapping
<1>4. PICK h \in [mpValue : Counts \cup {Null}, mpRefCount : Counts \cup {0}] : h = held[t]
  BY DEF SharedInv, SharedTypes
<1>5. PICK n \in Counts : n = h.mpRefCount
  BY <1>2, <1>4 DEF Exists
<1>6. PICK p \in {t, Temp(t)} : p = Made(t)
  BY <1>3
<1>7. p \in Pointers
  BY NamesDiffer
<1>8. /\ pointer \in [Pointers -> [mpValue : Counts \cup {Null}, mpRefCount : Counts \cup {0}]]
      /\ refCount \in [Counts -> Nat] /\ values \subseteq Counts
  BY DEF SharedInv, SharedTypes
<1>9. /\ pointer'[p] = h /\ \A q \in Pointers : q # p => pointer'[q] = pointer[q]
      /\ pointer' \in [Pointers -> [mpValue : Counts \cup {Null}, mpRefCount : Counts \cup {0}]]
  BY <1>0, <1>4, <1>6, <1>7, <1>8
<1>10. /\ refCount'[n] = refCount[n] + 1 /\ \A m \in Counts : m # n => refCount'[m] = refCount[m]
       /\ refCount' \in [Counts -> Nat]
  BY <1>0, <1>4, <1>5, <1>8
<1>11. /\ Source(t) \in Locks(t) /\ Locks(t) = {Source(t)} /\ Locks(t)' = {}
  BY <1>0, <1>1 DEF Locks, Copying, BothLocked
<1>12. h.mpValue = IF n \in values' THEN n ELSE Null
  BY <1>0, <1>2, <1>4, <1>5, <1>11, PairIs DEF ValueOf
<1>13. Source(t) \in Having(n)
  BY <1>2, <1>4, <1>5 DEF Having
<1>14. \A u \in Sharers : ~Deleting(u, n)
  BY <1>13 DEF SharedInv, DeletersAreRight, Deleting
<1>15. \A u \in Sharers : u # t /\ Exists(u) /\ pointer[u].mpRefCount = n
              => \E q \in Pointers : q # u /\ pointer[q].mpRefCount = n
  BY <1>2, <1>13, NamesDiffer DEF Having
<1>16. \A u \in Sharers : u # t =>
              at'[u] = at[u] /\ call'[u] = call[u] /\ held'[u] = held[u] /\ sole'[u] = sole[u]
  BY <1>1 DEF Moves, SharedInv, SharedTypes
<1>17. ~sole'[t] /\ at[t] \notin {"swapCount", "delete"} /\ at'[t] \notin {"swapCount", "delete"} /\ ~Exists(p)
  BY <1>0, <1>1, <1>b, <1>3, <1>6, NotSole
<1>18. OthersAreLeft(t) /\ PairsAreRight' /\ CountsAreRight' /\ DeletersAreRight' /\ SolesAreRight'
  <2>1. /\ values' \subseteq Counts /\ values \subseteq values' /\ \A m \in values' : m # n => m \in values
        /\ Having(n) # {} => values' = values
        /\ h.mpRefCount = n
    BY <1>0, <1>5, <1>8
  <2> QED
    BY <1>9, <1>10, <1>12, <1>14, <1>15, <1>16, <1>17, <2>1, MakesPointer
<1>19. LocksAreRight' /\ mMutex' \in [Pointers -> [owner : Sharers \cup {"none"}, count : 0 .. 2]]
  BY <1>0, <1>11, <1>18, LocksUnlocked
<1>20. SharedTypes'
  <2>1. at' \in [Sharers -> Steps]
    BY <1>1, <1>b DEF Moves, SharedInv, SharedTypes
  <2>2. held' \in [Sharers -> [mpValue : Counts \cup {Null}, mpRefCount : Counts \cup {0}]]
    BY <1>0 DEF NoPointer, SharedInv, SharedTypes
  <2> QED
    BY <1>0, <1>1, <1>8, <1>9, <1>10, <1>19, <2>1, <2>2 DEF SharedInv, SharedTypes
<1>21. CallIsRight(t)' /\ CopyIsRight(t)'
  <2>1. CopyIsRight(t)'
    BY <1>1, <1>b DEF CopyIsRight
  <2>2. CASE call[t].name = "copy"
    <3>1. Exists(Temp(t))' <=> Exists(Temp(t))
      BY <1>3, <1>6, <1>9, <2>2, NamesDiffer DEF Exists
    <3> QED
      BY <1>0, <1>1, <2>1, <2>2, <3>1 DEF SharedInv, CallIsRight, Usable, NoCall, Copying, Swapping
  <2>3. CASE call[t].name # "copy"
    <3>1. Exists(Temp(t))' /\ \A q \in Usable(t) : Exists(q)' <=> Exists(q)
      BY <1>3, <1>4, <1>5, <1>6, <1>9, <2>3, NamesDiffer DEF Exists, Counts
    <3>2. /\ call[t].name = "assign" /\ Exists(call[t].this) /\ Exists(call[t].other)
          /\ {call[t].this, call[t].other} \subseteq Usable(t)
      BY <1>2, <2>3 DEF SharedInv, CallIsRight
    <3>3. Exists(call[t].this)' /\ Exists(call[t].other)'
      BY <1>1, <2>3, <3>1, <3>2 DEF Exists
    <3>4. at'[t] = "swapLock" /\ call'[t] = call[t]
      BY <1>1, <2>3
    <3> QED
      BY <2>1, <3>1, <3>2, <3>3, <3>4 DEF CallIsRight, Usable, Copying, Swapping
  <2> QED
    BY <2>1, <2>2, <2>3
<1> QED
  BY <1>18, <1>19, <1>20, <1>21, LoudStep

LEMMA DeleteKeeps ==
    ASSUME SharedInv, NEW t \in Sharers, Delete(t)
    PROVE  SharedInv'
<1>0. /\ at[t] = "delete" /\ held' = [held EXCEPT ![t] = NoPointer] /\ values' = values \ {held[t].mpValue}
      /\ Unlock(t, {Dying(t)}) /\ Return(t) /\ UNCHANGED <<pointer, refCount>>
  BY DEF Delete, Forget
<1>1. /\ Moves(t, "idle") /\ at'[t] = "idle" /\ sole' = sole /\ call' \in [Sharers -> Calls]
      /\ call'[t] = NoCall(t) /\ Locks(t)' = {}
  <2>1. \E h : held' = [held EXCEPT ![t] = h]
    BY <1>0
  <2> QED
    BY <1>0, <2>1, ReturnMoves
<1>2. OthersAreLeft(t) /\ at' \in [Sharers -> Steps]
  BY <1>0, <1>1, MovesLeaves DEF Steps
<1>3. PICK n \in Counts : n = held[t].mpRefCount
  BY <1>0 DEF SharedInv, DeletersAreRight
<1>4. Having(n) = {} /\ held[t].mpValue = IF n \in values THEN n ELSE Null
  BY <1>0, <1>3 DEF SharedInv, DeletersAreRight, ValueOf
<1>5. values \subseteq Counts /\ Null \notin values
  BY DEF SharedInv, SharedTypes, Counts, Null
<1>6. values' = values \ {n}
  BY <1>0, <1>4, <1>5
<1>7. PairsAreRight'
  <2>1. \A p \in Pointers : pointer[p].mpRefCount \in values <=> pointer[p].mpRefCount \in values'
    BY <1>4, <1>6 DEF Having
  <2> QED
    BY <1>0, <1>1, <1>2, <2>1, PairsStayRight
<1>8. \A m : Having(m)' = Having(m)
  BY <1>0 DEF Having
<1>9. CountsAreRight'
  <2>1. ASSUME NEW m \in values' PROVE Having(m)' # {} \/ \E u \in Sharers : Deleting(u, m)'
    <3>1. m \in values /\ m # n
      BY <1>6
    <3>2. CASE Having(m) # {}
      BY <1>8, <3>2
    <3>3. ASSUME NEW u \in Sharers, Deleting(u, m) PROVE Deleting(u, m)'
      BY <1>2, <1>3, <3>1, <3>3 DEF Deleting, OthersAreLeft
    <3> QED
      BY <3>1, <3>2, <3>3 DEF SharedInv, CountsAreRight
  <2> QED
    BY <1>0, <1>8, <2>1 DEF SharedInv, CountsAreRight
<1>10. DeletersAreRight'
  <2>1. \A m \in Counts : (\E u \in Sharers : u # t /\ Deleting(u, m)) =>
              Having(m)' = {} /\ (m \in values <=> m \in values')
    <3> SUFFICES ASSUME NEW m \in Counts, NEW u \in Sharers, u # t, Deleting(u, m)
                 PROVE  Having(m)' = {} /\ (m \in values <=> m \in values')
      OBVIOUS
    <3>1. m # n /\ Having(m) = {}
      BY <1>0, <1>3 DEF SharedInv, DeletersAreRight, Deleting
    <3> QED
      BY <1>6, <1>8, <3>1
  <2> QED
    BY <1>1, <1>2, <2>1, DeletersStayRight
<1>11. SolesAreRight'
  <2>1. ~sole'[t]
    BY <1>0, <1>1, NotSole
  <2> QED
    BY <1>0, <1>2, <2>1 DEF SharedInv, SolesAreRight, OthersAreLeft, Exists
<1>12. Locks(t) = {Dying(t)}
  BY <1>0 DEF Locks, Copying, BothLocked, Swapping
<1>13. LocksAreRight' /\ mMutex' \in [Pointers -> [owner : Sharers \cup {"none"}, count : 0 .. 2]]
  BY <1>0, <1>1, <1>2, <1>12, LocksUnlocked
<1>14. SharedTypes'
  BY <1>0, <1>1, <1>2, <1>5, <1>6, <1>13 DEF SharedInv, SharedTypes, NoPointer
<1>15. CallIsRight(t)' /\ CopyIsRight(t)'
  BY <1>0, <1>1 DEF SharedInv, CallIsRight, CopyIsRight, Exists, Usable, NoCall, Copying, Swapping
<1> QED
  BY <1>2, <1>7, <1>9, <1>10, <1>11, <1>13, <1>14, <1>15, LoudStep
LEMMA DecrementKeeps ==
    ASSUME SharedInv, NEW t \in Sharers, Decrement(t)
    PROVE  SharedInv'
<1>0. /\ at[t] = "decrement" /\ values' = values
      /\ refCount' = [refCount EXCEPT ![pointer[Dying(t)].mpRefCount] = @ - 1]
      /\ pointer' = [pointer EXCEPT ![Dying(t)] = NoPointer]
      /\ IF refCount[pointer[Dying(t)].mpRefCount] = 1
           THEN Lock(t, Dying(t)) /\ Go(t, "delete") /\ held' = [held EXCEPT ![t] = pointer[Dying(t)]]
           ELSE Return(t) /\ UNCHANGED <<mMutex, held>>
  BY DEF Decrement
<1>1. PICK d \in {t, Temp(t)} : /\ d = Dying(t) /\ Exists(d)
                                /\ call[t].name = "destroy" => d = t
                                /\ call[t].name # "destroy" => d = Temp(t) /\ call[t].name \in {"assign", "reset"}
  BY <1>0 DEF SharedInv, CallIsRight, Dying, Swapping
<1>2. d \in Pointers /\ d \notin SharedPtrs
  BY NamesDiffer
<1>3. /\ pointer \in [Pointers -> [mpValue : Counts \cup {Null}, mpRefCount : Counts \cup {0}]]
      /\ refCount \in [Counts -> Nat] /\ values \subseteq Counts
      /\ held \in [Sharers -> [mpValue : Counts \cup {Null}, mpRefCount : Counts \cup {0}]]
  BY DEF SharedInv, SharedTypes
<1>4. PICK n \in Counts : n = pointer[d].mpRefCount
  BY <1>1, <1>2, <1>3 DEF Exists
<1>5. pointer'[d] = NoPointer /\ \A q \in Pointers : q # d => pointer'[q] = pointer[q]
  BY <1>0, <1>1, <1>2, <1>3
<1>6. refCount'[n] = refCount[n] - 1 /\ \A m \in Counts : m # n => refCount'[m] = refCount[m]
  BY <1>0, <1>1, <1>3, <1>4
<1>7. /\ Having(n)' = Having(n) \ {d} /\ d \in Having(n)
      /\ \A m \in Counts : m # n => Having(m)' = Having(m)
      /\ \A m \in Counts : refCount'[m] = Cardinality(Having(m)')
      /\ refCount'[n] \in Nat
      /\ refCount[n] = 1 <=> Having(n)' = {}
  BY <1>1, <1>2, <1>4, <1>5, <1>6, TakesCount
<1>8. /\ pointer' \in [Pointers -> [mpValue : Counts \cup {Null}, mpRefCount : Counts \cup {0}]]
      /\ refCount' \in [Counts -> Nat]
  <2>1. pointer' \in [Pointers -> [mpValue : Counts \cup {Null}, mpRefCount : Counts \cup {0}]]
    BY <1>0, <1>3 DEF NoPointer
  <2>2. refCount' = [refCount EXCEPT ![n] = refCount[n] - 1]
    BY <1>0, <1>1, <1>4
  <2>3. refCount[n] - 1 \in Nat
    BY <1>3, <1>6, <1>7
  <2>4. refCount' \in [Counts -> Nat]
    BY <1>3, <2>2, <2>3
  <2> QED
    BY <2>1, <2>4
<1> DEFINE step == IF refCount[n] = 1 THEN "delete" ELSE "idle"
<1>b. {"delete", "idle"} \subseteq Steps
  BY DEF Steps
<1>9. /\ Moves(t, step) /\ at'[t] = step /\ sole' = sole /\ call' \in [Sharers -> Calls]
      /\ call'[t] = IF refCount[n] = 1 THEN call[t] ELSE NoCall(t)
      /\ refCount[n] = 1 => Dying(t)' = d /\ Lock(t, d) /\ held'[t] = pointer[d]
      /\ refCount[n] # 1 => mMutex' = mMutex
      /\ held' \in [Sharers -> [mpValue : Counts \cup {Null}, mpRefCount : Counts \cup {0}]]
  <2>1. CASE refCount[n] = 1
    <3>1. Lock(t, d) /\ Go(t, "delete") /\ held' = [held EXCEPT ![t] = pointer[d]]
      BY <1>0, <1>1, <1>4, <2>1
    <3>2. \E h : held' = [held EXCEPT ![t] = h]
      BY <3>1
    <3>3. /\ Moves(t, "delete") /\ at'[t] = "delete" /\ call'[t] = call[t] /\ call' = call /\ sole' = sole
          /\ Dying(t)' = Dying(t)
      BY <1>b, <3>1, <3>2, GoMoves
    <3>4. held'[t] = pointer[d] /\ held' \in [Sharers -> [mpValue : Counts \cup {Null}, mpRefCount : Counts \cup {0}]]
      BY <1>2, <1>3, <3>1
    <3> QED
      BY <1>1, <2>1, <3>1, <3>3, <3>4 DEF SharedInv, SharedTypes
  <2>2. CASE refCount[n] # 1
    <3>1. Return(t) /\ UNCHANGED <<mMutex, held>>
      BY <1>0, <1>1, <1>4, <2>2
    <3> QED
      BY <1>3, <2>2, <3>1, ReturnMoves
  <2> QED
    BY <2>1, <2>2
<1>10. OthersAreLeft(t) /\ at' \in [Sharers -> Steps]
  <2>1. at' \in [Sharers -> Steps]
    BY <1>9, <1>b DEF Moves, SharedInv, SharedTypes
  <2> QED
    BY <1>2, <1>5, <1>9, <2>1, NamesDiffer DEF OthersAreLeft, Moves, SharedInv, SharedTypes
<1>11. PairsAreRight'
  <2>1. \A q \in Pointers : \/ pointer'[q] = pointer[q]
                            \/ pointer'[q].mpValue = IF pointer'[q].mpRefCount \in values' THEN pointer'[q].mpRefCount ELSE Null
    BY <1>5 DEF NoPointer, Null
  <2> QED
    BY <1>0, <1>9, <1>10, <2>1, PairsStayRight
<1>12. \A u \in Sharers : u # t => \A m : Deleting(u, m)' <=> Deleting(u, m)
  BY <1>10 DEF OthersAreLeft, Deleting
<1>13. \A m : ~Deleting(t, m)
  BY <1>0 DEF Deleting
<1>14. CountsAreRight'
  <2>1. ASSUME NEW m \in values' PROVE Having(m)' # {} \/ \E u \in Sharers : Deleting(u, m)'
    <3>1. CASE m = n /\ refCount[n] = 1
      <4>1. Deleting(t, n)'
        BY <1>4, <1>9, <3>1 DEF Deleting
      <4> QED
        BY <3>1, <4>1
    <3>2. CASE m = n /\ refCount[n] # 1
      BY <1>7, <3>2
    <3>3. CASE m # n
      <4>1. m \in values /\ m \in Counts
        BY <1>0, <1>3, <2>1
      <4>2. Having(m) # {} \/ \E u \in Sharers : Deleting(u, m)
        BY <4>1 DEF SharedInv, CountsAreRight
      <4>3. (\E u \in Sharers : Deleting(u, m)) => \E u \in Sharers : Deleting(u, m)'
        BY <1>12, <1>13
      <4>4. Having(m)' = Having(m)
        BY <1>7, <3>3, <4>1
      <4> QED
        BY <4>2, <4>3, <4>4
    <3> QED
      BY <3>1, <3>2, <3>3
  <2> QED
    BY <1>7, <2>1 DEF CountsAreRight
<1>15. ASSUME NEW m \in Counts, NEW u \in Sharers, u # t, Deleting(u, m)
       PROVE  m # n /\ Having(m)' = {}
  BY <1>7, <1>15 DEF SharedInv, DeletersAreRight, Deleting
<1>16. pointer[d].mpValue = IF n \in values THEN n ELSE Null
  BY <1>0, <1>1, <1>2, <1>4, PairIs DEF ValueOf
<1>17. DeletersAreRight'
  <2>1. CASE refCount[n] # 1
    <3>1. \A m \in Counts : (\E u \in Sharers : u # t /\ Deleting(u, m)) =>
              Having(m)' = {} /\ (m \in values <=> m \in values')
      BY <1>0, <1>15
    <3> QED
      BY <1>9, <1>10, <2>1, <3>1, DeletersStayRight
  <2>2. CASE refCount[n] = 1
    <3>1. held'[t] = pointer[d] /\ Having(n)' = {}
      BY <1>7, <1>9, <2>2
    <3>2. \A u \in Sharers : u # t => held'[u] = held[u] /\ at'[u] = at[u]
      BY <1>10 DEF OthersAreLeft
    <3>3. ASSUME NEW u \in Sharers, at'[u] = "delete"
          PROVE  \E m \in Counts : /\ m = held'[u].mpRefCount /\ Having(m)' = {}
                                   /\ held'[u].mpValue = IF m \in values' THEN m ELSE Null
                                   /\ u # t => m # n
      <4>1. CASE u = t
        BY <1>0, <1>4, <1>16, <3>1, <4>1
      <4>2. CASE u # t
        <5>1. at[u] = "delete" /\ held'[u] = held[u]
          BY <3>2, <3>3, <4>2
        <5>2. PICK m \in Counts : m = held[u].mpRefCount
          BY <5>1 DEF SharedInv, DeletersAreRight
        <5>3. Deleting(u, m) /\ held[u].mpValue = IF m \in values THEN m ELSE Null
          BY <5>1, <5>2 DEF SharedInv, DeletersAreRight, Deleting, ValueOf
        <5> QED
          BY <1>0, <1>15, <4>2, <5>1, <5>2, <5>3
      <4> QED
        BY <4>1, <4>2
    <3>4. \A u \in Sharers : at'[u] = "delete" =>
            /\ held'[u].mpRefCount \in Counts /\ Having(held[u].mpRefCount)' = {}
            /\ held'[u].mpValue = ValueOf(held[u].mpRefCount)'
      <4> SUFFICES ASSUME NEW u \in Sharers, at'[u] = "delete"
                   PROVE  /\ held'[u].mpRefCount \in Counts /\ Having(held[u].mpRefCount)' = {}
                          /\ held'[u].mpValue = ValueOf(held[u].mpRefCount)'
        OBVIOUS
      <4>1. PICK m \in Counts : /\ m = held'[u].mpRefCount /\ Having(m)' = {}
                                /\ held'[u].mpValue = IF m \in values' THEN m ELSE Null
        BY <3>3
      <4> QED
        BY <4>1 DEF Having, ValueOf
    <3>5. ASSUME NEW u \in Sharers, NEW w \in Sharers, at'[u] = "delete", at'[w] = "delete", u # w
          PROVE  held'[u].mpRefCount # held'[w].mpRefCount
      <4>1. held'[t].mpRefCount = n
        BY <1>4, <3>1
      <4>2. CASE u # t /\ w # t
        BY <3>2, <3>5, <4>2 DEF SharedInv, DeletersAreRight
      <4>3. CASE u = t
        BY <3>3, <3>5, <4>1, <4>3
      <4>4. CASE w = t
        BY <3>3, <3>5, <4>1, <4>4
      <4> QED
        BY <4>2, <4>3, <4>4
    <3> QED
      BY <3>4, <3>5 DEF DeletersAreRight
  <2> QED
    BY <2>1, <2>2
<1>18. SolesAreRight'
  <2> SUFFICES ASSUME NEW u \in Sharers, sole'[u]
               PROVE  /\ at'[u] = "idle" /\ pointer'[u].mpRefCount # 0
                      /\ \A q \in Pointers \ {u} : pointer'[q].mpRefCount # pointer'[u].mpRefCount
    BY DEF SolesAreRight, Exists
  <2>1. ~sole'[t]
    BY <1>0, <1>9, NotSole
  <2>2. u # t /\ sole[u] /\ u \in Pointers /\ u # d
    BY <1>9, <2>1, NamesDiffer
  <2>3. at'[u] = "idle" /\ pointer'[u] = pointer[u] /\ Exists(u)
    BY <1>5, <1>10, <2>2 DEF SharedInv, SolesAreRight, OthersAreLeft
  <2>4. \A q \in Pointers \ {u} : pointer'[q].mpRefCount # pointer'[u].mpRefCount
    BY <1>5, <2>2, <2>3 DEF SharedInv, SolesAreRight, Exists, NoPointer
  <2> QED
    BY <2>3, <2>4 DEF Exists
<1>19. LocksAreRight' /\ mMutex' \in [Pointers -> [owner : Sharers \cup {"none"}, count : 0 .. 2]]
  <2>1. Locks(t) = {}
    BY <1>0 DEF Locks, Copying, BothLocked
  <2>2. CASE refCount[n] = 1
    <3>1. Locks(t)' = {d} /\ Depth(t)' = 1 /\ Lock(t, d)
      BY <1>9, <2>2 DEF Locks, Depth, Copying, BothLocked
    <3> QED
      BY <1>2, <1>10, <2>1, <3>1, LocksLocked
  <2>3. CASE refCount[n] # 1
    <3>1. Locks(t)' = {} /\ mMutex' = mMutex
      BY <1>9, <2>3 DEF Locks, Copying, BothLocked
    <3> QED
      BY <1>10, <2>1, <3>1, LocksUnchanged DEF SharedInv, SharedTypes
  <2> QED
    BY <2>2, <2>3
<1>20. SharedTypes'
  BY <1>0, <1>3, <1>8, <1>9, <1>10, <1>19 DEF SharedInv, SharedTypes
<1>21. CallIsRight(t)' /\ CopyIsRight(t)'
  <2>1. CopyIsRight(t)'
    BY <1>9 DEF CopyIsRight
  <2>2. ~Exists(Temp(t))' /\ \A q \in Usable(t) : q # d => (Exists(q)' <=> Exists(q))
    <3>1. d # Temp(t) => ~Exists(Temp(t))
      BY <1>0, <1>1, NamesDiffer DEF SharedInv, CallIsRight
    <3> QED
      BY <1>5, <3>1, NamesDiffer DEF Exists, NoPointer
  <2>3. CASE refCount[n] # 1
    BY <1>9, <2>1, <2>2, <2>3 DEF SharedInv, CallIsRight, Usable, NoCall, Copying, Swapping
  <2>4. CASE refCount[n] = 1
    <3>1. /\ at'[t] = "delete" /\ call'[t] = call[t] /\ call[t].name \in {"destroy", "assign", "reset"}
          /\ {call[t].this, call[t].other} \subseteq Usable(t)
          /\ call[t].name \in {"assign", "reset"} => Exists(call[t].this)
          /\ call[t].name = "assign" => Exists(call[t].other)
          /\ call[t].name = "destroy" => call[t].this = t
      BY <1>0, <1>9, <2>4 DEF SharedInv, CallIsRight
    <3>2. call[t].name # "destroy" => d \notin Usable(t)
      BY <1>1, NamesDiffer
    <3>3. /\ call[t].name \in {"assign", "reset"} => Exists(call[t].this)'
          /\ call[t].name = "assign" => Exists(call[t].other)'
      BY <2>2, <3>1, <3>2 DEF Exists
    <3> QED
      BY <2>1, <2>2, <3>1, <3>3 DEF CallIsRight, Usable, Copying, Swapping
  <2> QED
    BY <2>3, <2>4
<1> QED
  BY <1>10, <1>11, <1>14, <1>17, <1>18, <1>19, <1>20, <1>21, LoudStep
\* A swap exchanges the values, then the counts, of two pointers that it has locked.
LEMMA SwapIs ==
    ASSUME SharedInv, NEW t \in Sharers, at[t] \in {"swapValue", "swapCount"}
    PROVE  /\ {First(t), Second(t)} \subseteq Pointers /\ Exists(First(t)) /\ Exists(Second(t))
           /\ {First(t), Second(t)} \subseteq SharedPtrs \cup {t, Temp(t)}
           /\ Locks(t) = {First(t), Second(t)}
           /\ call[t].name \in {"swap", "assign", "reset"}
<1>1. call[t].name \in {"swap", "assign", "reset"} /\ at[t] \in Swapping
  BY DEF SharedInv, CallIsRight, Swapping
<1>2. Exists(First(t)) /\ Exists(Second(t))
  BY <1>1 DEF SharedInv, CallIsRight, First, Second
<1>3. Locks(t) = {First(t), Second(t)}
  BY DEF Locks, Copying, BothLocked
<1> QED
  BY <1>1, <1>2, <1>3, LocksAre

LEMMA SwapValueKeeps ==
    ASSUME SharedInv, NEW t \in Sharers, SwapValue(t)
    PROVE  SharedInv'
<1>0. /\ at[t] = "swapValue" /\ Go(t, "swapCount") /\ UNCHANGED <<refCount, values, mMutex, held>>
      /\ pointer' = [pointer EXCEPT ![First(t)].mpValue = pointer[Second(t)].mpValue,
                                    ![Second(t)].mpValue = pointer[First(t)].mpValue]
  BY DEF SwapValue
<1>1. PICK a \in Pointers, b \in Pointers :
         /\ a = First(t) /\ b = Second(t) /\ Exists(a) /\ Exists(b)
         /\ {a, b} \subseteq SharedPtrs \cup {t, Temp(t)} /\ Locks(t) = {a, b}
         /\ call[t].name \in {"swap", "assign", "reset"}
  BY <1>0, SwapIs
<1>2. pointer \in [Pointers -> [mpValue : Counts \cup {Null}, mpRefCount : Counts \cup {0}]]
  BY DEF SharedInv, SharedTypes
<1>3. /\ \A p \in Pointers : p \notin {a, b} => pointer'[p] = pointer[p]
      /\ pointer'[a].mpValue = pointer[b].mpValue /\ pointer'[b].mpValue = pointer[a].mpValue
      /\ \A p \in Pointers : pointer'[p].mpRefCount = pointer[p].mpRefCount
      /\ pointer' \in [Pointers -> [mpValue : Counts \cup {Null}, mpRefCount : Counts \cup {0}]]
  <2>1. pointer' = [pointer EXCEPT ![a].mpValue = pointer[b].mpValue, ![b].mpValue = pointer[a].mpValue]
    BY <1>0, <1>1
  <2>2. \A p \in Pointers : p \notin {a, b} => pointer'[p] = pointer[p]
    BY <1>2, <2>1
  <2>3. /\ pointer'[a] = [pointer[a] EXCEPT !.mpValue = pointer[b].mpValue]
        /\ pointer'[b] = [pointer[b] EXCEPT !.mpValue = pointer[a].mpValue]
    <3>1. CASE a = b
      BY <1>2, <2>1, <3>1
    <3>2. CASE a # b
      BY <1>2, <2>1, <3>2
    <3> QED
      BY <3>1, <3>2
  <2>4. /\ pointer[a] \in [mpValue : Counts \cup {Null}, mpRefCount : Counts \cup {0}]
        /\ pointer[b] \in [mpValue : Counts \cup {Null}, mpRefCount : Counts \cup {0}]
    BY <1>2
  <2>5. /\ pointer'[a].mpValue = pointer[b].mpValue /\ pointer'[a].mpRefCount = pointer[a].mpRefCount
        /\ pointer'[b].mpValue = pointer[a].mpValue /\ pointer'[b].mpRefCount = pointer[b].mpRefCount
        /\ pointer'[a] \in [mpValue : Counts \cup {Null}, mpRefCount : Counts \cup {0}]
        /\ pointer'[b] \in [mpValue : Counts \cup {Null}, mpRefCount : Counts \cup {0}]
    BY <2>3, <2>4
  <2>6. \A p \in Pointers : pointer'[p].mpRefCount = pointer[p].mpRefCount
    BY <2>2, <2>5
  <2>7. DOMAIN pointer' = Pointers /\ pointer' = [p \in Pointers |-> pointer'[p]]
    BY <1>2, <2>1
  <2>8. \A p \in Pointers : pointer'[p] \in [mpValue : Counts \cup {Null}, mpRefCount : Counts \cup {0}]
    BY <1>2, <2>2, <2>5
  <2> QED
    BY <2>2, <2>5, <2>6, <2>7, <2>8
<1>4. /\ Moves(t, "swapCount") /\ at'[t] = "swapCount" /\ call'[t] = call[t] /\ call' = call /\ sole' = sole
      /\ First(t)' = a /\ Second(t)' = b
  BY <1>0, <1>1, GoMoves DEF Steps
<1>5. at' \in [Sharers -> Steps] /\ OthersAreLeft(t)
  <2>1. at' \in [Sharers -> Steps]
    BY <1>4 DEF Moves, Steps, SharedInv, SharedTypes
  <2>2. SharedPtrs \subseteq Pointers
    BY NamesDiffer
  <2> QED
    BY <1>0, <1>1, <1>3, <1>4, <2>1, <2>2 DEF OthersAreLeft, Moves, SharedInv, SharedTypes
<1>6. \A m : Having(m)' = Having(m)
  BY <1>3 DEF Having
<1>7. \A u \in Sharers : \A m : Deleting(u, m)' <=> Deleting(u, m)
  BY <1>0, <1>4, <1>5 DEF Deleting, OthersAreLeft
<1>8. CountsAreRight'
  BY <1>0, <1>6, <1>7 DEF SharedInv, CountsAreRight
<1>9. DeletersAreRight'
  <2>1. \A m \in Counts : (\E u \in Sharers : u # t /\ Deleting(u, m)) =>
              Having(m)' = {} /\ (m \in values <=> m \in values')
    BY <1>0, <1>6 DEF SharedInv, DeletersAreRight, Deleting
  <2> QED
    BY <1>4, <1>5, <2>1, DeletersStayRight
<1>10. SolesAreRight'
  <2>1. ~sole'[t]
    BY <1>0, <1>4, NotSole
  <2>2. \A u \in Sharers : sole'[u] => sole[u] /\ u # t /\ at'[u] = at[u] /\ u \in Pointers
    BY <1>5, <2>1, NamesDiffer DEF OthersAreLeft
  <2> QED
    BY <1>3, <2>2 DEF SharedInv, SolesAreRight, Exists
<1>11. \A q \in {a, b} : pointer[q].mpValue = IF pointer[q].mpRefCount \in values THEN pointer[q].mpRefCount ELSE Null
  BY <1>0, <1>1, PairIs DEF ValueOf
<1>12. PairsAreRight'
  <2>1. \A u \in Sharers : u # t => HalfSwapped(u)' = HalfSwapped(u)
    BY <1>5, OthersStayRight DEF OthersAreLeft
  <2>2. HalfSwapped(t)' = {a, b} /\ HalfSwapped(t) = {}
    BY <1>0, <1>4 DEF HalfSwapped
  <2>3. ASSUME NEW p \in Pointers, \A u \in Sharers : p \notin HalfSwapped(u)'
        PROVE  pointer'[p].mpValue = ValueOf(pointer[p].mpRefCount)'
    <3>1. p \notin {a, b} /\ \A u \in Sharers : p \notin HalfSwapped(u)
      BY <2>1, <2>2, <2>3
    <3> QED
      BY <1>0, <1>3, <3>1 DEF SharedInv, PairsAreRight, ValueOf
  <2>4. ASSUME NEW u \in Sharers, at'[u] = "swapCount"
        PROVE  /\ pointer'[First(u)'].mpValue = ValueOf(pointer[Second(u)].mpRefCount)'
               /\ pointer'[Second(u)'].mpValue = ValueOf(pointer[First(u)].mpRefCount)'
    <3>1. CASE u = t
      BY <1>0, <1>3, <1>4, <1>11, <3>1 DEF ValueOf
    <3>2. CASE u # t
      <4>1. at[u] = "swapCount" /\ First(u)' = First(u) /\ Second(u)' = Second(u)
        BY <1>5, <2>4, <3>2 DEF OthersAreLeft, First, Second
      <4>2. First(u) \in Locks(u) /\ Second(u) \in Locks(u)
        BY <4>1 DEF Locks, Copying, BothLocked
      <4>3. pointer'[First(u)] = pointer[First(u)] /\ pointer'[Second(u)] = pointer[Second(u)]
        BY <1>5, <3>2, <4>2, OthersStayRight DEF OthersAreLeft
      <4>4. /\ pointer[First(u)].mpValue = ValueOf(pointer[Second(u)].mpRefCount)
            /\ pointer[Second(u)].mpValue = ValueOf(pointer[First(u)].mpRefCount)
        BY <4>1 DEF SharedInv, PairsAreRight
      <4>5. values' = values
        BY <1>0
      <4>6. /\ pointer'[First(u)].mpValue = ValueOf(pointer'[Second(u)].mpRefCount)
            /\ pointer'[Second(u)].mpValue = ValueOf(pointer'[First(u)].mpRefCount)
        BY <4>3, <4>4
      <4> QED
        BY <4>1, <4>5, <4>6 DEF ValueOf
    <3> QED
      BY <3>1, <3>2
  <2> QED
    BY <2>3, <2>4 DEF PairsAreRight
<1>13. LocksAreRight'
  <2>1. Locks(t)' = Locks(t) /\ Depth(t)' = Depth(t)
    BY <1>0, <1>1, <1>4 DEF Locks, Depth, Copying, BothLocked
  <2> QED
    BY <1>0, <1>5, <2>1, LocksUnchanged
<1>14. SharedTypes'
  BY <1>0, <1>3, <1>4, <1>5 DEF SharedInv, SharedTypes
<1>15. CallIsRight(t)' /\ CopyIsRight(t)'
  <2>1. CopyIsRight(t)'
    BY <1>4 DEF CopyIsRight
  <2>2. \A q \in Pointers : Exists(q)' <=> Exists(q)
    BY <1>3 DEF Exists
  <2>3. Temp(t) \in Pointers /\ Usable(t) \subseteq Pointers
    BY NamesDiffer
  <2> QED
    BY <1>0, <1>4, <2>1, <2>2, <2>3 DEF SharedInv, CallIsRight, Usable, Copying, Swapping
<1> QED
  BY <1>5, <1>8, <1>9, <1>10, <1>12, <1>13, <1>14, <1>15, LoudStep

\* As many pointers have a count after two of them have exchanged theirs.
LEMMA SameNumber ==
    ASSUME NEW H \in SUBSET Pointers, NEW G \in SUBSET Pointers, NEW a \in Pointers, NEW b \in Pointers,
           \A p \in Pointers : p \notin {a, b} => (p \in G <=> p \in H),
           a \in G <=> b \in H, b \in G <=> a \in H
    PROVE  Cardinality(G) = Cardinality(H) /\ (G = {} <=> H = {})
<1>0. IsFiniteSet(H) /\ IsFiniteSet(G)
  BY PointersAreFinite, FS_Subset
<1>1. CASE a \in H <=> b \in H
  <2>1. G = H
    BY <1>1
  <2> QED
    BY <2>1
<1>2. ASSUME NEW x \in {a, b}, NEW y \in {a, b}, x \in H, y \notin H, x # y
      PROVE  Cardinality(G) = Cardinality(H) /\ (G = {} <=> H = {})
  <2>1. G = (H \ {x}) \cup {y} /\ y \notin H \ {x}
    BY <1>2
  <2>2. IsFiniteSet(H \ {x}) /\ Cardinality(H \ {x}) = Cardinality(H) - 1
    <3>1. IsFiniteSet(H \ {x}) /\ Cardinality(H \ {x}) = IF x \in H THEN Cardinality(H) - 1 ELSE Cardinality(H)
      BY <1>0, FS_RemoveElement
    <3> QED
      BY <1>2, <3>1
  <2>3. Cardinality((H \ {x}) \cup {y}) = Cardinality(H \ {x}) + 1
    BY <2>1, <2>2, FS_AddElement
  <2>4. Cardinality(H) \in Nat
    BY <1>0, FS_CardinalityType
  <2> QED
    BY <1>2, <2>1, <2>2, <2>3, <2>4
<1> QED
  BY <1>1, <1>2

LEMMA SwapCountKeeps ==
    ASSUME SharedInv, NEW t \in Sharers, SwapCount(t)
    PROVE  SharedInv'
<1>0. /\ at[t] = "swapCount" /\ Go(t, "swapUnlock") /\ UNCHANGED <<refCount, values, mMutex, held>>
      /\ pointer' = [pointer EXCEPT ![First(t)].mpRefCount = pointer[Second(t)].mpRefCount,
                                    ![Second(t)].mpRefCount = pointer[First(t)].mpRefCount]
  BY DEF SwapCount
<1>1. PICK a \in Pointers, b \in Pointers :
         /\ a = First(t) /\ b = Second(t) /\ Exists(a) /\ Exists(b)
         /\ {a, b} \subseteq SharedPtrs \cup {t, Temp(t)} /\ Locks(t) = {a, b}
         /\ call[t].name \in {"swap", "assign", "reset"}
  BY <1>0, SwapIs
<1>2. pointer \in [Pointers -> [mpValue : Counts \cup {Null}, mpRefCount : Counts \cup {0}]]
  BY DEF SharedInv, SharedTypes
<1>3. /\ \A p \in Pointers : p \notin {a, b} => pointer'[p] = pointer[p]
      /\ pointer'[a].mpRefCount = pointer[b].mpRefCount /\ pointer'[b].mpRefCount = pointer[a].mpRefCount
      /\ \A p \in Pointers : pointer'[p].mpValue = pointer[p].mpValue
      /\ pointer' \in [Pointers -> [mpValue : Counts \cup {Null}, mpRefCount : Counts \cup {0}]]
  <2>1. pointer' = [pointer EXCEPT ![a].mpRefCount = pointer[b].mpRefCount, ![b].mpRefCount = pointer[a].mpRefCount]
    BY <1>0, <1>1
  <2>2. \A p \in Pointers : p \notin {a, b} => pointer'[p] = pointer[p]
    BY <1>2, <2>1
  <2>3. /\ pointer'[a] = [pointer[a] EXCEPT !.mpRefCount = pointer[b].mpRefCount]
        /\ pointer'[b] = [pointer[b] EXCEPT !.mpRefCount = pointer[a].mpRefCount]
    <3>1. CASE a = b
      BY <1>2, <2>1, <3>1
    <3>2. CASE a # b
      BY <1>2, <2>1, <3>2
    <3> QED
      BY <3>1, <3>2
  <2>4. /\ pointer[a] \in [mpValue : Counts \cup {Null}, mpRefCount : Counts \cup {0}]
        /\ pointer[b] \in [mpValue : Counts \cup {Null}, mpRefCount : Counts \cup {0}]
    BY <1>2
  <2>5. /\ pointer'[a].mpRefCount = pointer[b].mpRefCount /\ pointer'[a].mpValue = pointer[a].mpValue
        /\ pointer'[b].mpRefCount = pointer[a].mpRefCount /\ pointer'[b].mpValue = pointer[b].mpValue
        /\ pointer'[a] \in [mpValue : Counts \cup {Null}, mpRefCount : Counts \cup {0}]
        /\ pointer'[b] \in [mpValue : Counts \cup {Null}, mpRefCount : Counts \cup {0}]
    BY <2>3, <2>4
  <2>6. \A p \in Pointers : pointer'[p].mpValue = pointer[p].mpValue
    BY <2>2, <2>5
  <2>7. DOMAIN pointer' = Pointers /\ pointer' = [p \in Pointers |-> pointer'[p]]
    BY <1>2, <2>1
  <2>8. \A p \in Pointers : pointer'[p] \in [mpValue : Counts \cup {Null}, mpRefCount : Counts \cup {0}]
    BY <1>2, <2>2, <2>5
  <2> QED
    BY <2>2, <2>5, <2>6, <2>7, <2>8
<1>4. /\ Moves(t, "swapUnlock") /\ at'[t] = "swapUnlock" /\ call'[t] = call[t] /\ call' = call /\ sole' = sole
      /\ First(t)' = a /\ Second(t)' = b
  BY <1>0, <1>1, GoMoves DEF Steps
<1>5. \A q \in Pointers : pointer'[q].mpRefCount = 0 <=> pointer[q].mpRefCount = 0
  <2>1. pointer[a].mpRefCount # 0 /\ pointer[b].mpRefCount # 0
    BY <1>1 DEF Exists
  <2> QED
    BY <1>3, <2>1
<1>6. at' \in [Sharers -> Steps] /\ OthersAreLeft(t)
  <2>1. at' \in [Sharers -> Steps]
    BY <1>4 DEF Moves, Steps, SharedInv, SharedTypes
  <2>2. SharedPtrs \subseteq Pointers
    BY NamesDiffer
  <2> QED
    BY <1>0, <1>1, <1>3, <1>4, <1>5, <2>1, <2>2 DEF OthersAreLeft, Moves, SharedInv, SharedTypes
<1>7. ASSUME NEW m \in Counts
      PROVE  Cardinality(Having(m)') = Cardinality(Having(m)) /\ (Having(m)' = {} <=> Having(m) = {})
  <2>1. Having(m) \in SUBSET Pointers /\ Having(m)' \in SUBSET Pointers
    BY DEF Having
  <2>2. /\ \A p \in Pointers : p \notin {a, b} => (p \in Having(m)' <=> p \in Having(m))
        /\ a \in Having(m)' <=> b \in Having(m)
        /\ b \in Having(m)' <=> a \in Having(m)
    BY <1>3 DEF Having
  <2> QED
    BY <2>1, <2>2, SameNumber
<1>8. \A u \in Sharers : \A m : Deleting(u, m)' <=> Deleting(u, m)
  BY <1>0, <1>4, <1>6 DEF Deleting, OthersAreLeft
<1>9. CountsAreRight'
  <2>1. \A m \in values : m \in Counts
    BY DEF SharedInv, SharedTypes
  <2>2. ASSUME NEW m \in Counts PROVE refCount'[m] = Cardinality(Having(m)')
    BY <1>0, <1>7, HavingIs
  <2>3. ASSUME NEW m \in values' PROVE Having(m)' # {} \/ \E u \in Sharers : Deleting(u, m)'
    BY <1>0, <1>7, <1>8, <2>1 DEF SharedInv, CountsAreRight
  <2> QED
    BY <2>2, <2>3 DEF CountsAreRight
<1>10. DeletersAreRight'
  <2>1. \A m \in Counts : (\E u \in Sharers : u # t /\ Deleting(u, m)) =>
              Having(m)' = {} /\ (m \in values <=> m \in values')
    BY <1>0, <1>7 DEF SharedInv, DeletersAreRight, Deleting
  <2> QED
    BY <1>4, <1>6, <2>1, DeletersStayRight
<1>11. SolesAreRight'
  <2> SUFFICES ASSUME NEW u \in Sharers, sole'[u]
               PROVE  /\ at'[u] = "idle" /\ pointer'[u].mpRefCount # 0
                      /\ \A q \in Pointers \ {u} : pointer'[q].mpRefCount # pointer'[u].mpRefCount
    BY DEF SolesAreRight, Exists
  <2>1. ~sole'[t]
    BY <1>0, <1>4, NotSole
  <2>2. u # t /\ sole[u] /\ u \in Pointers
    BY <1>4, <2>1, NamesDiffer
  <2>3. u \notin {a, b}
    BY <1>1, <2>2, NamesDiffer
  <2>4. at'[u] = "idle" /\ pointer'[u] = pointer[u] /\ pointer[u].mpRefCount # 0
    BY <1>3, <1>6, <2>2, <2>3 DEF SharedInv, SolesAreRight, OthersAreLeft, Exists
  <2>5. \A q \in Pointers \ {u} : pointer[q].mpRefCount # pointer[u].mpRefCount
    BY <2>2 DEF SharedInv, SolesAreRight
  <2>6. \A q \in Pointers \ {u} : pointer'[q].mpRefCount # pointer'[u].mpRefCount
    BY <1>3, <2>3, <2>4, <2>5
  <2> QED
    BY <2>4, <2>6
<1>12. PairsAreRight'
  <2>1. \A u \in Sharers : u # t => HalfSwapped(u)' = HalfSwapped(u)
    BY <1>6, OthersStayRight DEF OthersAreLeft
  <2>2. HalfSwapped(t) = {a, b}
    BY <1>0, <1>1 DEF HalfSwapped
  <2>3. ASSUME NEW p \in Pointers, \A u \in Sharers : p \notin HalfSwapped(u)'
        PROVE  pointer'[p].mpValue = ValueOf(pointer[p].mpRefCount)'
    <3>1. CASE p \in {a, b}
      <4>1. /\ pointer[a].mpValue = ValueOf(pointer[b].mpRefCount)
            /\ pointer[b].mpValue = ValueOf(pointer[a].mpRefCount)
        BY <1>0, <1>1 DEF SharedInv, PairsAreRight
      <4> QED
        BY <1>0, <1>3, <3>1, <4>1 DEF ValueOf
    <3>2. CASE p \notin {a, b}
      <4>1. \A u \in Sharers : p \notin HalfSwapped(u)
        BY <2>1, <2>2, <2>3, <3>2
      <4> QED
        BY <1>0, <1>3, <3>2, <4>1 DEF SharedInv, PairsAreRight, ValueOf
    <3> QED
      BY <3>1, <3>2
  <2>4. ASSUME NEW u \in Sharers, at'[u] = "swapCount"
        PROVE  /\ pointer'[First(u)'].mpValue = ValueOf(pointer[Second(u)].mpRefCount)'
               /\ pointer'[Second(u)'].mpValue = ValueOf(pointer[First(u)].mpRefCount)'
    <3>1. u # t
      BY <1>4, <2>4
    <3>2. at[u] = "swapCount" /\ First(u)' = First(u) /\ Second(u)' = Second(u)
      BY <1>6, <2>4, <3>1 DEF OthersAreLeft, First, Second
    <3>3. First(u) \in Locks(u) /\ Second(u) \in Locks(u)
      BY <3>2 DEF Locks, Copying, BothLocked
    <3>4. pointer'[First(u)] = pointer[First(u)] /\ pointer'[Second(u)] = pointer[Second(u)]
      BY <1>6, <3>1, <3>3, OthersStayRight DEF OthersAreLeft
    <3>5. /\ pointer[First(u)].mpValue = ValueOf(pointer[Second(u)].mpRefCount)
          /\ pointer[Second(u)].mpValue = ValueOf(pointer[First(u)].mpRefCount)
      BY <3>2 DEF SharedInv, PairsAreRight
    <3>6. values' = values
      BY <1>0
    <3>7. /\ pointer'[First(u)].mpValue = ValueOf(pointer'[Second(u)].mpRefCount)
          /\ pointer'[Second(u)].mpValue = ValueOf(pointer'[First(u)].mpRefCount)
      BY <3>4, <3>5
    <3> QED
      BY <3>2, <3>6, <3>7 DEF ValueOf
  <2> QED
    BY <2>3, <2>4 DEF PairsAreRight
<1>13. LocksAreRight'
  <2>1. Locks(t)' = Locks(t) /\ Depth(t)' = Depth(t)
    BY <1>0, <1>1, <1>4 DEF Locks, Depth, Copying, BothLocked
  <2> QED
    BY <1>0, <1>6, <2>1, LocksUnchanged
<1>14. SharedTypes'
  BY <1>0, <1>3, <1>4, <1>6 DEF SharedInv, SharedTypes
<1>15. CallIsRight(t)' /\ CopyIsRight(t)'
  <2>1. CopyIsRight(t)'
    BY <1>4 DEF CopyIsRight
  <2>2. \A q \in Pointers : Exists(q)' <=> Exists(q)
    BY <1>5 DEF Exists
  <2>3. Temp(t) \in Pointers /\ Usable(t) \subseteq Pointers
    BY NamesDiffer
  <2> QED
    BY <1>0, <1>4, <2>1, <2>2, <2>3 DEF SharedInv, CallIsRight, Usable, Copying, Swapping
<1> QED
  BY <1>6, <1>9, <1>10, <1>11, <1>12, <1>13, <1>14, <1>15, LoudStep
-----------------------------------------------------------------------------
\* Every step of the shared pointers keeps the invariant.
LEMMA SharedGoesOn == SharedInv /\ (SharedNext \/ UNCHANGED sharedVars) => SharedInv'
<1> SUFFICES ASSUME SharedInv, SharedNext \/ UNCHANGED sharedVars PROVE SharedInv'
  OBVIOUS
<1>1. CASE UNCHANGED sharedVars
  <2>1. UNCHANGED <<pointer, refCount, values, mMutex, call, at, held, sole>>
    BY <1>1 DEF sharedVars
  <2>2. SharedTypes' /\ LocksAreRight'
    BY <2>1 DEF SharedInv, SharedTypes, LocksAreRight, Locks, Depth, Source, First, Second, Dying
  <2>3. PairsAreRight' /\ CountsAreRight'
    BY <2>1 DEF SharedInv, PairsAreRight, CountsAreRight, HalfSwapped, First, Second, ValueOf, Having, Deleting
  <2>4. DeletersAreRight' /\ SolesAreRight'
    BY <2>1 DEF SharedInv, DeletersAreRight, SolesAreRight, Having, ValueOf, Exists
  <2>5. \A t \in Sharers : CallIsRight(t)' /\ CopyIsRight(t)'
    <3>1. \A t \in Sharers : CallIsRight(t) /\ CopyIsRight(t)
      BY DEF SharedInv
    <3>2. \A t \in Sharers : CopyIsRight(t)'
      BY <2>1, <3>1 DEF CopyIsRight, Source
    <3>3. \A t \in Sharers : CallIsRight(t)'
      BY <2>1, <3>1 DEF CallIsRight, Exists, Usable, NoCall
    <3> QED
      BY <3>2, <3>3
  <2> QED
    BY <2>2, <2>3, <2>4, <2>5 DEF SharedInv
<1>2. ASSUME NEW t \in Sharers, SharedStep(t) PROVE SharedInv'
  <2>1. CASE CopyLock(t)
    BY <2>1, CopyLockKeeps
  <2>2. CASE CopyValue(t) \/ CopyCount(t)
    BY <2>2, CopyReadsKeep
  <2>3. CASE Increment(t)
    BY <2>3, IncrementKeeps
  <2>4. CASE Decrement(t)
    BY <2>4, DecrementKeeps
  <2>5. CASE Delete(t)
    BY <2>5, DeleteKeeps
  <2>6. CASE SwapLock(t) \/ SwapLockOther(t)
    BY <2>6, SwapLocksKeep
  <2>7. CASE SwapValue(t)
    BY <2>7, SwapValueKeeps
  <2>8. CASE SwapCount(t)
    BY <2>8, SwapCountKeeps
  <2>9. CASE SwapUnlock(t)
    BY <2>9, SwapUnlockKeeps
  <2>10. CASE Compare(t)
    BY <2>10, CompareKeeps
  <2>11. CASE ConstructTemp(t)
    BY <2>11, ConstructTempKeeps
  <2> QED
    BY <1>2, <2>1, <2>2, <2>3, <2>4, <2>5, <2>6, <2>7, <2>8, <2>9, <2>10, <2>11 DEF SharedStep
<1>3. ASSUME NEW t \in Sharers, SharedChoice(t) PROVE SharedInv'
  <2>1. Usable(t) \subseteq Pointers /\ t \in Usable(t)
    BY NamesDiffer
  <2>2. CASE Construct(t)
    BY <2>2, ConstructKeeps
  <2>3. CASE unique(t)
    BY <2>3, uniqueKeeps
  <2>4. CASE Destroy(t)
    <3>1. Exists(t) /\ Begin(t, "destroy", t, t, "decrement") /\ held' = held
      BY <2>4 DEF Destroy
    <3> QED
      BY <2>1, <3>1, BeginKeeps
  <2>5. ASSUME NEW p \in Usable(t), Copy(t, p) PROVE SharedInv'
    <3>1. /\ ~Exists(t) /\ p # t /\ Exists(p) /\ held' = held
          /\ Begin(t, "copy", t, p, "copyLock")
      BY <2>5 DEF Copy, MayConstruct
    <3> QED
      BY <2>1, <3>1, BeginKeeps
  <2>6. ASSUME NEW p \in Usable(t), Reset(t, p) PROVE SharedInv'
    <3>1. Exists(p) /\ Begin(t, "reset", p, p, "compare") /\ Reads(t, p)
      BY <2>6 DEF Reset
    <3> QED
      BY <2>1, <3>1, BeginKeeps
  <2>7. ASSUME NEW p \in Usable(t), NEW q \in Usable(t), Assign(t, p, q) PROVE SharedInv'
    <3>1. Exists(p) /\ Exists(q) /\ Begin(t, "assign", p, q, "compare") /\ Reads(t, p)
      BY <2>7 DEF Assign
    <3> QED
      BY <2>1, <3>1, BeginKeeps
  <2>8. ASSUME NEW p \in Usable(t), NEW q \in Usable(t), Swap(t, p, q) PROVE SharedInv'
    <3>1. Exists(p) /\ Exists(q) /\ Begin(t, "swap", p, q, "swapLock") /\ held' = held
      BY <2>8 DEF Swap
    <3> QED
      BY <2>1, <3>1, BeginKeeps
  <2> QED
    BY <1>3, <2>2, <2>3, <2>4, <2>5, <2>6, <2>7, <2>8 DEF SharedChoice
<1> QED
  BY <1>1, <1>2, <1>3 DEF SharedNext

\* What the run of the shared pointers checks follows.
LEMMA SharedInvKeeps ==
    SharedInv => SharedTypeOK /\ RefCountsAreExact /\ ValuesLiveWhileShared /\ UniqueIsSole
<1> SUFFICES ASSUME SharedInv
             PROVE  SharedTypeOK /\ RefCountsAreExact /\ ValuesLiveWhileShared /\ UniqueIsSole
  OBVIOUS
<1>1. \A n \in Counts : refCount[n] = Cardinality(Having(n))
  BY DEF SharedInv, CountsAreRight
<1>2. SharedTypeOK
  <2>1. refCount \in [Counts -> Nat]
    BY DEF SharedInv, SharedTypes
  <2>2. \A n \in Counts : Having(n) \subseteq Pointers
    BY DEF Having
  <2>3. \A n \in Counts : Cardinality(Having(n)) <= Cardinality(Pointers)
    BY <2>2, PointersAreFinite, FS_Subset
  <2>4. Cardinality(Pointers) \in Nat
    BY PointersAreFinite, FS_CardinalityType
  <2>5. \A n \in Counts : refCount[n] \in 0 .. Cardinality(Pointers)
    BY <1>1, <2>1, <2>3, <2>4
  <2>6. refCount \in [Counts -> 0 .. Cardinality(Pointers)]
    BY <2>1, <2>5
  <2> QED
    BY <2>6 DEF SharedTypeOK, SharedInv, SharedTypes
<1>3. ASSUME NEW t \in Sharers, at[t] = "increment" PROVE refCount[held[t].mpRefCount] > 0
  <2>1. /\ held[t] = pointer[Source(t)] /\ Source(t) = call[t].other
        /\ call[t].name \in {"copy", "assign"} /\ Exists(call[t].other)
    BY <1>3 DEF SharedInv, CopyIsRight, CallIsRight, Copying, Source
  <2>2. PICK p \in Pointers : p = Source(t)
    BY LocksAre
  <2>3. PICK n : n = pointer[p].mpRefCount
    OBVIOUS
  <2>4. n \in Counts
    BY <2>1, <2>2, <2>3 DEF SharedInv, SharedTypes, Exists
  <2>5. p \in Having(n)
    BY <2>3 DEF Having
  <2>6. refCount[n] = Cardinality(Having(n)) /\ refCount[n] \in Nat
    BY <1>1, <2>4 DEF SharedInv, SharedTypes
  <2>7. IsFiniteSet(Having(n))
    BY PointersAreFinite, FS_Subset DEF Having
  <2>8. Cardinality(Having(n)) # 0
    BY <2>5, <2>7, FS_EmptySet
  <2> QED
    BY <2>1, <2>2, <2>3, <2>6, <2>8
<1>4. RefCountsAreExact
  BY <1>1, <1>3 DEF RefCountsAreExact, Having
<1>5. ValuesLiveWhileShared
  <2> DEFINE V == {pointer[p].mpValue : p \in Pointers}
             D == {held[t].mpValue : t \in {u \in Sharers : at[u] = "delete"}}
  <2>1. ASSUME NEW v \in values PROVE v \in V \cup D /\ v # Null
    <3>1. v \in Counts /\ v # Null /\ (Having(v) # {} \/ \E t \in Sharers : Deleting(t, v))
      BY DEF SharedInv, SharedTypes, CountsAreRight, Counts, Null
    <3>2. ASSUME NEW t \in Sharers, Deleting(t, v) PROVE v \in D
      <4>1. at[t] = "delete" /\ held[t].mpValue = v
        BY <3>2 DEF Deleting, SharedInv, DeletersAreRight, ValueOf
      <4> QED
        BY <4>1
    <3>3. ASSUME NEW p \in Pointers, pointer[p].mpRefCount = v PROVE v \in V
      <4>1. CASE \A t \in Sharers : p \notin HalfSwapped(t)
        <5>1. pointer[p].mpValue = v
          BY <3>3, <4>1 DEF SharedInv, PairsAreRight, ValueOf
        <5> QED
          BY <5>1
      <4>2. ASSUME NEW t \in Sharers, p \in HalfSwapped(t) PROVE v \in V
        <5>1. at[t] = "swapCount" /\ p \in {First(t), Second(t)}
          BY <4>2 DEF HalfSwapped
        <5>2. /\ pointer[First(t)].mpValue = ValueOf(pointer[Second(t)].mpRefCount)
              /\ pointer[Second(t)].mpValue = ValueOf(pointer[First(t)].mpRefCount)
          BY <5>1 DEF SharedInv, PairsAreRight
        <5>3. pointer[First(t)].mpValue = v \/ pointer[Second(t)].mpValue = v
          BY <3>3, <5>1, <5>2 DEF ValueOf
        <5>4. {First(t), Second(t)} \subseteq Pointers
          BY LocksAre
        <5> QED
          BY <5>3, <5>4
      <4> QED
        BY <4>1, <4>2
    <3> QED
      BY <3>1, <3>2, <3>3 DEF Having
  <2>2. ASSUME NEW v \in V \cup D, v # Null PROVE v \in values
    <3>1. ASSUME NEW p \in Pointers, v = pointer[p].mpValue PROVE v \in values
      <4>1. CASE \A t \in Sharers : p \notin HalfSwapped(t)
        BY <2>2, <3>1, <4>1 DEF SharedInv, PairsAreRight, ValueOf
      <4>2. ASSUME NEW t \in Sharers, p \in HalfSwapped(t) PROVE v \in values
        <5>1. at[t] = "swapCount" /\ p \in {First(t), Second(t)}
          BY <4>2 DEF HalfSwapped
        <5> QED
          BY <2>2, <3>1, <5>1 DEF SharedInv, PairsAreRight, ValueOf
      <4> QED
        BY <4>1, <4>2
    <3>2. ASSUME NEW t \in Sharers, at[t] = "delete", v = held[t].mpValue PROVE v \in values
      BY <2>2, <3>2 DEF SharedInv, DeletersAreRight, ValueOf
    <3> QED
      BY <3>1, <3>2
  <2> QED
    BY <2>1, <2>2 DEF ValuesLiveWhileShared
<1>6. UniqueIsSole
  BY DEF UniqueIsSole, SharedInv, SolesAreRight
<1> QED
  BY <1>2, <1>4, <1>5, <1>6

-----------------------------------------------------------------------------
(* The initial states.                                                     *)

LEMMA RestIsRight ==
    ASSUME mMutex = [p \in Pointers |-> Unlocked],
           call = [t \in Sharers |-> NoCall(t)], at = [t \in Sharers |-> "idle"],
           held = [t \in Sharers |-> NoPointer], sole = [t \in Sharers |-> FALSE],
           pointer \in [Pointers -> [mpValue : Counts \cup {Null}, mpRefCount : Counts \cup {0}]],
           refCount \in [Counts -> Nat], values \subseteq Counts,
           \A t \in Sharers : ~Exists(Temp(t)),
           \A p \in Pointers : pointer[p].mpValue = ValueOf(pointer[p].mpRefCount),
           \A n \in Counts : refCount[n] = Cardinality(Having(n)),
           \A n \in values : Having(n) # {}
    PROVE  SharedInv
<1>1. \A t \in Sharers : Locks(t) = {} /\ Depth(t) = 1 /\ HalfSwapped(t) = {}
  BY DEF Locks, Depth, HalfSwapped, Copying, BothLocked
<1>2. LocksAreRight
  BY <1>1 DEF LocksAreRight, Unlocked
<1>3. SharedTypes
  <2>1. \A t \in Sharers : NoCall(t) \in Calls
    BY NamesDiffer DEF NoCall, Calls
  <2>2. Unlocked \in [owner : Sharers \cup {"none"}, count : 0 .. 2]
    BY DEF Unlocked
  <2>3. NoPointer \in [mpValue : Counts \cup {Null}, mpRefCount : Counts \cup {0}]
    BY DEF NoPointer
  <2> QED
    BY <2>1, <2>2, <2>3 DEF SharedTypes, Steps
<1>4. PairsAreRight /\ CountsAreRight /\ DeletersAreRight /\ SolesAreRight
  BY DEF PairsAreRight, CountsAreRight, DeletersAreRight, SolesAreRight
<1>5. ASSUME NEW t \in Sharers PROVE CallIsRight(t) /\ CopyIsRight(t)
  <2>1. call[t] = NoCall(t) /\ call[t].name = "none" /\ call[t].this = t /\ call[t].other = t
    BY DEF NoCall
  <2>2. at[t] = "idle" /\ t \in Usable(t) /\ ~Exists(Temp(t))
    BY NamesDiffer
  <2> QED
    BY <2>1, <2>2 DEF CallIsRight, CopyIsRight, Copying, Swapping
<1> QED
  BY <1>2, <1>3, <1>4, <1>5 DEF SharedInv

LEMMA SharedBegins == SharedInit \/ SharedFresh => SharedInv
<1>1. ASSUME SharedFresh PROVE SharedInv
  <2>1. /\ pointer = [p \in Pointers |-> NoPointer] /\ refCount = [n \in Counts |-> 0] /\ values = {}
        /\ mMutex = [p \in Pointers |-> Unlocked]
        /\ call = [t \in Sharers |-> NoCall(t)] /\ at = [t \in Sharers |-> "idle"]
        /\ held = [t \in Sharers |-> NoPointer] /\ sole = [t \in Sharers |-> FALSE]
    BY <1>1 DEF SharedFresh
  <2>2. NoPointer \in [mpValue : Counts \cup {Null}, mpRefCount : Counts \cup {0}]
    BY DEF NoPointer
  <2>3. \A p \in Pointers : pointer[p].mpRefCount = 0 /\ pointer[p].mpValue = Null
    BY <2>1 DEF NoPointer
  <2>4. ASSUME NEW n \in Counts PROVE refCount[n] = Cardinality(Having(n))
    <3>1. Having(n) = {} /\ refCount[n] = 0
      BY <2>1, <2>3 DEF Having, Counts
    <3> QED
      BY <3>1, FS_EmptySet
  <2>5. \A t \in Sharers : ~Exists(Temp(t))
    BY <2>3, NamesDiffer DEF Exists
  <2>6. \A p \in Pointers : pointer[p].mpValue = ValueOf(pointer[p].mpRefCount)
    BY <2>1, <2>3 DEF ValueOf
  <2> QED
    BY <2>1, <2>2, <2>4, <2>5, <2>6, RestIsRight
<1>2. ASSUME SharedInit PROVE SharedInv
  <2>1. /\ mMutex = [p \in Pointers |-> Unlocked]
        /\ call = [t \in Sharers |-> NoCall(t)] /\ at = [t \in Sharers |-> "idle"]
        /\ held = [t \in Sharers |-> NoPointer] /\ sole = [t \in Sharers |-> FALSE]
    BY <1>2 DEF SharedInit
  <2>2. PICK S \in SharedSets :
           LET n == Cardinality(S)
               f == CHOOSE f \in [S -> 1 .. n] : \A p, q \in S : f[p] = f[q] => p = q
           IN  /\ pointer = [p \in Pointers |-> IF p \in S
                                THEN [mpValue |-> f[p], mpRefCount |-> f[p]] ELSE NoPointer]
               /\ refCount = [c \in Counts |-> IF c <= n THEN 1 ELSE 0]
               /\ values = 1 .. n
    BY <1>2 DEF SharedInit
  <2>3. PICK n : n = Cardinality(S)
    OBVIOUS
  <2>4. S \subseteq SharedPtrs /\ IsFiniteSet(S) /\ n \in Nat /\ n <= MaxCounts
    <3>1. S \in SUBSET SharedPtrs
      BY DEF SharedPtrs
    <3>2. IsFiniteSet(S) /\ Cardinality(S) <= Cardinality(SharedPtrs)
      BY <3>1, FS_Subset
    <3>3. Cardinality(S) \in Nat /\ Cardinality(SharedPtrs) \in Nat
      BY <3>2, FS_CardinalityType
    <3> QED
      BY <2>3, <3>1, <3>2, <3>3
  <2>5. PICK f : f = CHOOSE g \in [S -> 1 .. n] : \A p, q \in S : g[p] = g[q] => p = q
    OBVIOUS
  <2>6. f \in [S -> 1 .. n] /\ \A p, q \in S : f[p] = f[q] => p = q
    <3>1. ExistsBijection(1 .. n, S)
      BY <2>3, <2>4, FS_CardinalityType
    <3>2. ExistsBijection(S, 1 .. n)
      BY <3>1, Fun_ExistsBijSymmetric
    <3>3. \E g \in [S -> 1 .. n] : \A p, q \in S : g[p] = g[q] => p = q
      BY <3>2 DEF ExistsBijection, Bijection, Injection, IsInjective
    <3> QED
      BY <2>5, <3>3
  <2>7. /\ pointer = [p \in Pointers |-> IF p \in S THEN [mpValue |-> f[p], mpRefCount |-> f[p]] ELSE NoPointer]
        /\ refCount = [c \in Counts |-> IF c <= n THEN 1 ELSE 0]
        /\ values = 1 .. n
    BY <2>2, <2>3, <2>5
  <2>8. 1 .. n \subseteq Counts
    BY <2>4 DEF Counts
  <2>9. /\ \A p \in Pointers : p \in S => pointer[p].mpValue = f[p] /\ pointer[p].mpRefCount = f[p]
        /\ \A p \in Pointers : p \notin S => pointer[p].mpValue = Null /\ pointer[p].mpRefCount = 0
    BY <2>7 DEF NoPointer
  <2>10. pointer \in [Pointers -> [mpValue : Counts \cup {Null}, mpRefCount : Counts \cup {0}]]
    <3>1. \A p \in S : f[p] \in Counts
      BY <2>6, <2>8
    <3>2. NoPointer \in [mpValue : Counts \cup {Null}, mpRefCount : Counts \cup {0}]
      BY DEF NoPointer
    <3> QED
      BY <2>7, <3>1, <3>2
  <2>11. refCount \in [Counts -> Nat] /\ values \subseteq Counts
    BY <2>7, <2>8
  <2>12. \A t \in Sharers : ~Exists(Temp(t))
    BY <2>4, <2>9, NamesDiffer DEF Exists
  <2>13. S \subseteq Pointers
    BY <2>4 DEF Pointers
  <2>14. \A p \in Pointers : pointer[p].mpValue = ValueOf(pointer[p].mpRefCount)
    <3>1. 0 \notin 1 .. n /\ Null = 0
      BY <2>4 DEF Null
    <3> QED
      BY <2>6, <2>7, <2>9, <3>1 DEF ValueOf
  <2>15. \A m \in 1 .. n : \E p \in S : f[p] = m
    <3>1. f \in Injection(S, 1 .. n)
      BY <2>6 DEF Injection, IsInjective
    <3>2. IsFiniteSet(1 .. n) /\ Cardinality(1 .. n) = IF 1 > n THEN 0 ELSE n - 1 + 1
      <4>1. 1 \in Int /\ n \in Int
        BY <2>4
      <4> QED
        BY <4>1, FS_Interval
    <3>3. Cardinality(1 .. n) = Cardinality(S)
      BY <2>3, <2>4, <3>2
    <3>4. f \in Surjection(S, 1 .. n)
      BY <3>1, <3>2, <3>3, FS_Injection
    <3> QED
      BY <3>4 DEF Surjection
  <2>16. ASSUME NEW m \in Counts
         PROVE  refCount[m] = Cardinality(Having(m)) /\ (m <= n => Having(m) # {})
    <3>1. m \in Nat /\ m # 0
      BY DEF Counts
    <3>2. CASE m <= n
      <4>1. PICK p \in S : f[p] = m
        BY <2>15, <3>1, <3>2, <2>4
      <4>2. Having(m) = {p}
        BY <2>6, <2>9, <2>13, <3>1, <4>1 DEF Having
      <4>3. Cardinality({p}) = 1
        BY FS_Singleton
      <4> QED
        BY <2>7, <3>2, <4>2, <4>3
    <3>3. CASE ~(m <= n)
      <4>1. Having(m) = {}
        BY <2>4, <2>6, <2>9, <3>1, <3>3 DEF Having
      <4> QED
        BY <2>7, <3>3, <4>1, FS_EmptySet
    <3> QED
      BY <3>2, <3>3
  <2>17. \A m \in values : Having(m) # {}
    BY <2>4, <2>7, <2>8, <2>16
  <2> QED
    BY <2>1, <2>10, <2>11, <2>12, <2>14, <2>16, <2>17, RestIsRight
<1> QED
  BY <1>1, <1>2

\* A count is that of its pointers and a value lives as long as one of them;
\* swaps, copies, assignments and destructions may interleave as they like.
THEOREM SharedPointersAreExact ==
    Spec => [](SharedTypeOK /\ RefCountsAreExact /\ ValuesLiveWhileShared /\ UniqueIsSole)
<1>1. Init => SharedInv
  BY SharedBegins DEF Init
<1>2. SharedInv /\ [Next]_allVars => SharedInv'
  BY SharedGoesOn DEF Next, allVars
<1>3. SharedInv => SharedTypeOK /\ RefCountsAreExact /\ ValuesLiveWhileShared /\ UniqueIsSole
  BY SharedInvKeeps
<1> QED
  BY <1>1, <1>2, <1>3, PTL DEF Spec
-----------------------------------------------------------------------------
(* Lists.                                                                  *)

\* The n + 1 nodes w[0] .. w[n] from head to tail are linked, and the others are free.
Linked(links, n, w) ==
    /\ n \in 1 .. MaxItems + 1 /\ w \in [0 .. n -> Addresses]
    /\ w[0] = HeadNode /\ w[n] = TailNode
    /\ \A j, k \in 0 .. n : w[j] = w[k] => j = k
    /\ \A k \in 0 .. n - 1 : links[w[k]].mpNext = w[k + 1] /\ links[w[k + 1]].mpPrev = w[k]
    /\ \A a \in Addresses : (\A k \in 0 .. n : w[k] # a) => links[a] = FreeNode
    /\ links \in [Addresses -> list_node]

ListIs(n, w) ==
    /\ Linked(node, n, w) /\ mnSize = n - 1
    /\ iter \in {w[k] : k \in 1 .. n} \cup {Gone}

ListInv == \E n \in 1 .. MaxItems + 1 : \E w \in [0 .. n -> Addresses] : ListIs(n, w)

LEMMA AddressesAre ==
    /\ HeadNode \in Addresses /\ TailNode \in Addresses /\ HeadNode # TailNode /\ Gone \notin Addresses
    /\ Addresses \subseteq Nat /\ IsFiniteSet(Addresses) /\ Cardinality(Addresses) = MaxItems + 2
    /\ FreeNode \in list_node /\ FreeNode.mpNext = HeadNode /\ FreeNode.mpPrev = HeadNode
<1>1. MaxItems \in Nat /\ 0 \in Int /\ MaxItems + 1 \in Int
  BY DEF SimpleListAssumption
<1>2. PICK m \in Int : m = MaxItems + 1
  BY <1>1
<1>3. IsFiniteSet(0 .. m) /\ Cardinality(0 .. m) = IF 0 > m THEN 0 ELSE m - 0 + 1
  BY <1>1, FS_Interval
<1>4. Addresses = 0 .. MaxItems + 1
  BY DEF Addresses, HeadNode, TailNode
<1>5. IsFiniteSet(Addresses) /\ Cardinality(Addresses) = MaxItems + 2
  BY <1>1, <1>2, <1>3, <1>4
<1>6. /\ HeadNode \in Addresses /\ TailNode \in Addresses /\ HeadNode # TailNode /\ Gone \notin Addresses
      /\ Addresses \subseteq Nat
  BY <1>1, <1>4 DEF HeadNode, TailNode, Gone
<1> QED
  BY <1>5, <1>6 DEF FreeNode, list_node

\* There are not more nodes than addresses.
LEMMA LengthIsBounded ==
    ASSUME NEW n \in Nat, NEW w \in [0 .. n -> Addresses], \A j, k \in 0 .. n : w[j] = w[k] => j = k
    PROVE  n <= MaxItems + 1
<1>1. w \in Injection(0 .. n, Addresses)
  BY DEF Injection, IsInjective
<1>2. Cardinality(0 .. n) <= Cardinality(Addresses)
  BY <1>1, AddressesAre, FS_Injection
<1>3. Cardinality(0 .. n) = IF 0 > n THEN 0 ELSE n - 0 + 1
  <2>1. 0 \in Int /\ n \in Int
    OBVIOUS
  <2> QED
    BY <2>1, FS_Interval
<1> QED
  BY <1>2, <1>3, AddressesAre DEF SimpleListAssumption

\* What the nodes between head and tail are.
ItemsOf(links) == {a \in Addresses \ {HeadNode, TailNode} : links[a] # FreeNode}

LEMMA ItemsOfAre ==
    ASSUME NEW links, NEW n, NEW w, Linked(links, n, w)
    PROVE  /\ ItemsOf(links) = {w[k] : k \in 1 .. n - 1}
           /\ IsFiniteSet(ItemsOf(links)) /\ Cardinality(ItemsOf(links)) = n - 1
           /\ HeadNode \notin ItemsOf(links) /\ TailNode \notin ItemsOf(links)
<1>0. /\ n \in 1 .. MaxItems + 1 /\ w \in [0 .. n -> Addresses]
      /\ w[0] = HeadNode /\ w[n] = TailNode
      /\ \A j, k \in 0 .. n : w[j] = w[k] => j = k
      /\ \A k \in 0 .. n - 1 : links[w[k]].mpNext = w[k + 1] /\ links[w[k + 1]].mpPrev = w[k]
      /\ \A a \in Addresses : (\A k \in 0 .. n : w[k] # a) => links[a] = FreeNode
  BY DEF Linked
<1>1. n \in Nat /\ MaxItems \in Nat
  BY <1>0 DEF SimpleListAssumption
<1>2. ASSUME NEW k \in 1 .. n - 1 PROVE w[k] \in ItemsOf(links)
  <2>1. k \in 0 .. n /\ k + 1 \in 0 .. n /\ k \in 0 .. n - 1 /\ 0 \in 0 .. n /\ n \in 0 .. n /\ k # 0 /\ k # n /\ k + 1 # 0
    BY <1>1
  <2>2. w[k] \in Addresses /\ w[k] # HeadNode /\ w[k] # TailNode /\ w[k + 1] # HeadNode
    BY <1>0, <2>1
  <2>3. links[w[k]] # FreeNode
    BY <1>0, <2>1, <2>2, AddressesAre
  <2> QED
    BY <2>2, <2>3 DEF ItemsOf
<1>3. ASSUME NEW a \in ItemsOf(links) PROVE \E k \in 1 .. n - 1 : a = w[k]
  <2>1. PICK k \in 0 .. n : w[k] = a
    BY <1>0 DEF ItemsOf
  <2>2. k # 0 /\ k # n
    BY <1>0, <2>1 DEF ItemsOf
  <2> QED
    BY <1>1, <2>1, <2>2
<1>4. ItemsOf(links) = {w[k] : k \in 1 .. n - 1}
  BY <1>2, <1>3
<1>5. IsFiniteSet(ItemsOf(links)) /\ Cardinality(ItemsOf(links)) = n - 1
  <2> DEFINE f == [k \in 1 .. n - 1 |-> w[k]]
  <2>1. f \in [1 .. n - 1 -> ItemsOf(links)]
    BY <1>2
  <2>2. \A j, k \in 1 .. n - 1 : f[j] = f[k] => j = k
    <3>1. \A k \in 1 .. n - 1 : k \in 0 .. n
      BY <1>1
    <3> QED
      BY <1>0, <3>1
  <2>3. \A a \in ItemsOf(links) : \E k \in 1 .. n - 1 : f[k] = a
    BY <1>3
  <2> HIDE DEF f
  <2>4. ExistsBijection(1 .. n - 1, ItemsOf(links))
    BY <2>1, <2>2, <2>3 DEF ExistsBijection, Bijection, Injection, Surjection, IsInjective
  <2>5. n - 1 \in Nat
    BY <1>0, <1>1
  <2>6. IsFiniteSet(1 .. n - 1) /\ Cardinality(1 .. n - 1) = n - 1
    BY <2>5, CountIs
  <2> QED
    BY <2>4, <2>6, FS_Bijection
<1> QED
  BY <1>4, <1>5 DEF ItemsOf

-----------------------------------------------------------------------------
(* The nodes from the head, and from the tail.                             *)

Along(links, f) == [k \in 0 .. MaxItems + 1 |->
    IF k = 0 THEN HeadNode ELSE IF f[k - 1] = TailNode THEN TailNode ELSE links[f[k - 1]].mpNext]
AlongBack(links, f) == [k \in 0 .. MaxItems + 1 |->
    IF k = 0 THEN TailNode ELSE IF f[k - 1] = HeadNode THEN HeadNode ELSE links[f[k - 1]].mpPrev]

LEMMA WalkIs ==
    ASSUME NEW links, NEW n, NEW w, Linked(links, n, w)
    PROVE  \A k \in 0 .. MaxItems + 1 :
              (CHOOSE f : f = Along(links, f))[k] = IF k <= n THEN w[k] ELSE TailNode
<1>0. /\ n \in 1 .. MaxItems + 1 /\ w \in [0 .. n -> Addresses]
      /\ w[0] = HeadNode /\ w[n] = TailNode
      /\ \A j, k \in 0 .. n : w[j] = w[k] => j = k
      /\ \A k \in 0 .. n - 1 : links[w[k]].mpNext = w[k + 1]
  BY DEF Linked
<1>1. n \in Nat /\ n # 0 /\ MaxItems \in Nat
  BY <1>0 DEF SimpleListAssumption
<1> DEFINE g == [k \in 0 .. MaxItems + 1 |-> IF k <= n THEN w[k] ELSE TailNode]
           walk == CHOOSE f : f = Along(links, f)
<1>2. g = Along(links, g)
  <2> SUFFICES ASSUME NEW k \in 0 .. MaxItems + 1
               PROVE  g[k] = IF k = 0 THEN HeadNode ELSE IF g[k - 1] = TailNode THEN TailNode ELSE links[g[k - 1]].mpNext
    BY DEF Along
  <2>1. CASE k = 0
    BY <1>0, <1>1, <2>1
  <2>2. CASE k # 0 /\ k <= n
    <3>1. k - 1 \in 0 .. n - 1 /\ k - 1 \in 0 .. n /\ n \in 0 .. n /\ k - 1 # n /\ k - 1 \in 0 .. MaxItems + 1 /\ (k - 1) + 1 = k
      BY <1>0, <1>1, <2>2
    <3>2. g[k - 1] = w[k - 1] /\ g[k] = w[k]
      BY <1>1, <2>2, <3>1
    <3>3. w[k - 1] # TailNode
      BY <1>0, <3>1
    <3>4. links[w[k - 1]].mpNext = w[k]
      BY <1>0, <3>1
    <3> QED
      BY <2>2, <3>2, <3>3, <3>4
  <2>3. CASE k > n
    <3>1. k - 1 \in 0 .. MaxItems + 1 /\ k - 1 >= n /\ ~(k <= n) /\ k # 0
      BY <1>0, <1>1, <2>3
    <3>2. g[k - 1] = TailNode
      BY <1>0, <1>1, <3>1
    <3> QED
      BY <3>1, <3>2
  <2> QED
    BY <1>1, <2>1, <2>2, <2>3
<1> HIDE DEF g
<1>3. walk = Along(links, walk)
  BY <1>2
<1> HIDE DEF walk
<1>4. walk[0] = HeadNode /\ \A k \in 1 .. MaxItems + 1 :
          walk[k] = IF walk[k - 1] = TailNode THEN TailNode ELSE links[walk[k - 1]].mpNext
  <2>1. \A k \in 0 .. MaxItems + 1 : walk[k] =
            IF k = 0 THEN HeadNode ELSE IF walk[k - 1] = TailNode THEN TailNode ELSE links[walk[k - 1]].mpNext
    BY <1>3 DEF Along
  <2>2. 0 \in 0 .. MaxItems + 1 /\ \A k \in 1 .. MaxItems + 1 : k \in 0 .. MaxItems + 1 /\ k # 0
    BY ONLY <1>1
  <2> QED
    BY <2>1, <2>2
<1>5. g[0] = HeadNode /\ \A k \in 1 .. MaxItems + 1 :
          g[k] = IF g[k - 1] = TailNode THEN TailNode ELSE links[g[k - 1]].mpNext
  <2>1. \A k \in 0 .. MaxItems + 1 : g[k] =
            IF k = 0 THEN HeadNode ELSE IF g[k - 1] = TailNode THEN TailNode ELSE links[g[k - 1]].mpNext
    BY <1>2 DEF Along
  <2>2. 0 \in 0 .. MaxItems + 1 /\ \A k \in 1 .. MaxItems + 1 : k \in 0 .. MaxItems + 1 /\ k # 0
    BY ONLY <1>1
  <2> QED
    BY <2>1, <2>2
<1> DEFINE S == {k \in 0 .. MaxItems + 1 : walk[k] = g[k]}
<1>6. 0 .. MaxItems + 1 \subseteq S
  <2>1. 0 \in S
    BY <1>1, <1>4, <1>5
  <2>2. \A k \in 0 .. (MaxItems + 1) - 1 : k \in S => k + 1 \in S
    <3> SUFFICES ASSUME NEW k \in 0 .. (MaxItems + 1) - 1, k \in S PROVE k + 1 \in S
      OBVIOUS
    <3>1. k + 1 \in 1 .. MaxItems + 1 /\ k + 1 \in 0 .. MaxItems + 1 /\ (k + 1) - 1 = k
      BY <1>1
    <3>2. walk[k + 1] = g[k + 1]
      BY <1>4, <1>5, <3>1
    <3> QED
      BY <3>1, <3>2
  <2>3. MaxItems + 1 \in Nat
    BY <1>1
  <2> HIDE DEF S
  <2> QED
    BY <2>1, <2>2, <2>3, ReachesAll
<1> QED
  BY <1>6 DEF g, walk

LEMMA WalkBackIs ==
    ASSUME NEW links, NEW n, NEW w, Linked(links, n, w)
    PROVE  \A k \in 0 .. MaxItems + 1 :
              (CHOOSE f : f = AlongBack(links, f))[k] = IF k <= n THEN w[n - k] ELSE HeadNode
<1>0. /\ n \in 1 .. MaxItems + 1 /\ w \in [0 .. n -> Addresses]
      /\ w[0] = HeadNode /\ w[n] = TailNode
      /\ \A j, k \in 0 .. n : w[j] = w[k] => j = k
      /\ \A k \in 0 .. n - 1 : links[w[k + 1]].mpPrev = w[k]
  BY DEF Linked
<1>1. n \in Nat /\ n # 0 /\ MaxItems \in Nat
  BY <1>0 DEF SimpleListAssumption
<1> DEFINE g == [k \in 0 .. MaxItems + 1 |-> IF k <= n THEN w[n - k] ELSE HeadNode]
           walk == CHOOSE f : f = AlongBack(links, f)
<1>2. g = AlongBack(links, g)
  <2> SUFFICES ASSUME NEW k \in 0 .. MaxItems + 1
               PROVE  g[k] = IF k = 0 THEN TailNode ELSE IF g[k - 1] = HeadNode THEN HeadNode ELSE links[g[k - 1]].mpPrev
    BY DEF AlongBack
  <2>1. CASE k = 0
    <3>1. n - k = n /\ k <= n
      BY <1>1, <2>1
    <3> QED
      BY <1>0, <2>1, <3>1
  <2>2. CASE k # 0 /\ k <= n
    <3>a. k \in Nat /\ k # 0 /\ k <= n /\ k \in 0 .. MaxItems + 1
      BY <1>1, <2>2
    <3>1. /\ k - 1 \in 0 .. MaxItems + 1 /\ k - 1 <= n
          /\ n - k \in 0 .. n - 1 /\ n - (k - 1) = (n - k) + 1
          /\ n - (k - 1) \in 0 .. n /\ 0 \in 0 .. n /\ n - (k - 1) # 0
      BY ONLY <1>1, <3>a
    <3>2. g[k - 1] = w[n - (k - 1)] /\ g[k] = w[n - k]
      BY <1>1, <2>2, <3>1
    <3>3. w[n - (k - 1)] # HeadNode
      BY <1>0, <3>1
    <3>4. links[w[n - (k - 1)]].mpPrev = w[n - k]
      BY <1>0, <3>1
    <3> QED
      BY <2>2, <3>2, <3>3, <3>4
  <2>3. CASE k > n
    <3>1. k - 1 \in 0 .. MaxItems + 1 /\ k - 1 >= n /\ ~(k <= n) /\ k # 0 /\ (k - 1 <= n => n - (k - 1) = 0)
      BY <1>0, <1>1, <2>3
    <3>2. g[k - 1] = HeadNode
      BY <1>0, <1>1, <3>1
    <3> QED
      BY <3>1, <3>2
  <2> QED
    BY <1>1, <2>1, <2>2, <2>3
<1> HIDE DEF g
<1>3. walk = AlongBack(links, walk)
  BY <1>2
<1> HIDE DEF walk
<1>4. walk[0] = TailNode /\ \A k \in 1 .. MaxItems + 1 :
          walk[k] = IF walk[k - 1] = HeadNode THEN HeadNode ELSE links[walk[k - 1]].mpPrev
  <2>1. \A k \in 0 .. MaxItems + 1 : walk[k] =
            IF k = 0 THEN TailNode ELSE IF walk[k - 1] = HeadNode THEN HeadNode ELSE links[walk[k - 1]].mpPrev
    BY <1>3 DEF AlongBack
  <2>2. 0 \in 0 .. MaxItems + 1 /\ \A k \in 1 .. MaxItems + 1 : k \in 0 .. MaxItems + 1 /\ k # 0
    BY ONLY <1>1
  <2> QED
    BY <2>1, <2>2
<1>5. g[0] = TailNode /\ \A k \in 1 .. MaxItems + 1 :
          g[k] = IF g[k - 1] = HeadNode THEN HeadNode ELSE links[g[k - 1]].mpPrev
  <2>1. \A k \in 0 .. MaxItems + 1 : g[k] =
            IF k = 0 THEN TailNode ELSE IF g[k - 1] = HeadNode THEN HeadNode ELSE links[g[k - 1]].mpPrev
    BY <1>2 DEF AlongBack
  <2>2. 0 \in 0 .. MaxItems + 1 /\ \A k \in 1 .. MaxItems + 1 : k \in 0 .. MaxItems + 1 /\ k # 0
    BY ONLY <1>1
  <2> QED
    BY <2>1, <2>2
<1> DEFINE S == {k \in 0 .. MaxItems + 1 : walk[k] = g[k]}
<1>6. 0 .. MaxItems + 1 \subseteq S
  <2>1. 0 \in S
    BY <1>1, <1>4, <1>5
  <2>2. \A k \in 0 .. (MaxItems + 1) - 1 : k \in S => k + 1 \in S
    <3> SUFFICES ASSUME NEW k \in 0 .. (MaxItems + 1) - 1, k \in S PROVE k + 1 \in S
      OBVIOUS
    <3>1. k + 1 \in 1 .. MaxItems + 1 /\ k + 1 \in 0 .. MaxItems + 1 /\ (k + 1) - 1 = k
      BY <1>1
    <3>2. walk[k + 1] = g[k + 1]
      BY <1>4, <1>5, <3>1
    <3> QED
      BY <3>1, <3>2
  <2>3. MaxItems + 1 \in Nat
    BY <1>1
  <2> HIDE DEF S
  <2> QED
    BY <2>1, <2>2, <2>3, ReachesAll
<1> QED
  BY <1>6 DEF g, walk
-----------------------------------------------------------------------------
(* The links after a node was taken out, and after one was added.          *)

Without(n, w, i) == [k \in 0 .. n - 1 |-> IF k < i THEN w[k] ELSE w[k + 1]]
Added(n, w, x) == [k \in 0 .. n + 1 |-> IF k < n THEN w[k] ELSE IF k = n THEN x ELSE TailNode]

LEMMA LinkedIs ==
    ASSUME NEW links, NEW n, NEW w, Linked(links, n, w)
    PROVE  /\ n \in Nat /\ n # 0 /\ n \in 1 .. MaxItems + 1 /\ MaxItems \in Nat /\ w \in [0 .. n -> Addresses]
           /\ w[0] = HeadNode /\ w[n] = TailNode
           /\ \A j, k \in 0 .. n : w[j] = w[k] => j = k
           /\ \A k \in 0 .. n - 1 : links[w[k]].mpNext = w[k + 1] /\ links[w[k + 1]].mpPrev = w[k]
           /\ \A a \in Addresses : (\A k \in 0 .. n : w[k] # a) => links[a] = FreeNode
           /\ links \in [Addresses -> list_node]
  BY DEF Linked, SimpleListAssumption

LEMMA TakenOut ==
    ASSUME NEW links, NEW n, NEW w, Linked(links, n, w), NEW i \in 1 .. n - 1,
           NEW new \in [Addresses -> list_node],
           new[w[i]] = FreeNode,
           new[w[i - 1]].mpNext = w[i + 1], new[w[i - 1]].mpPrev = links[w[i - 1]].mpPrev,
           new[w[i + 1]].mpPrev = w[i - 1], new[w[i + 1]].mpNext = links[w[i + 1]].mpNext,
           \A a \in Addresses \ {w[i - 1], w[i], w[i + 1]} : new[a] = links[a]
    PROVE  Linked(new, n - 1, Without(n, w, i))
<1>0. /\ n \in Nat /\ n # 0 /\ n \in 1 .. MaxItems + 1 /\ MaxItems \in Nat /\ w \in [0 .. n -> Addresses]
      /\ w[0] = HeadNode /\ w[n] = TailNode
      /\ \A j, k \in 0 .. n : w[j] = w[k] => j = k
      /\ \A k \in 0 .. n - 1 : links[w[k]].mpNext = w[k + 1] /\ links[w[k + 1]].mpPrev = w[k]
      /\ \A a \in Addresses : (\A k \in 0 .. n : w[k] # a) => links[a] = FreeNode
  <2>1. Linked(links, n, w)
    OBVIOUS
  <2> QED
    BY ONLY <2>1, LinkedIs
<1>1. i \in Nat /\ i # 0 /\ i < n /\ n - 1 \in Nat /\ i - 1 \in 0 .. n /\ i \in 0 .. n /\ i + 1 \in 0 .. n
  BY <1>0
<1> DEFINE v == Without(n, w, i)
<1>2. \A k \in 0 .. n - 1 : k \in Nat /\ k \in 0 .. n /\ k + 1 \in 0 .. n /\ v[k] = IF k < i THEN w[k] ELSE w[k + 1]
  <2>0. n \in Nat /\ n # 0
    BY <1>0
  <2>1. \A k \in 0 .. n - 1 : k \in Nat /\ k \in 0 .. n /\ k + 1 \in 0 .. n
    BY ONLY <2>0
  <2>2. \A k \in 0 .. n - 1 : v[k] = IF k < i THEN w[k] ELSE w[k + 1]
    BY DEF Without
  <2> QED
    BY <2>1, <2>2
<1>3. v \in [0 .. n - 1 -> Addresses]
  <2>1. \A k \in 0 .. n - 1 : (IF k < i THEN w[k] ELSE w[k + 1]) \in Addresses
    BY <1>0, <1>2
  <2> QED
    BY <2>1 DEF Without
<1> HIDE DEF v
<1>4. v[0] = HeadNode /\ v[n - 1] = TailNode
  <2>1. 0 \in 0 .. n - 1 /\ n - 1 \in 0 .. n - 1 /\ 0 < i /\ ~(n - 1 < i) /\ (n - 1) + 1 = n
    BY <1>0, <1>1
  <2>2. v[0] = w[0]
    BY <1>2, <2>1
  <2>3. v[n - 1] = w[(n - 1) + 1]
    BY <1>2, <2>1
  <2> QED
    BY <1>0, <2>1, <2>2, <2>3
<1>5. ASSUME NEW j \in 0 .. n - 1, NEW k \in 0 .. n - 1, v[j] = v[k] PROVE j = k
  <2>1. PICK a \in 0 .. n, b \in 0 .. n :
           a = (IF j < i THEN j ELSE j + 1) /\ b = (IF k < i THEN k ELSE k + 1)
    BY <1>2
  <2>2. v[j] = w[a] /\ v[k] = w[b]
    BY <1>2, <2>1
  <2>3. a = b
    BY <1>0, <1>5, <2>2
  <2> QED
    BY <1>1, <1>2, <2>1, <2>3
<1>6. ASSUME NEW k \in 0 .. (n - 1) - 1 PROVE new[v[k]].mpNext = v[k + 1] /\ new[v[k + 1]].mpPrev = v[k]
  <2>1. k \in Nat /\ k \in 0 .. n - 1 /\ k + 1 \in 0 .. n - 1 /\ k \in 0 .. n /\ k + 1 \in 0 .. n /\ k + 2 \in 0 .. n /\ (k + 1) + 1 = k + 2
    <3>1. n \in Nat /\ n # 0 /\ k \in 0 .. (n - 1) - 1
      BY <1>0
    <3> QED
      BY ONLY <3>1
  <2>2. CASE k + 1 < i
    <3>1. v[k] = w[k] /\ v[k + 1] = w[k + 1] /\ k < i
      BY <1>1, <1>2, <2>1, <2>2
    <3>2. k # i - 1 /\ k # i /\ k # i + 1 /\ k + 1 # i /\ k + 1 # i + 1 /\ i - 1 # i + 1
      BY <1>1, <2>1, <2>2
    <3>3. w[k] \notin {w[i - 1], w[i], w[i + 1]}
      BY <1>0, <1>1, <2>1, <3>2
    <3>4. new[w[k]] = links[w[k]]
      BY <1>0, <2>1, <3>3
    <3>5. new[w[k + 1]].mpPrev = links[w[k + 1]].mpPrev
      <4>1. CASE k + 1 = i - 1
        BY <4>1
      <4>2. CASE k + 1 # i - 1
        <5>1. w[k + 1] # w[i - 1] /\ w[k + 1] # w[i] /\ w[k + 1] # w[i + 1]
          BY <1>0, <1>1, <2>1, <3>2, <4>2
        <5>2. w[k + 1] \in Addresses
          BY <1>0, <2>1
        <5> QED
          BY <5>1, <5>2
      <4> QED
        BY <4>1, <4>2
    <3>6. links[w[k]].mpNext = w[k + 1] /\ links[w[k + 1]].mpPrev = w[k]
      BY <1>0, <2>1
    <3> QED
      BY <3>1, <3>4, <3>5, <3>6
  <2>3. CASE k + 1 = i
    <3>1. v[k] = w[i - 1] /\ v[k + 1] = w[i + 1] /\ k < i
      BY <1>1, <1>2, <2>1, <2>3
    <3> QED
      BY <3>1
  <2>4. CASE k + 1 > i
    <3>1. v[k] = w[k + 1] /\ v[k + 1] = w[k + 2] /\ ~(k < i)
      BY <1>1, <1>2, <2>1, <2>4
    <3>2. k + 1 # i - 1 /\ k + 1 # i /\ k + 2 # i - 1 /\ k + 2 # i /\ k + 2 # i + 1 /\ k + 1 \in 0 .. n - 1
      BY <1>1, <2>1, <2>4
    <3>3. new[w[k + 2]] = links[w[k + 2]]
      <4>1. w[k + 2] \notin {w[i - 1], w[i], w[i + 1]} /\ w[k + 2] \in Addresses
        BY <1>0, <1>1, <2>1, <3>2
      <4> QED
        BY <4>1
    <3>4. new[w[k + 1]].mpNext = links[w[k + 1]].mpNext
      <4>1. CASE k + 1 = i + 1
        BY <4>1
      <4>2. CASE k + 1 # i + 1
        <5>1. w[k + 1] # w[i - 1] /\ w[k + 1] # w[i] /\ w[k + 1] # w[i + 1]
          BY <1>0, <1>1, <2>1, <3>2, <4>2
        <5>2. w[k + 1] \in Addresses
          BY <1>0, <2>1
        <5> QED
          BY <5>1, <5>2
      <4> QED
        BY <4>1, <4>2
    <3>5. links[w[k + 1]].mpNext = w[(k + 1) + 1] /\ links[w[(k + 1) + 1]].mpPrev = w[k + 1]
      BY <1>0, <3>2
    <3>6. (k + 1) + 1 = k + 2
      BY <2>1
    <3> QED
      BY <3>1, <3>3, <3>4, <3>5, <3>6
  <2> QED
    BY <1>1, <2>1, <2>2, <2>3, <2>4
<1>7. ASSUME NEW a \in Addresses, \A k \in 0 .. n - 1 : v[k] # a PROVE new[a] = FreeNode
  <2>1. CASE a = w[i]
    BY <2>1
  <2>2. CASE a # w[i]
    <3>1. ASSUME NEW k \in 0 .. n, w[k] = a PROVE FALSE
      <4>1. k # i
        BY <2>2, <3>1
      <4>2. CASE k < i
        <5>1. k \in 0 .. n - 1
          BY <1>0, <1>1, <4>2
        <5> QED
          BY <1>2, <1>7, <3>1, <4>2, <5>1
      <4>3. CASE k > i
        <5>0. k \in 0 .. n /\ n \in Nat
          BY <1>0
        <5>1. k - 1 \in 0 .. n - 1 /\ ~(k - 1 < i) /\ (k - 1) + 1 = k
          BY ONLY <1>1, <4>3, <5>0
        <5> QED
          BY <1>2, <1>7, <3>1, <5>1
      <4> QED
        BY <1>1, <4>1, <4>2, <4>3
    <3>2. links[a] = FreeNode /\ a \notin {w[i - 1], w[i], w[i + 1]}
      BY <1>0, <1>1, <3>1
    <3> QED
      BY <3>2
  <2> QED
    BY <2>1, <2>2
<1>8. n - 1 \in 1 .. MaxItems + 1
  BY <1>0, <1>1
<1> QED
  BY <1>3, <1>4, <1>5, <1>6, <1>7, <1>8 DEF Linked, v

LEMMA UnlinkedIs ==
    ASSUME NEW links, NEW n, NEW w, Linked(links, n, w), NEW i \in 1 .. n - 1
    PROVE  /\ Linked(Unlinked(links, w[i]), n - 1, Without(n, w, i))
           /\ \A a \in Addresses : a # w[i] => Unlinked(links, w[i])[a].mValue = links[a].mValue
<1>0. /\ n \in Nat /\ n # 0 /\ w \in [0 .. n -> Addresses] /\ links \in [Addresses -> list_node]
      /\ \A j, k \in 0 .. n : w[j] = w[k] => j = k
      /\ \A k \in 0 .. n - 1 : links[w[k]].mpNext = w[k + 1] /\ links[w[k + 1]].mpPrev = w[k]
  BY LinkedIs
<1>1. /\ i - 1 \in 0 .. n - 1 /\ i \in 0 .. n - 1 /\ i - 1 \in 0 .. n /\ i \in 0 .. n /\ i + 1 \in 0 .. n
      /\ (i - 1) + 1 = i /\ i # i - 1 /\ i # i + 1 /\ i - 1 # i + 1
  BY <1>0
<1>2. PICK p \in Addresses, x \in Addresses, q \in Addresses :
         p = w[i - 1] /\ x = w[i] /\ q = w[i + 1] /\ p # x /\ x # q /\ p # q
  BY <1>0, <1>1
<1>3. links[x].mpNext = q /\ links[x].mpPrev = p
  BY <1>0, <1>1, <1>2
<1> DEFINE new == Unlinked(links, w[i])
<1>4. new = [links EXCEPT ![q].mpPrev = p, ![p].mpNext = q, ![x] = FreeNode]
  BY <1>2, <1>3 DEF Unlinked
<1> HIDE DEF new
<1>5. /\ new[x] = FreeNode /\ new[p] = [links[p] EXCEPT !.mpNext = q] /\ new[q] = [links[q] EXCEPT !.mpPrev = p]
      /\ \A a \in Addresses \ {p, x, q} : new[a] = links[a]
      /\ DOMAIN new = Addresses /\ new = [a \in Addresses |-> new[a]]
  BY <1>0, <1>2, <1>4
<1>6. links[p] \in list_node /\ links[q] \in list_node /\ FreeNode \in list_node
  BY <1>0, AddressesAre
<1>7. /\ new[p].mpNext = q /\ new[p].mpPrev = links[p].mpPrev /\ new[p].mValue = links[p].mValue
      /\ new[q].mpPrev = p /\ new[q].mpNext = links[q].mpNext /\ new[q].mValue = links[q].mValue
      /\ new[p] \in list_node /\ new[q] \in list_node
  BY <1>2, <1>5, <1>6 DEF list_node
<1>8. new \in [Addresses -> list_node]
  <2>1. \A a \in Addresses : new[a] \in list_node
    BY <1>0, <1>5, <1>6, <1>7
  <2> QED
    BY <1>5, <2>1
<1>9. Linked(new, n - 1, Without(n, w, i))
  <2>1. /\ new[w[i]] = FreeNode
        /\ new[w[i - 1]].mpNext = w[i + 1] /\ new[w[i - 1]].mpPrev = links[w[i - 1]].mpPrev
        /\ new[w[i + 1]].mpPrev = w[i - 1] /\ new[w[i + 1]].mpNext = links[w[i + 1]].mpNext
        /\ \A a \in Addresses \ {w[i - 1], w[i], w[i + 1]} : new[a] = links[a]
    BY <1>2, <1>5, <1>7
  <2> QED
    BY <1>8, <2>1, TakenOut
<1> QED
  BY <1>2, <1>5, <1>7, <1>9 DEF new

LEMMA AddedIs ==
    ASSUME NEW links, NEW n, NEW w, Linked(links, n, w),
           NEW x \in Addresses, \A k \in 0 .. n : w[k] # x,
           NEW new \in [Addresses -> list_node],
           new[x].mpPrev = w[n - 1], new[x].mpNext = TailNode,
           new[w[n - 1]].mpNext = x, new[w[n - 1]].mpPrev = links[w[n - 1]].mpPrev,
           new[TailNode].mpPrev = x,
           \A a \in Addresses \ {x, w[n - 1], TailNode} : new[a] = links[a]
    PROVE  Linked(new, n + 1, Added(n, w, x))
<1>0. /\ n \in Nat /\ n # 0 /\ n \in 1 .. MaxItems + 1 /\ MaxItems \in Nat /\ w \in [0 .. n -> Addresses]
      /\ w[0] = HeadNode /\ w[n] = TailNode
      /\ \A j, k \in 0 .. n : w[j] = w[k] => j = k
      /\ \A k \in 0 .. n - 1 : links[w[k]].mpNext = w[k + 1] /\ links[w[k + 1]].mpPrev = w[k]
      /\ \A a \in Addresses : (\A k \in 0 .. n : w[k] # a) => links[a] = FreeNode
  <2>1. Linked(links, n, w)
    OBVIOUS
  <2> QED
    BY ONLY <2>1, LinkedIs
<1> DEFINE v == Added(n, w, x)
<1>1. v \in [0 .. n + 1 -> Addresses]
  <2>1. \A k \in 0 .. n + 1 : (IF k < n THEN w[k] ELSE IF k = n THEN x ELSE TailNode) \in Addresses
    BY <1>0, AddressesAre
  <2> QED
    BY <2>1 DEF Added
<1>2. /\ \A k \in 0 .. n - 1 : v[k] = w[k] /\ k \in 0 .. n /\ k + 1 \in 0 .. n
      /\ v[n] = x /\ v[n + 1] = w[n]
  BY <1>0 DEF Added
<1> HIDE DEF v
<1>3. v[0] = HeadNode /\ v[n + 1] = TailNode
  <2>1. 0 \in 0 .. n - 1
    BY <1>0
  <2> QED
    BY <1>0, <1>2, <2>1
<1>4. ASSUME NEW j \in 0 .. n + 1, NEW k \in 0 .. n + 1, v[j] = v[k] PROVE j = k
  <2>1. /\ j \in 0 .. n - 1 \/ j = n \/ j = n + 1
        /\ k \in 0 .. n - 1 \/ k = n \/ k = n + 1
        /\ n \in 0 .. n /\ n \notin 0 .. n - 1
    <3>1. n \in Nat /\ n # 0 /\ j \in 0 .. n + 1 /\ k \in 0 .. n + 1
      BY <1>0
    <3> QED
      BY ONLY <3>1
  <2> QED
    BY <1>0, <1>2, <1>4, <2>1
<1>5. ASSUME NEW k \in 0 .. (n + 1) - 1 PROVE new[v[k]].mpNext = v[k + 1] /\ new[v[k + 1]].mpPrev = v[k]
  <2>1. CASE k = n
    BY <1>0, <1>2, <2>1, <1>3
  <2>2. CASE k = n - 1
    <3>1. k \in 0 .. n - 1 /\ k + 1 = n
      BY <1>0, <2>2
    <3> QED
      BY <1>2, <2>2, <3>1
  <2>3. CASE k # n /\ k # n - 1
    <3>1. /\ k \in 0 .. n - 1 /\ k + 1 \in 0 .. n - 1 /\ k # n - 1 /\ k # n /\ k + 1 # n
          /\ n - 1 \in 0 .. n /\ n \in 0 .. n /\ k \in 0 .. n /\ k + 1 \in 0 .. n
      BY <1>0, <2>3
    <3>2. v[k] = w[k] /\ v[k + 1] = w[k + 1]
      BY <1>2, <3>1
    <3>3. w[k] \notin {x, w[n - 1], TailNode} /\ w[k] \in Addresses /\ w[k + 1] \notin {x, TailNode} /\ w[k + 1] \in Addresses
      BY <1>0, <3>1
    <3>4. new[w[k]] = links[w[k]] /\ new[w[k + 1]].mpPrev = links[w[k + 1]].mpPrev
      BY <3>3
    <3> QED
      BY <1>0, <3>1, <3>2, <3>4
  <2> QED
    BY <2>1, <2>2, <2>3
<1>6. ASSUME NEW a \in Addresses, \A k \in 0 .. n + 1 : v[k] # a PROVE new[a] = FreeNode
  <2>1. a # x /\ a # TailNode
    <3>1. n \in 0 .. n + 1 /\ n + 1 \in 0 .. n + 1
      BY <1>0
    <3> QED
      BY <1>2, <1>3, <1>6, <3>1
  <2>2. \A k \in 0 .. n : w[k] # a
    <3>1. \A k \in 0 .. n : k = n \/ (k \in 0 .. n - 1 /\ k \in 0 .. n + 1)
      BY <1>0
    <3> QED
      BY <1>0, <1>2, <1>6, <2>1, <3>1
  <2>3. n - 1 \in 0 .. n
    BY <1>0
  <2>4. a \notin {x, w[n - 1], TailNode} /\ links[a] = FreeNode
    BY <1>0, <2>1, <2>2, <2>3
  <2> QED
    BY <2>4
<1>7. n + 1 \in 1 .. MaxItems + 1
  <2>1. n + 1 \in Nat
    BY <1>0
  <2>2. n + 1 <= MaxItems + 1
    BY <1>1, <1>4, <2>1, LengthIsBounded
  <2> QED
    BY <1>0, <2>1, <2>2
<1> QED
  BY <1>1, <1>3, <1>4, <1>5, <1>6, <1>7 DEF Linked, v
-----------------------------------------------------------------------------
(* The calls, of a list that is linked.                                    *)

LEMMA NodesAre ==
    ASSUME NEW n, NEW w, Linked(node, n, w)
    PROVE  /\ ItemNodes = {w[k] : k \in 1 .. n - 1}
           /\ FreeNodes \subseteq Addresses /\ \A x \in FreeNodes : \A k \in 0 .. n : w[k] # x
           /\ empty <=> n = 1
           /\ node[HeadNode].mpNext = w[1] /\ w[1] \in Addresses
<1>1. /\ n \in Nat /\ n # 0 /\ w \in [0 .. n -> Addresses] /\ w[0] = HeadNode /\ w[n] = TailNode
      /\ \A j, k \in 0 .. n : w[j] = w[k] => j = k
      /\ \A k \in 0 .. n - 1 : node[w[k]].mpNext = w[k + 1]
  BY LinkedIs
<1>2. ItemsOf(node) = {w[k] : k \in 1 .. n - 1}
  BY ItemsOfAre
<1>3. ItemNodes = ItemsOf(node) /\ FreeNodes \cap ItemsOf(node) = {}
  BY DEF ItemNodes, ItemsOf, FreeNodes
<1>4. ASSUME NEW x \in FreeNodes, NEW k \in 0 .. n, w[k] = x PROVE FALSE
  <2>1. x # HeadNode /\ x # TailNode
    BY DEF FreeNodes
  <2>2. k \in 1 .. n - 1
    BY <1>1, <1>4, <2>1
  <2> QED
    BY <1>2, <1>3, <1>4, <2>2
<1>5. 0 \in 0 .. n - 1 /\ 0 + 1 = 1 /\ 1 \in 0 .. n /\ n \in 0 .. n
  BY <1>1
<1>6. node[w[0]].mpNext = w[0 + 1]
  BY <1>1, <1>5
<1>7. node[HeadNode].mpNext = w[1] /\ w[1] \in Addresses
  BY <1>1, <1>5, <1>6
<1>8. w[1] = TailNode <=> n = 1
  BY <1>1, <1>5
<1> QED
  BY <1>2, <1>3, <1>4, <1>7, <1>8 DEF empty, FreeNodes

LEMMA push_backIs ==
    ASSUME NEW n, NEW w, Linked(node, n, w), NEW v \in Items, push_back(v)
    PROVE  \E x \in Addresses :
              /\ \A k \in 0 .. n : w[k] # x
              /\ Linked(node', n + 1, Added(n, w, x)) /\ node'[x].mValue = v
              /\ \A a \in Addresses \ {x} : node'[a].mValue = node[a].mValue
<1>0. /\ n \in Nat /\ n # 0 /\ w \in [0 .. n -> Addresses] /\ node \in [Addresses -> list_node]
      /\ w[0] = HeadNode /\ w[n] = TailNode /\ \A j, k \in 0 .. n : w[j] = w[k] => j = k
      /\ \A k \in 0 .. n - 1 : node[w[k + 1]].mpPrev = w[k]
  BY LinkedIs
<1>1. FreeNodes # {} /\ FreeNodes \in SUBSET Nat /\ \A x \in FreeNodes : x \in Addresses /\ \A k \in 0 .. n : w[k] # x
  BY NodesAre, AddressesAre DEF push_back
<1>2. \E x \in FreeNodes : \A y \in FreeNodes : x <= y
  BY <1>1, LeastOf
<1>3. NewNode \in FreeNodes
  BY <1>2 DEF NewNode
<1>4. n - 1 \in 0 .. n - 1 /\ n - 1 \in 0 .. n /\ n \in 0 .. n /\ (n - 1) + 1 = n /\ n - 1 # n
  BY <1>0
<1>5. node[TailNode].mpPrev = w[n - 1]
  BY <1>0, <1>4
<1>6. PICK x \in Addresses, l \in Addresses, e \in Addresses :
         x = NewNode /\ l = w[n - 1] /\ e = TailNode /\ x # l /\ x # e /\ l # e
  BY <1>0, <1>1, <1>3, <1>4
<1>7. node' = [node EXCEPT ![x] = [mValue |-> v, mpPrev |-> l, mpNext |-> e], ![l].mpNext = x, ![e].mpPrev = x]
  BY <1>5, <1>6 DEF push_back
<1>8. /\ node'[x] = [mValue |-> v, mpPrev |-> l, mpNext |-> e]
      /\ node'[l] = [node[l] EXCEPT !.mpNext = x] /\ node'[e] = [node[e] EXCEPT !.mpPrev = x]
      /\ \A a \in Addresses \ {x, l, e} : node'[a] = node[a]
      /\ DOMAIN node' = Addresses /\ node' = [a \in Addresses |-> node'[a]]
  BY <1>0, <1>6, <1>7
<1>9. node[l] \in list_node /\ node[e] \in list_node
  BY <1>0
<1>10. /\ node'[x].mpPrev = l /\ node'[x].mpNext = e /\ node'[x].mValue = v
       /\ node'[l].mpNext = x /\ node'[l].mpPrev = node[l].mpPrev /\ node'[l].mValue = node[l].mValue
       /\ node'[e].mpPrev = x /\ node'[e].mValue = node[e].mValue
       /\ node'[x] \in list_node /\ node'[l] \in list_node /\ node'[e] \in list_node
  BY <1>6, <1>8, <1>9 DEF list_node
<1>11. node' \in [Addresses -> list_node]
  <2>1. \A a \in Addresses : node'[a] \in list_node
    BY <1>0, <1>8, <1>10
  <2> QED
    BY <1>8, <2>1
<1>12. \A k \in 0 .. n : w[k] # x
  BY <1>1, <1>3, <1>6
<1>13. Linked(node', n + 1, Added(n, w, x))
  <2>1. /\ node'[x].mpPrev = w[n - 1] /\ node'[x].mpNext = TailNode
        /\ node'[w[n - 1]].mpNext = x /\ node'[w[n - 1]].mpPrev = node[w[n - 1]].mpPrev
        /\ node'[TailNode].mpPrev = x
        /\ \A a \in Addresses \ {x, w[n - 1], TailNode} : node'[a] = node[a]
    BY <1>6, <1>8, <1>10
  <2> QED
    BY <1>11, <1>12, <2>1, AddedIs
<1>14. \A a \in Addresses \ {x} : node'[a].mValue = node[a].mValue
  BY <1>8, <1>10
<1> QED
  BY <1>10, <1>12, <1>13, <1>14

LEMMA pop_frontIs ==
    ASSUME NEW n, NEW w, Linked(node, n, w), pop_front, n # 1
    PROVE  /\ Linked(node', n - 1, Without(n, w, 1)) /\ w[1] \in Addresses
           /\ \A a \in Addresses \ {w[1]} : node'[a].mValue = node[a].mValue
           /\ mnSize' = mnSize - 1 /\ iter' = IF iter = w[1] THEN Gone ELSE iter
<1>0. /\ n \in Nat /\ n # 0 /\ w \in [0 .. n -> Addresses] /\ node \in [Addresses -> list_node]
      /\ w[0] = HeadNode /\ \A j, k \in 0 .. n : w[j] = w[k] => j = k
      /\ \A k \in 0 .. n - 1 : node[w[k]].mpNext = w[k + 1]
  BY LinkedIs
<1>1. ~empty /\ node[HeadNode].mpNext = w[1]
  BY NodesAre
<1>2. /\ 1 \in 1 .. n - 1 /\ 1 \in 0 .. n - 1 /\ 1 \in 0 .. n /\ 2 \in 0 .. n /\ 0 \in 0 .. n
      /\ 1 - 1 = 0 /\ 1 + 1 = 2
  BY <1>0
<1>3. node[w[1]].mpNext = w[2]
  BY <1>0, <1>2
<1>4. PICK p \in Addresses, x \in Addresses, q \in Addresses :
         p = HeadNode /\ x = w[1] /\ q = w[2] /\ p # x /\ x # q /\ p # q
  BY <1>0, <1>2
<1>5. /\ node' = [node EXCEPT ![p].mpNext = q, ![q].mpPrev = p, ![x] = FreeNode]
      /\ mnSize' = mnSize - 1 /\ iter' = IF iter = w[1] THEN Gone ELSE iter
  BY <1>1, <1>3, <1>4 DEF pop_front, Goes
<1>6. /\ node'[x] = FreeNode /\ node'[p] = [node[p] EXCEPT !.mpNext = q] /\ node'[q] = [node[q] EXCEPT !.mpPrev = p]
      /\ \A a \in Addresses \ {p, x, q} : node'[a] = node[a]
      /\ DOMAIN node' = Addresses /\ node' = [a \in Addresses |-> node'[a]]
  BY <1>0, <1>4, <1>5
<1>7. node[p] \in list_node /\ node[q] \in list_node /\ FreeNode \in list_node
  BY <1>0, AddressesAre
<1>8. /\ node'[p].mpNext = q /\ node'[p].mpPrev = node[p].mpPrev /\ node'[p].mValue = node[p].mValue
      /\ node'[q].mpPrev = p /\ node'[q].mpNext = node[q].mpNext /\ node'[q].mValue = node[q].mValue
      /\ node'[p] \in list_node /\ node'[q] \in list_node
  BY <1>4, <1>6, <1>7 DEF list_node
<1>9. node' \in [Addresses -> list_node]
  <2>1. \A a \in Addresses : node'[a] \in list_node
    BY <1>0, <1>6, <1>7, <1>8
  <2> QED
    BY <1>6, <2>1
<1>10. Linked(node', n - 1, Without(n, w, 1))
  <2>1. PICK i \in 1 .. n - 1 : i = 1
    BY <1>2
  <2>2. i - 1 = 0 /\ i + 1 = 2
    BY <2>1
  <2>3. /\ node'[w[i]] = FreeNode
        /\ node'[w[i - 1]].mpNext = w[i + 1] /\ node'[w[i - 1]].mpPrev = node[w[i - 1]].mpPrev
        /\ node'[w[i + 1]].mpPrev = w[i - 1] /\ node'[w[i + 1]].mpNext = node[w[i + 1]].mpNext
        /\ \A a \in Addresses \ {w[i - 1], w[i], w[i + 1]} : node'[a] = node[a]
    BY <1>0, <1>4, <1>6, <1>8, <2>1, <2>2
  <2>4. Linked(node', n - 1, Without(n, w, i))
    BY <1>9, <2>3, TakenOut
  <2> QED
    BY <2>1, <2>4
<1>11. \A a \in Addresses \ {w[1]} : node'[a].mValue = node[a].mValue
  BY <1>4, <1>6, <1>8
<1> QED
  BY <1>4, <1>5, <1>10, <1>11

LEMMA eraseIs ==
    ASSUME NEW n, NEW w, Linked(node, n, w), erase
    PROVE  \E i \in 1 .. n - 1 :
              /\ iter = w[i] /\ iter' = w[i + 1] /\ mnSize' = mnSize - 1
              /\ Linked(node', n - 1, Without(n, w, i))
              /\ \A a \in Addresses : a # w[i] => node'[a].mValue = node[a].mValue
<1>0. n \in Nat /\ n # 0 /\ \A k \in 0 .. n - 1 : node[w[k]].mpNext = w[k + 1]
  BY LinkedIs
<1>1. iter \in ItemNodes /\ ItemNodes = {w[k] : k \in 1 .. n - 1} /\ (empty <=> n = 1)
  BY NodesAre DEF erase
<1>2. PICK i \in 1 .. n - 1 : iter = w[i]
  BY <1>1
<1>3. i \in 0 .. n - 1 /\ n # 1
  BY <1>0
<1>4. node' = Unlinked(node, w[i]) /\ iter' = node[w[i]].mpNext /\ mnSize' = mnSize - 1
  BY <1>1, <1>2, <1>3 DEF erase
<1>5. node[w[i]].mpNext = w[i + 1]
  BY <1>0, <1>3
<1>6. /\ Linked(Unlinked(node, w[i]), n - 1, Without(n, w, i))
      /\ \A a \in Addresses : a # w[i] => Unlinked(node, w[i])[a].mValue = node[a].mValue
  BY UnlinkedIs
<1> QED
  BY <1>2, <1>4, <1>5, <1>6
-----------------------------------------------------------------------------
(* clear.  A recursive function is what its equation says when there is    *)
(* one that fits; it is made from those that fit up to k.                  *)

Cleared(before) ==
    IF before.next = TailNode THEN before
    ELSE [links |-> Unlinked(before.links, before.next), next |-> before.links[before.next].mpNext]
Fits(f, k) ==
    /\ f = [j \in 0 .. k |-> f[j]]
    /\ f[0] = [links |-> node, next |-> node[HeadNode].mpNext]
    /\ \A j \in 1 .. k : f[j] = Cleared(f[j - 1])

LEMMA SomethingFits == \E f : Fits(f, MaxItems)
<1> DEFINE S == {k \in Nat : \E f : Fits(f, k)}
<1>1. 0 \in S
  <2> DEFINE f == [j \in 0 .. 0 |-> [links |-> node, next |-> node[HeadNode].mpNext]]
  <2>1. Fits(f, 0)
    BY DEF Fits
  <2> QED
    BY <2>1
<1>2. \A k \in 0 .. MaxItems - 1 : k \in S => k + 1 \in S
  <2> SUFFICES ASSUME NEW k \in 0 .. MaxItems - 1, NEW f, Fits(f, k) PROVE k + 1 \in S
    OBVIOUS
  <2>1. k \in Nat /\ k + 1 \in Nat
    BY DEF SimpleListAssumption
  <2> DEFINE g == [j \in 0 .. k + 1 |-> IF j = k + 1 THEN Cleared(f[k]) ELSE f[j]]
  <2>2. g = [j \in 0 .. k + 1 |-> g[j]]
    OBVIOUS
  <2>3. g[k + 1] = Cleared(f[k]) /\ \A j \in 0 .. k : g[j] = f[j]
    BY <2>1
  <2> HIDE DEF g
  <2>4. g[0] = [links |-> node, next |-> node[HeadNode].mpNext]
    BY <2>1, <2>3 DEF Fits
  <2>5. ASSUME NEW j \in 1 .. k + 1 PROVE g[j] = Cleared(g[j - 1])
    <3>1. CASE j = k + 1
      <4>1. j - 1 = k /\ k \in 0 .. k
        BY <2>1, <3>1
      <4> QED
        BY <2>3, <3>1, <4>1
    <3>2. CASE j # k + 1
      <4>1. j \in 1 .. k /\ j \in 0 .. k /\ j - 1 \in 0 .. k
        BY <2>1, <3>2
      <4>2. f[j] = Cleared(f[j - 1])
        BY <4>1 DEF Fits
      <4> QED
        BY <2>3, <4>1, <4>2
    <3> QED
      BY <3>1, <3>2
  <2>6. Fits(g, k + 1)
    BY <2>2, <2>4, <2>5 DEF Fits
  <2> QED
    BY <2>1, <2>6
<1>3. MaxItems \in Nat /\ MaxItems \in 0 .. MaxItems
  BY DEF SimpleListAssumption
<1> HIDE DEF S
<1>4. MaxItems \in S
  BY <1>1, <1>2, <1>3, ReachesAll
<1> QED
  BY <1>4 DEF S

LEMMA ClearingIs ==
    /\ Clearing[0] = [links |-> node, next |-> node[HeadNode].mpNext]
    /\ \A k \in 1 .. MaxItems : Clearing[k] = Cleared(Clearing[k - 1])
<1> DEFINE F(f) == [k \in 0 .. MaxItems |->
              IF k = 0 THEN [links |-> node, next |-> node[HeadNode].mpNext] ELSE Cleared(f[k - 1])]
<1>0. MaxItems \in Nat
  BY DEF SimpleListAssumption
<1>1. Clearing = CHOOSE f : f = F(f)
  BY DEF Clearing, Cleared
<1>2. PICK g : Fits(g, MaxItems)
  BY SomethingFits
<1>3. g = F(g)
  <2>1. g = [k \in 0 .. MaxItems |-> g[k]]
    BY <1>2 DEF Fits
  <2>2. ASSUME NEW k \in 0 .. MaxItems
        PROVE  g[k] = IF k = 0 THEN [links |-> node, next |-> node[HeadNode].mpNext] ELSE Cleared(g[k - 1])
    <3>1. k # 0 => k \in 1 .. MaxItems
      OBVIOUS
    <3> QED
      BY <1>2, <3>1 DEF Fits
  <2> QED
    BY <2>1, <2>2
<1> HIDE DEF F
<1>4. Clearing = F(Clearing)
  BY <1>1, <1>3
<1>5. \A k \in 0 .. MaxItems : Clearing[k] =
          IF k = 0 THEN [links |-> node, next |-> node[HeadNode].mpNext] ELSE Cleared(Clearing[k - 1])
  BY <1>4 DEF F
<1> QED
  BY <1>0, <1>5

LEMMA ClearingIsLinked ==
    ASSUME NEW n, NEW w, Linked(node, n, w)
    PROVE  \E v : Linked(Clearing[MaxItems].links, 1, v)
<1>0. n \in Nat /\ n # 0 /\ n \in 1 .. MaxItems + 1 /\ MaxItems \in Nat
  BY LinkedIs
<1> DEFINE left(k) == IF k < n THEN n - k ELSE 1
           S == {k \in 0 .. MaxItems : \E v : /\ Linked(Clearing[k].links, left(k), v)
                                              /\ Clearing[k].next = v[1]}
<1>1. 0 \in S
  <2>1. Clearing[0].links = node /\ Clearing[0].next = w[1] /\ left(0) = n
    BY <1>0, ClearingIs, NodesAre
  <2> QED
    BY <1>0, <2>1
<1>2. \A k \in 0 .. MaxItems - 1 : k \in S => k + 1 \in S
  <2> SUFFICES ASSUME NEW k \in 0 .. MaxItems - 1, NEW v,
                      Linked(Clearing[k].links, left(k), v), Clearing[k].next = v[1]
               PROVE  k + 1 \in S
    OBVIOUS
  <2>1. k \in Nat /\ k + 1 \in 1 .. MaxItems /\ k + 1 \in 0 .. MaxItems /\ (k + 1) - 1 = k
    BY <1>0
  <2>2. PICK links, m : links = Clearing[k].links /\ m = left(k)
    OBVIOUS
  <2>3. Clearing[k + 1] = Cleared(Clearing[k])
    <3>1. Clearing[k + 1] = Cleared(Clearing[(k + 1) - 1])
      BY <2>1, ClearingIs
    <3> QED
      BY <2>1, <3>1
  <2>4. /\ Linked(links, m, v) /\ Clearing[k].next = v[1]
        /\ m \in Nat /\ m # 0 /\ v[m] = TailNode /\ \A i, j \in 0 .. m : v[i] = v[j] => i = j
        /\ \A j \in 0 .. m - 1 : links[v[j]].mpNext = v[j + 1]
    <3>1. Linked(links, m, v) /\ Clearing[k].next = v[1]
      BY <2>2
    <3>2. /\ m \in Nat /\ m # 0 /\ v[m] = TailNode /\ \A i, j \in 0 .. m : v[i] = v[j] => i = j
          /\ \A j \in 0 .. m - 1 : links[v[j]].mpNext = v[j + 1]
      BY ONLY <3>1, LinkedIs
    <3> QED
      BY <3>1, <3>2
  <2>5. CASE m = 1
    <3>1. left(k + 1) = 1
      BY <1>0, <2>1, <2>2, <2>5
    <3>2. Clearing[k + 1] = Clearing[k]
      BY <2>3, <2>4, <2>5 DEF Cleared
    <3> QED
      BY <2>1, <2>2, <2>4, <2>5, <3>1, <3>2
  <2>6. CASE m # 1
    <3>1. left(k + 1) = m - 1
      BY <1>0, <2>1, <2>2, <2>6
    <3>2. PICK i \in 1 .. m - 1 : i = 1
      BY <2>4, <2>6
    <3>3. i \in 0 .. m - 1 /\ 1 \in 0 .. m /\ m \in 0 .. m /\ 1 \in 0 .. m - 1 /\ 1 + 1 = 2
      BY <2>4, <3>2
    <3>4. v[1] # TailNode
      BY <2>4, <2>6, <3>3
    <3>5. links[v[1]].mpNext = v[2]
      BY <2>4, <3>3
    <3>6. Clearing[k + 1].links = Unlinked(links, v[i]) /\ Clearing[k + 1].next = v[2]
      BY <2>2, <2>3, <2>4, <3>2, <3>4, <3>5 DEF Cleared
    <3>7. Linked(Unlinked(links, v[i]), m - 1, Without(m, v, i))
      BY <2>4, UnlinkedIs
    <3>8. Without(m, v, i)[1] = v[2]
      <4>1. 1 \in 0 .. m - 1 /\ ~(1 < i) /\ 1 + 1 = 2
        BY <3>2, <3>3
      <4> QED
        BY <4>1 DEF Without
    <3> QED
      BY <2>1, <3>1, <3>6, <3>7, <3>8
  <2> QED
    BY <2>5, <2>6
<1>3. MaxItems \in 0 .. MaxItems /\ left(MaxItems) = 1
  BY <1>0
<1> HIDE DEF S, left
<1>4. MaxItems \in S
  BY <1>0, <1>1, <1>2, <1>3, ReachesAll
<1> QED
  BY <1>3, <1>4 DEF S

LEMMA clearIs ==
    ASSUME NEW n, NEW w, ListIs(n, w), clear
    PROVE  /\ \E v : Linked(node', 1, v)
           /\ mnSize' = 0 /\ iter' = IF iter = TailNode THEN TailNode ELSE Gone
<1>0. Linked(node, n, w) /\ mnSize = n - 1 /\ iter \in {w[k] : k \in 1 .. n} \cup {Gone}
  BY DEF ListIs
<1>1. n \in Nat /\ n # 0 /\ w[n] = TailNode /\ w \in [0 .. n -> Addresses] /\ \A j, k \in 0 .. n : w[j] = w[k] => j = k
  BY <1>0, LinkedIs
<1>2. (empty <=> n = 1) /\ ItemNodes = {w[k] : k \in 1 .. n - 1}
  BY <1>0, NodesAre
<1>3. \E v : Linked(node', 1, v)
  BY <1>0, ClearingIsLinked DEF clear
<1>4. mnSize' = 0
  BY <1>0, <1>1, <1>2 DEF clear
<1>5. iter \in ItemNodes <=> iter \notin {TailNode, Gone}
  <2>1. \A k \in 1 .. n : k \in 0 .. n /\ (k = n \/ k \in 1 .. n - 1) /\ w[k] \in Addresses
    BY <1>1
  <2>2. \A k \in 1 .. n - 1 : k \in 0 .. n /\ k # n /\ w[k] \in Addresses
    BY <1>1
  <2>3. n \in 0 .. n
    BY <1>1
  <2> QED
    BY <1>0, <1>1, <1>2, <2>1, <2>2, <2>3, AddressesAre
<1> QED
  BY <1>3, <1>4, <1>5 DEF clear
LEMMA findIs ==
    ASSUME NEW n, NEW w, Linked(node, n, w), NEW v, find(v)
    PROVE  \E k \in 1 .. n :
              /\ iter' = w[k] /\ (k = n \/ node[w[k]].mValue = v)
              /\ \A j \in 1 .. k - 1 : node[w[j]].mValue # v
<1>0. /\ n \in Nat /\ n # 0 /\ n \in 1 .. MaxItems + 1 /\ MaxItems \in Nat /\ w[n] = TailNode
      /\ \A j, k \in 0 .. n : w[j] = w[k] => j = k
  BY LinkedIs
<1>1. \A k \in 1 .. n : Walk[k] = w[k] /\ k \in 0 .. n
  <2>1. Walk = CHOOSE f : f = Along(node, f)
    BY DEF Walk, Along
  <2>2. \A k \in 0 .. MaxItems + 1 : Walk[k] = IF k <= n THEN w[k] ELSE TailNode
    BY <2>1, WalkIs
  <2>3. \A k \in 1 .. n : k \in 0 .. MaxItems + 1 /\ k <= n /\ k \in 0 .. n
    BY <1>0
  <2> QED
    BY <2>2, <2>3
<1> DEFINE hits == {k \in 1 .. MaxItems + 1 : Walk[k] = TailNode \/ node[Walk[k]].mValue = v}
           c == CHOOSE k \in hits : \A j \in hits : k <= j
<1>2. n \in hits
  BY <1>0, <1>1
<1>3. hits \in SUBSET Nat /\ hits # {}
  BY <1>0, <1>2
<1>4. \E k \in hits : \A j \in hits : k <= j
  BY <1>3, LeastOf
<1>5. c \in hits /\ \A j \in hits : c <= j
  BY <1>4
<1>6. c \in 1 .. n /\ c \in hits
  <2>0. c <= n /\ c \in 1 .. MaxItems + 1
    BY <1>2, <1>5
  <2> HIDE DEF c, hits
  <2>1. c \in Nat /\ c >= 1 /\ c <= n
    BY ONLY <1>1, <2>0
  <2>2. c \in 1 .. n
    BY <1>0, <2>1
  <2> QED
    BY <1>5, <2>2 DEF c
<1>7. iter' = Walk[c]
  BY DEF find, FirstFrom
<1>8. \A j \in 1 .. c - 1 : j \notin hits
  <2> SUFFICES ASSUME NEW j \in 1 .. c - 1, j \in hits PROVE FALSE
    OBVIOUS
  <2>1. c <= j
    BY <1>5
  <2> HIDE DEF c
  <2> QED
    BY <1>6, <2>1
<1> HIDE DEF c
<1>9. \A j \in 1 .. c - 1 : j \in 1 .. n /\ j \in 1 .. MaxItems + 1
  BY <1>0, <1>6
<1>10. \A j \in 1 .. c - 1 : node[w[j]].mValue # v
  BY <1>1, <1>8, <1>9
<1>11. c = n \/ node[w[c]].mValue = v
  <2>1. w[c] = TailNode => c = n
    <3>1. c \in 0 .. n /\ n \in 0 .. n
      BY <1>0, <1>6
    <3> QED
      BY <1>0, <3>1
  <2> QED
    BY <1>1, <1>6, <2>1
<1> QED
  BY <1>1, <1>6, <1>7, <1>10, <1>11

-----------------------------------------------------------------------------
(* Every call keeps the nodes linked, except push_front.                   *)

LEMMA ListIsKept ==
    ASSUME NEW n, NEW w, Linked(node', n, w), mnSize' = n - 1,
           iter' \in {w[k] : k \in 1 .. n} \cup {Gone}
    PROVE  ListInv'
<1>1. n \in 1 .. MaxItems + 1 /\ w \in [0 .. n -> Addresses]
  BY LinkedIs
<1> QED
  BY <1>1 DEF ListInv, ListIs

LEMMA WithoutIs ==
    ASSUME NEW n \in Nat, NEW w, NEW i \in 1 .. n - 1
    PROVE  \A k \in 1 .. n : k # i => \E j \in 1 .. n - 1 : Without(n, w, i)[j] = w[k]
<1> SUFFICES ASSUME NEW k \in 1 .. n, k # i PROVE \E j \in 1 .. n - 1 : Without(n, w, i)[j] = w[k]
  OBVIOUS
<1>1. CASE k < i
  <2>1. k \in 1 .. n - 1 /\ k \in 0 .. n - 1
    BY <1>1
  <2> QED
    BY <1>1, <2>1 DEF Without
<1>2. CASE ~(k < i)
  <2>1. k - 1 \in 1 .. n - 1 /\ k - 1 \in 0 .. n - 1 /\ ~(k - 1 < i) /\ (k - 1) + 1 = k
    BY <1>2
  <2>2. Without(n, w, i)[k - 1] = w[(k - 1) + 1]
    BY <2>1 DEF Without
  <2> QED
    BY <2>1, <2>2
<1> QED
  BY <1>1, <1>2

LEMMA ListGoesOn == ~UsesPushFront /\ ListInv /\ (ListNext \/ UNCHANGED listVars) => ListInv'
<1> SUFFICES ASSUME ~UsesPushFront, ListInv, ListNext \/ UNCHANGED listVars PROVE ListInv'
  OBVIOUS
<1>0. PICK n \in 1 .. MaxItems + 1 : \E w \in [0 .. n -> Addresses] : ListIs(n, w)
  BY DEF ListInv
<1>00. PICK w \in [0 .. n -> Addresses] : ListIs(n, w)
  BY <1>0
<1>1. /\ Linked(node, n, w) /\ mnSize = n - 1 /\ iter \in {w[k] : k \in 1 .. n} \cup {Gone}
      /\ n \in Nat /\ n # 0 /\ w[n] = TailNode /\ MaxItems \in Nat
      /\ \A j, k \in 0 .. n : w[j] = w[k] => j = k
  BY <1>00, LinkedIs DEF ListIs
<1>2. 1 \in 1 .. n /\ \A k \in 1 .. n - 1 : k \in 1 .. n /\ k + 1 \in 1 .. n /\ k \in 0 .. n - 1
  BY <1>1
<1>3. ItemNodes = {w[k] : k \in 1 .. n - 1} /\ node[HeadNode].mpNext = w[1] /\ (empty <=> n = 1)
  <2>1. Linked(node, n, w)
    BY <1>1
  <2> QED
    BY <2>1, NodesAre
<1>4. CASE UNCHANGED <<node, mnSize>> /\ iter' \in {w[k] : k \in 1 .. n} \cup {Gone}
  BY <1>1, <1>4, ListIsKept
<1>5. CASE UNCHANGED listVars
  BY <1>1, <1>4, <1>5 DEF listVars
<1>6. ASSUME NEW v \in Items, push_back(v) PROVE ListInv'
  <2>1. PICK x \in Addresses : Linked(node', n + 1, Added(n, w, x))
    BY <1>1, <1>6, push_backIs
  <2>2. mnSize' = (n + 1) - 1 /\ iter' = iter
    BY <1>1, <1>6 DEF push_back
  <2>3. ASSUME NEW k \in 1 .. n PROVE \E j \in 1 .. n + 1 : w[k] = Added(n, w, x)[j]
    <3>1. CASE k = n
      <4>1. n + 1 \in 0 .. n + 1 /\ n + 1 \in 1 .. n + 1 /\ ~(n + 1 < n) /\ n + 1 # n
        BY <1>1
      <4>2. Added(n, w, x)[n + 1] = TailNode
        BY <4>1 DEF Added
      <4> QED
        BY <1>1, <3>1, <4>1, <4>2
    <3>2. CASE k # n
      <4>1. k \in 0 .. n + 1 /\ k \in 1 .. n + 1 /\ k < n
        BY <1>1, <3>2
      <4> QED
        BY <4>1 DEF Added
    <3> QED
      BY <3>1, <3>2
  <2> QED
    BY <1>1, <2>1, <2>2, <2>3, ListIsKept
<1>7. ASSUME NEW v \in Items, find(v) PROVE ListInv'
  <2>1. PICK k \in 1 .. n : iter' = w[k]
    BY <1>1, <1>7, findIs
  <2> QED
    BY <1>4, <1>7, <2>1 DEF find
<1>8. CASE pop_front
  <2>1. CASE n = 1
    <3>1. UNCHANGED <<node, mnSize, iter>>
      BY <1>3, <1>8, <2>1 DEF pop_front
    <3> QED
      BY <1>1, <1>4, <3>1
  <2>2. CASE n # 1
    <3>1. /\ Linked(node', n - 1, Without(n, w, 1)) /\ mnSize' = (n - 1) - 1
          /\ iter' = IF iter = w[1] THEN Gone ELSE iter
      BY <1>1, <1>8, <2>2, pop_frontIs
    <3>2. 1 \in 1 .. n - 1
      BY <1>1, <2>2
    <3>3. \A k \in 1 .. n : k # 1 => \E j \in 1 .. n - 1 : Without(n, w, 1)[j] = w[k]
      BY <1>1, <3>2, WithoutIs
    <3>4. iter' \in {Without(n, w, 1)[j] : j \in 1 .. n - 1} \cup {Gone}
      <4>1. CASE iter = Gone \/ iter = w[1]
        BY <3>1, <4>1
      <4>2. ASSUME NEW k \in 1 .. n, iter = w[k], iter # w[1]
            PROVE  iter' \in {Without(n, w, 1)[j] : j \in 1 .. n - 1}
        BY <3>1, <3>3, <4>2
      <4> QED
        BY <1>1, <4>1, <4>2
    <3> QED
      BY <3>1, <3>4, ListIsKept
  <2> QED
    BY <2>1, <2>2
<1>9. CASE erase
  <2>1. PICK i \in 1 .. n - 1 :
           iter' = w[i + 1] /\ mnSize' = (n - 1) - 1 /\ Linked(node', n - 1, Without(n, w, i))
    BY <1>1, <1>9, eraseIs
  <2>2. i + 1 \in 1 .. n /\ i + 1 # i
    BY <1>1
  <2>3. \E j \in 1 .. n - 1 : Without(n, w, i)[j] = w[i + 1]
    BY <1>1, <2>2, WithoutIs
  <2> QED
    BY <2>1, <2>3, ListIsKept
<1>10. CASE clear
  <2>1. /\ \E v : Linked(node', 1, v)
        /\ mnSize' = 0 /\ iter' = IF iter = TailNode THEN TailNode ELSE Gone
    BY <1>00, <1>10, clearIs
  <2>2. PICK v : Linked(node', 1, v)
    BY <2>1
  <2>3. v[1] = TailNode /\ 1 \in 1 .. 1 /\ mnSize' = 1 - 1
    BY <2>1, <2>2, LinkedIs
  <2>4. iter' \in {v[j] : j \in 1 .. 1} \cup {Gone}
    BY <2>1, <2>3
  <2> QED
    BY <2>2, <2>3, <2>4, ListIsKept
<1>11. CASE begin
  BY <1>2, <1>3, <1>4, <1>11 DEF begin
<1>12. CASE increment
  <2>1. PICK k \in 1 .. n - 1 : iter = w[k]
    BY <1>3, <1>12 DEF increment
  <2>2. node[w[k]].mpNext = w[k + 1]
    <3>1. n \in Nat /\ \A j \in 0 .. n - 1 : node[w[j]].mpNext = w[j + 1]
      <4>1. Linked(node, n, w)
        BY <1>1
      <4>2. \A j \in 0 .. n - 1 : node[w[j]].mpNext = w[j + 1] /\ node[w[j + 1]].mpPrev = w[j]
        BY ONLY <4>1 DEF Linked
      <4>3. n \in Nat
        BY <1>2
      <4> QED
        BY ONLY <4>2, <4>3
    <3>2. k \in 0 .. n - 1
      BY <3>1
    <3> QED
      BY <3>1, <3>2
  <2> QED
    BY <1>2, <1>4, <1>12, <2>1, <2>2 DEF increment
<1>13. CASE ask
  BY <1>1, <1>4, <1>13 DEF ask
<1> QED
  BY <1>5, <1>6, <1>7, <1>8, <1>9, <1>10, <1>11, <1>12, <1>13 DEF ListNext

LEMMA ListBegins == ListInit => ListInv
<1> SUFFICES ASSUME ListInit PROVE ListInv
  OBVIOUS
<1> DEFINE w == [k \in 0 .. 1 |-> IF k = 0 THEN HeadNode ELSE TailNode]
<1>0. MaxItems \in Nat /\ 1 \in 1 .. MaxItems + 1
  BY DEF SimpleListAssumption
<1>1. w \in [0 .. 1 -> Addresses] /\ w[0] = HeadNode /\ w[1] = TailNode /\ w[0] # w[1] /\ w[0 + 1] = TailNode
  BY AddressesAre
<1> HIDE DEF w
<1>2. /\ node[HeadNode] = [mValue |-> NoItem, mpPrev |-> TailNode, mpNext |-> TailNode]
      /\ node[TailNode] = [mValue |-> NoItem, mpPrev |-> HeadNode, mpNext |-> HeadNode]
      /\ \A a \in Addresses : a # HeadNode /\ a # TailNode => node[a] = FreeNode
      /\ node = [a \in Addresses |-> node[a]]
  BY AddressesAre DEF ListInit, simple_list
<1>3. node \in [Addresses -> list_node]
  <2>1. \A a \in Addresses : node[a] \in list_node
    BY <1>2, AddressesAre DEF list_node
  <2> QED
    BY <1>2, <2>1
<1>4. \A k \in 0 .. 1 : k = 0 \/ k = 1
  OBVIOUS
<1>5. \A j, k \in 0 .. 1 : w[j] = w[k] => j = k
  BY <1>1, <1>4
<1>6. \A k \in 0 .. 1 - 1 : node[w[k]].mpNext = w[k + 1] /\ node[w[k + 1]].mpPrev = w[k]
  <2>1. \A k \in 0 .. 1 - 1 : k = 0
    OBVIOUS
  <2>2. node[w[0]].mpNext = w[0 + 1] /\ node[w[0 + 1]].mpPrev = w[0]
    BY <1>1, <1>2
  <2> QED
    BY <2>1, <2>2
<1>7. \A a \in Addresses : (\A k \in 0 .. 1 : w[k] # a) => node[a] = FreeNode
  BY <1>1, <1>2, <1>4
<1>8. Linked(node, 1, w)
  BY <1>0, <1>1, <1>3, <1>5, <1>6, <1>7 DEF Linked
<1>9. mnSize = 1 - 1 /\ iter = Gone
  BY DEF ListInit
<1>10. ListIs(1, w)
  BY <1>8, <1>9 DEF ListIs
<1> QED
  BY <1>0, <1>1, <1>10 DEF ListInv
-----------------------------------------------------------------------------
(* What the runs check of a list that is linked.                           *)

LEMMA StepsToIs ==
    ASSUME NEW walk, NEW end, NEW n \in 1 .. MaxItems + 1, walk[n] = end, \A j \in 0 .. n - 1 : walk[j] # end
    PROVE  StepsTo(walk, end) = n
<1> DEFINE P(k) == /\ walk[k] = end \/ k = MaxItems + 1
                   /\ \A j \in 0 .. k - 1 : walk[j] # end
           c == CHOOSE k \in 0 .. MaxItems + 1 : P(k)
<1>0. MaxItems \in Nat /\ n \in Nat /\ n \in 0 .. MaxItems + 1
  BY DEF SimpleListAssumption
<1>1. P(n)
  OBVIOUS
<1>2. StepsTo(walk, end) = c
  BY DEF StepsTo
<1>3. c \in 0 .. MaxItems + 1 /\ P(c)
  BY <1>0, <1>1
<1>4. /\ walk[c] = end \/ c = MaxItems + 1
      /\ \A j \in 0 .. c - 1 : walk[j] # end
  BY <1>3
<1> HIDE DEF c
<1>5. ~(c < n)
  <2>1. c < n => c \in 0 .. n - 1 /\ c # MaxItems + 1
    BY <1>0, <1>3
  <2> QED
    BY <1>4, <2>1
<1>6. ~(c > n)
  <2>1. c > n => n \in 0 .. c - 1
    BY <1>0, <1>3
  <2> QED
    BY <1>4, <2>1
<1> QED
  BY <1>0, <1>2, <1>3, <1>5, <1>6

LEMMA WalksAre ==
    ASSUME NEW n, NEW w, Linked(node, n, w)
    PROVE  /\ \A k \in 0 .. n : Walk[k] = w[k] /\ WalkBack[k] = w[n - k]
           /\ StepsTo(Walk, TailNode) = n /\ StepsTo(WalkBack, HeadNode) = n
<1>0. /\ n \in Nat /\ n # 0 /\ n \in 1 .. MaxItems + 1 /\ MaxItems \in Nat /\ w[0] = HeadNode /\ w[n] = TailNode
      /\ \A j, k \in 0 .. n : w[j] = w[k] => j = k
  BY LinkedIs
<1>1. \A k \in 0 .. n : k \in 0 .. MaxItems + 1 /\ k <= n
  BY <1>0
<1>2. \A k \in 0 .. n : Walk[k] = w[k]
  <2>1. Walk = CHOOSE f : f = Along(node, f)
    BY DEF Walk, Along
  <2>2. \A k \in 0 .. MaxItems + 1 : Walk[k] = IF k <= n THEN w[k] ELSE TailNode
    BY <2>1, WalkIs
  <2> QED
    BY <1>1, <2>2
<1>3. \A k \in 0 .. n : WalkBack[k] = w[n - k]
  <2>1. WalkBack = CHOOSE f : f = AlongBack(node, f)
    BY DEF WalkBack, AlongBack
  <2>2. \A k \in 0 .. MaxItems + 1 : WalkBack[k] = IF k <= n THEN w[n - k] ELSE HeadNode
    BY <2>1, WalkBackIs
  <2> QED
    BY <1>1, <2>2
<1>4. n \in 0 .. n /\ 0 \in 0 .. n /\ n - n = 0 /\ \A j \in 0 .. n - 1 : j \in 0 .. n /\ j # n /\ n - j \in 0 .. n /\ n - j # 0
  BY <1>0
<1>5. StepsTo(Walk, TailNode) = n
  <2>1. Walk[n] = TailNode /\ \A j \in 0 .. n - 1 : Walk[j] # TailNode
    BY <1>0, <1>2, <1>4
  <2> QED
    BY <1>0, <2>1, StepsToIs
<1>6. StepsTo(WalkBack, HeadNode) = n
  <2>1. WalkBack[n] = HeadNode /\ \A j \in 0 .. n - 1 : WalkBack[j] # HeadNode
    BY <1>0, <1>3, <1>4
  <2> QED
    BY <1>0, <2>1, StepsToIs
<1> QED
  BY <1>2, <1>3, <1>5, <1>6

LEMMA ListInvKeeps == ListInv => ListTypeOK /\ NodesAreLinkedBothWays
<1> SUFFICES ASSUME ListInv PROVE ListTypeOK /\ NodesAreLinkedBothWays
  OBVIOUS
<1>0. PICK n \in 1 .. MaxItems + 1 : \E w \in [0 .. n -> Addresses] : ListIs(n, w)
  BY DEF ListInv
<1>1. PICK w \in [0 .. n -> Addresses] : ListIs(n, w)
  BY <1>0
<1>2. Linked(node, n, w) /\ mnSize = n - 1 /\ iter \in {w[k] : k \in 1 .. n} \cup {Gone}
  BY <1>1 DEF ListIs
<1>3. n \in Nat /\ n # 0 /\ MaxItems \in Nat /\ w[n] = TailNode /\ node \in [Addresses -> list_node]
  BY <1>2, LinkedIs
<1>4. ItemNodes = {w[k] : k \in 1 .. n - 1}
  BY <1>2, NodesAre
<1>5. ListTypeOK
  <2>1. \A k \in 1 .. n : k = n \/ k \in 1 .. n - 1
    BY <1>3
  <2>2. iter \in ItemNodes \cup {TailNode, Gone}
    BY <1>2, <1>3, <1>4, <2>1
  <2>3. mnSize \in 0 .. MaxItems
    BY <1>2, <1>3
  <2> QED
    BY <1>3, <2>2, <2>3 DEF ListTypeOK
<1>6. NodesAreLinkedBothWays
  <2>1. StepsTo(Walk, TailNode) = n /\ StepsTo(WalkBack, HeadNode) = n
    BY <1>2, WalksAre
  <2>2. Cardinality(ItemNodes) = n - 1
    <3>1. ItemNodes = ItemsOf(node)
      BY DEF ItemNodes, ItemsOf, FreeNodes
    <3> QED
      BY <1>2, <3>1, ItemsOfAre
  <2>3. ASSUME NEW k \in 0 .. n PROVE Walk[k] = WalkBack[n - k]
    <3>1. n - k \in 0 .. n /\ n - (n - k) = k
      BY <1>3
    <3>2. WalkBack[n - k] = w[n - (n - k)]
      BY <1>2, <3>1, WalksAre
    <3> QED
      BY <1>2, <3>1, <3>2, WalksAre
  <2> QED
    BY <1>3, <2>1, <2>2, <2>3 DEF NodesAreLinkedBothWays
<1> QED
  BY <1>5, <1>6

-----------------------------------------------------------------------------
\* The pointers, lists and storages are exact, for any number of threads,
\* pointers, items, storages and keys; of the lists this supposes a program that
\* does not call push_front, which leaves a node that is not linked back.
THEOREM DataStructuresAreExact == ~UsesPushFront => (Spec => []StructuresAreExact)
<1> SUFFICES ASSUME ~UsesPushFront PROVE Spec => []StructuresAreExact
  OBVIOUS
<1>1. Init => SharedInv /\ ListInv /\ StorageInv
  BY SharedBegins, ListBegins, StorageBegins DEF Init
<1>2. SharedInv /\ ListInv /\ StorageInv /\ [Next]_allVars => (SharedInv /\ ListInv /\ StorageInv)'
  <2> SUFFICES ASSUME SharedInv, ListInv, StorageInv, [Next]_allVars PROVE (SharedInv /\ ListInv /\ StorageInv)'
    OBVIOUS
  <2>1. /\ SharedNext \/ UNCHANGED sharedVars
        /\ ListNext \/ UNCHANGED listVars
        /\ StorageNext \/ UNCHANGED storageVars
    BY DEF Next, allVars
  <2> QED
    BY <2>1, SharedGoesOn, ListGoesOn, StorageGoesOn
<1>3. SharedInv /\ ListInv /\ StorageInv => StructuresAreExact
  BY SharedInvKeeps, ListInvKeeps, StorageInvKeeps, KeysAreCounted DEF StructuresAreExact
<1> QED
  BY <1>1, <1>2, <1>3, PTL DEF Spec
-----------------------------------------------------------------------------
(* The sequence of items that a list shows.                                *)

Shown(links, n, w) == [k \in 1 .. n - 1 |-> links[w[k]].mValue]
ItemValues == Items \cup {NoItem}

LEMMA ShownAre ==
    ASSUME NEW links, NEW n, NEW w, Linked(links, n, w)
    PROVE  /\ Shown(links, n, w) \in Seq(ItemValues) /\ Len(Shown(links, n, w)) = n - 1
           /\ \A k \in 1 .. n - 1 : Shown(links, n, w)[k] = links[w[k]].mValue /\ links[w[k]].mValue \in ItemValues
           /\ Shown(links, n, w) = <<>> <=> n = 1
<1>1. n \in Nat /\ n # 0 /\ w \in [0 .. n -> Addresses] /\ links \in [Addresses -> list_node]
  BY LinkedIs
<1>2. \A k \in 1 .. n - 1 : links[w[k]].mValue \in ItemValues
  BY <1>1 DEF list_node, ItemValues
<1>3. PICK m \in Nat : m = n - 1
  BY <1>1
<1>4. Shown(links, n, w) \in [1 .. m -> ItemValues]
  BY <1>2, <1>3 DEF Shown
<1>5. Shown(links, n, w) \in Seq(ItemValues) /\ Len(Shown(links, n, w)) = m
  BY <1>3, <1>4
<1>6. Shown(links, n, w) = <<>> <=> Len(Shown(links, n, w)) = 0
  BY <1>5, EmptySeq
<1>7. \A k \in 1 .. n - 1 : Shown(links, n, w)[k] = links[w[k]].mValue
  BY DEF Shown
<1> HIDE DEF Shown
<1> QED
  BY <1>1, <1>2, <1>3, <1>5, <1>6, <1>7

LEMMA ListShows ==
    \A n \in 1 .. MaxItems + 1 : \A w \in [0 .. n -> Addresses] : Linked(node, n, w) =>
        /\ Contents = Shown(node, n, w)
        /\ iter = Gone => Position = 0
        /\ \A k \in 1 .. n : iter = w[k] => Position = k
<1> SUFFICES ASSUME NEW n \in 1 .. MaxItems + 1, NEW w \in [0 .. n -> Addresses], Linked(node, n, w)
             PROVE  /\ Contents = Shown(node, n, w)
                    /\ iter = Gone => Position = 0
                    /\ \A k \in 1 .. n : iter = w[k] => Position = k
  OBVIOUS
<1>0. n \in Nat /\ n # 0 /\ MaxItems \in Nat /\ \A j, k \in 0 .. n : w[j] = w[k] => j = k
  BY LinkedIs
<1>1. StepsTo(Walk, TailNode) = n /\ \A k \in 0 .. n : Walk[k] = w[k]
  BY WalksAre
<1>2. \A k \in 1 .. n - 1 : k \in 0 .. n
  BY <1>0
<1>3. Contents = Shown(node, n, w)
  BY <1>1, <1>2 DEF Contents, Shown
<1>4. ASSUME NEW k \in 1 .. n, iter = w[k] PROVE Position = k
  <2> DEFINE P(j) == /\ Walk[j] = iter \/ j = MaxItems + 1
                     /\ \A i \in 1 .. j - 1 : Walk[i] # iter
             c == CHOOSE j \in 1 .. MaxItems + 1 : P(j)
  <2>1. k \in 1 .. MaxItems + 1 /\ k \in 0 .. n /\ \A i \in 1 .. k - 1 : i \in 0 .. n /\ i # k
    BY <1>0
  <2>2. Walk[k] = iter /\ \A i \in 1 .. k - 1 : Walk[i] # iter
    BY <1>0, <1>1, <1>4, <2>1
  <2>3. P(k)
    BY <2>2
  <2>4. c \in 1 .. MaxItems + 1 /\ P(c)
    BY <2>1, <2>3
  <2>5. /\ Walk[c] = iter \/ c = MaxItems + 1
        /\ \A i \in 1 .. c - 1 : Walk[i] # iter
    BY <2>4
  <2>6. Position = c
    <3>1. iter # Gone
      BY <1>4, AddressesAre, <2>1
    <3> QED
      BY <3>1 DEF Position
  <2> HIDE DEF c
  <2>7. ~(c < k)
    <3>1. c < k => c \in 1 .. k - 1 /\ c # MaxItems + 1
      BY <1>0, <2>1, <2>4
    <3> QED
      BY <2>2, <2>5, <3>1
  <2>8. ~(c > k)
    <3>1. c > k => k \in 1 .. c - 1
      BY <1>0, <2>1, <2>4
    <3> QED
      BY <2>2, <2>5, <3>1
  <2> QED
    BY <1>0, <2>4, <2>6, <2>7, <2>8
<1>5. iter = Gone => Position = 0
  BY DEF Position
<1> QED
  BY <1>3, <1>4, <1>5

LEMMA ListShowsNext ==
    (\A n \in 1 .. MaxItems + 1 : \A w \in [0 .. n -> Addresses] : Linked(node, n, w) =>
        /\ Contents = Shown(node, n, w)
        /\ iter = Gone => Position = 0
        /\ \A k \in 1 .. n : iter = w[k] => Position = k)'
  BY ListShows, PTL

LEMMA ThenShows ==
    ASSUME NEW n, NEW w, Linked(node', n, w)
    PROVE  /\ Contents' = Shown(node', n, w)
           /\ iter' = Gone => Position' = 0
           /\ \A k \in 1 .. n : iter' = w[k] => Position' = k
<1>1. n \in 1 .. MaxItems + 1 /\ w \in [0 .. n -> Addresses]
  BY LinkedIs
<1> QED
  BY <1>1, ListShowsNext

LEMMA NowShows ==
    ASSUME NEW n, NEW w, Linked(node, n, w)
    PROVE  /\ Contents = Shown(node, n, w)
           /\ iter = Gone => Position = 0
           /\ \A k \in 1 .. n : iter = w[k] => Position = k
<1>1. n \in 1 .. MaxItems + 1 /\ w \in [0 .. n -> Addresses]
  BY LinkedIs
<1> QED
  BY <1>1, ListShows
LEMMA ShowsSequence ==
    ASSUME NEW n, NEW w, ListIs(n, w)
    PROVE  /\ Contents = Shown(node, n, w) /\ Contents \in Seq(ItemValues) /\ Len(Contents) = n - 1
           /\ Contents = <<>> <=> n = 1
           /\ \A k \in 1 .. n - 1 : Contents[k] = node[w[k]].mValue /\ node[w[k]].mValue \in ItemValues
           /\ \E p \in 0 .. n : Position = p /\ iter = IF p = 0 THEN Gone ELSE w[p]
           /\ n \in Nat /\ n # 0 /\ \A j, k \in 1 .. n : w[j] = w[k] => j = k
           /\ \A k \in 1 .. n : w[k] # Gone
<1>1. Linked(node, n, w) /\ iter \in {w[k] : k \in 1 .. n} \cup {Gone}
  BY DEF ListIs
<1>2. /\ Contents = Shown(node, n, w) /\ (iter = Gone => Position = 0)
      /\ \A k \in 1 .. n : iter = w[k] => Position = k
  BY <1>1, NowShows
<1>3. n \in Nat /\ n # 0 /\ w \in [0 .. n -> Addresses] /\ \A j, k \in 0 .. n : w[j] = w[k] => j = k
  BY <1>1, LinkedIs
<1>4. \A k \in 1 .. n : k \in 0 .. n /\ k # 0 /\ w[k] # Gone
  BY <1>3, AddressesAre
<1>5. \E p \in 0 .. n : Position = p /\ iter = IF p = 0 THEN Gone ELSE w[p]
  <2>1. CASE iter = Gone
    <3>1. 0 \in 0 .. n
      BY <1>3
    <3> QED
      BY <1>2, <2>1, <3>1
  <2>2. ASSUME NEW k \in 1 .. n, iter = w[k]
        PROVE  \E p \in 0 .. n : Position = p /\ iter = IF p = 0 THEN Gone ELSE w[p]
    BY <1>2, <1>4, <2>2
  <2> QED
    BY <1>1, <2>1, <2>2
<1>6. /\ Shown(node, n, w) \in Seq(ItemValues) /\ Len(Shown(node, n, w)) = n - 1
      /\ \A k \in 1 .. n - 1 : Shown(node, n, w)[k] = node[w[k]].mValue /\ node[w[k]].mValue \in ItemValues
      /\ Shown(node, n, w) = <<>> <=> n = 1
  BY <1>1, ShownAre
<1>7. \A j, k \in 1 .. n : w[j] = w[k] => j = k
  BY <1>3, <1>4
<1> QED
  BY <1>2, <1>3, <1>4, <1>5, <1>6, <1>7

\* What a step shows that leaves the nodes.
LEMMA StillShows ==
    ASSUME NEW n, NEW w, ListIs(n, w), node' = node
    PROVE  /\ Contents' = Contents /\ (iter' = Gone => Position' = 0)
           /\ \A k \in 1 .. n : iter' = w[k] => Position' = k
           /\ iter' = iter => Position' = Position
<1>1. Linked(node, n, w) /\ Linked(node', n, w)
  BY DEF ListIs
<1>2. Contents' = Shown(node', n, w) /\ Contents = Shown(node, n, w)
  BY <1>1, ThenShows, NowShows
<1>3. /\ iter' = Gone => Position' = 0
      /\ \A k \in 1 .. n : iter' = w[k] => Position' = k
  BY <1>1, ThenShows
<1>4. \E p \in 0 .. n : Position = p /\ iter = IF p = 0 THEN Gone ELSE w[p]
  BY ShowsSequence
<1>5. \A p \in 0 .. n : p # 0 => p \in 1 .. n
  BY ShowsSequence
<1> QED
  BY <1>2, <1>3, <1>4, <1>5

LEMMA push_backImplements ==
    ASSUME NEW n, NEW w, ListIs(n, w), NEW v \in Items, push_back(v)
    PROVE  Sequence!PushBack(v)
<1>0. /\ Linked(node, n, w) /\ n \in Nat /\ n # 0 /\ w[n] = TailNode /\ MaxItems \in Nat /\ w \in [0 .. n -> Addresses]
      /\ \A j, k \in 1 .. n : w[j] = w[k] => j = k
  BY LinkedIs, ShowsSequence DEF ListIs
<1>1. PICK x \in Addresses :
         /\ \A k \in 0 .. n : w[k] # x
         /\ Linked(node', n + 1, Added(n, w, x)) /\ node'[x].mValue = v
         /\ \A a \in Addresses \ {x} : node'[a].mValue = node[a].mValue
  BY <1>0, push_backIs
<1> DEFINE u == Added(n, w, x)
<1>2. \A k \in 0 .. n + 1 : u[k] = IF k < n THEN w[k] ELSE IF k = n THEN x ELSE TailNode
  BY DEF Added
<1> HIDE DEF u
<1>3. /\ Contents' = Shown(node', n + 1, u) /\ (iter' = Gone => Position' = 0)
      /\ \A k \in 1 .. n + 1 : iter' = u[k] => Position' = k
  BY <1>1, ThenShows DEF u
<1>4. /\ Shown(node', n + 1, u) \in Seq(ItemValues) /\ Len(Shown(node', n + 1, u)) = (n + 1) - 1
      /\ \A k \in 1 .. (n + 1) - 1 : Shown(node', n + 1, u)[k] = node'[u[k]].mValue
  BY <1>1, ShownAre DEF u
<1>5. /\ Contents \in Seq(ItemValues) /\ Len(Contents) = n - 1
      /\ \A k \in 1 .. n - 1 : Contents[k] = node[w[k]].mValue
  BY ShowsSequence
<1>6. v \in ItemValues
  BY DEF ItemValues
<1>7. /\ Append(Contents, v) \in Seq(ItemValues) /\ Len(Append(Contents, v)) = Len(Contents) + 1
      /\ \A i \in 1 .. Len(Contents) : Append(Contents, v)[i] = Contents[i]
      /\ Append(Contents, v)[Len(Contents) + 1] = v
  BY <1>5, <1>6, AppendProperties
<1>8. Contents' = Append(Contents, v)
  <2>1. Len(Contents') = Len(Append(Contents, v)) /\ Len(Contents') = n
    BY <1>0, <1>3, <1>4, <1>5, <1>7
  <2>2. ASSUME NEW k \in 1 .. n PROVE Contents'[k] = Append(Contents, v)[k]
    <3>1. k \in 1 .. (n + 1) - 1 /\ k \in 0 .. n + 1 /\ k \in 0 .. n
      BY <1>0
    <3>2. Contents'[k] = node'[u[k]].mValue
      BY <1>3, <1>4, <3>1
    <3>3. CASE k = n
      <4>1. u[k] = x /\ Len(Contents) + 1 = k
        BY <1>0, <1>2, <1>5, <3>1, <3>3
      <4> QED
        BY <1>1, <1>7, <3>2, <4>1
    <3>4. CASE k # n
      <4>1. u[k] = w[k] /\ k \in 1 .. n - 1 /\ k \in 1 .. Len(Contents)
        BY <1>0, <1>2, <1>5, <3>1, <3>4
      <4>2. w[k] \in Addresses \ {x}
        BY <1>0, <1>1, <3>1
      <4> QED
        BY <1>1, <1>5, <1>7, <3>2, <4>1, <4>2
    <3> QED
      BY <3>3, <3>4
  <2>3. Contents' \in Seq(ItemValues)
    BY <1>3, <1>4
  <2> QED
    BY <1>7, <2>1, <2>2, <2>3, SeqEqual
<1>9. PICK p \in 0 .. n : Position = p /\ iter = IF p = 0 THEN Gone ELSE w[p]
  BY ShowsSequence
<1>10. iter' = iter /\ listAnswer' = <<>>
  BY DEF push_back, Silently
<1>11. Position' = IF p = n THEN n + 1 ELSE p
  <2>1. CASE p = 0
    BY <1>0, <1>3, <1>9, <1>10, <2>1
  <2>2. CASE p = n
    <3>1. n + 1 \in 0 .. n + 1 /\ n + 1 \in 1 .. n + 1 /\ ~(n + 1 < n) /\ n + 1 # n
      BY <1>0
    <3>2. u[n + 1] = TailNode
      BY <1>2, <3>1
    <3> QED
      BY <1>0, <1>3, <1>9, <1>10, <2>2, <3>1, <3>2
  <2>3. CASE p # 0 /\ p # n
    <3>1. p \in 0 .. n + 1 /\ p \in 1 .. n + 1 /\ p < n
      BY <1>0, <2>3
    <3>2. u[p] = w[p]
      BY <1>2, <3>1
    <3> QED
      BY <1>3, <1>9, <1>10, <2>3, <3>1, <3>2
  <2> QED
    BY <2>1, <2>2, <2>3
<1>12. Len(Contents) < MaxItems /\ Sequence!End = n
  <2>1. n + 1 \in 1 .. MaxItems + 1
    BY <1>1, LinkedIs
  <2> QED
    BY <1>0, <1>5, <2>1 DEF Sequence!End
<1> QED
  BY <1>8, <1>9, <1>10, <1>11, <1>12 DEF Sequence!PushBack

LEMMA pop_frontImplements ==
    ASSUME NEW n, NEW w, ListIs(n, w), pop_front
    PROVE  Sequence!PopFront
<1>0. /\ Linked(node, n, w) /\ n \in Nat /\ n # 0 /\ w \in [0 .. n -> Addresses] /\ (empty <=> n = 1)
      /\ \A j, k \in 0 .. n : w[j] = w[k] => j = k
  BY LinkedIs, NodesAre DEF ListIs
<1>1. listAnswer' = <<>>
  BY DEF pop_front, Silently
<1>2. /\ Contents \in Seq(ItemValues) /\ Len(Contents) = n - 1 /\ (Contents = <<>> <=> n = 1)
      /\ \A k \in 1 .. n - 1 : Contents[k] = node[w[k]].mValue
  BY ShowsSequence
<1>3. PICK p \in 0 .. n : Position = p /\ iter = IF p = 0 THEN Gone ELSE w[p]
  BY ShowsSequence
<1>4. CASE n = 1
  <2>1. node' = node /\ iter' = iter
    BY <1>0, <1>4 DEF pop_front
  <2>2. Contents' = Contents /\ Position' = Position
    BY <2>1, StillShows
  <2> QED
    BY <1>1, <1>2, <1>4, <2>2 DEF Sequence!PopFront
<1>5. CASE n # 1
  <2> DEFINE u == Without(n, w, 1)
  <2>1. /\ Linked(node', n - 1, u) /\ iter' = IF iter = w[1] THEN Gone ELSE iter
        /\ \A a \in Addresses \ {w[1]} : node'[a].mValue = node[a].mValue
    BY <1>0, <1>5, pop_frontIs
  <2>2. \A k \in 1 .. n - 1 : u[k] = w[k + 1] /\ k + 1 \in 0 .. n /\ k + 1 # 1 /\ 1 \in 0 .. n
    BY <1>0, <1>5 DEF Without
  <2> HIDE DEF u
  <2>3. /\ Contents' = Shown(node', n - 1, u) /\ (iter' = Gone => Position' = 0)
        /\ \A k \in 1 .. n - 1 : iter' = u[k] => Position' = k
    BY <2>1, ThenShows
  <2>4. /\ Shown(node', n - 1, u) \in Seq(ItemValues) /\ Len(Shown(node', n - 1, u)) = (n - 1) - 1
        /\ \A k \in 1 .. (n - 1) - 1 : Shown(node', n - 1, u)[k] = node'[u[k]].mValue
    BY <2>1, ShownAre
  <2>5. /\ Tail(Contents) \in Seq(ItemValues) /\ Len(Tail(Contents)) = Len(Contents) - 1
        /\ \A i \in 1 .. Len(Tail(Contents)) : Tail(Contents)[i] = Contents[i + 1]
    BY <1>2, <1>5, HeadTailProperties
  <2>6. Contents' = Tail(Contents)
    <3>1. Len(Contents') = Len(Tail(Contents)) /\ Len(Contents') = n - 2
      BY <1>0, <1>2, <2>3, <2>4, <2>5
    <3>2. ASSUME NEW k \in 1 .. n - 2 PROVE Contents'[k] = Tail(Contents)[k]
      <4>1. /\ k \in 1 .. (n - 1) - 1 /\ k \in 1 .. n - 1 /\ k + 1 \in 1 .. n - 1 /\ k \in 1 .. Len(Tail(Contents))
        <5>1. n \in Nat /\ k \in 1 .. n - 2 /\ Len(Tail(Contents)) = n - 2
          BY <1>0, <3>1
        <5> QED
          BY ONLY <5>1
      <4>2. Contents'[k] = node'[w[k + 1]].mValue
        BY <2>2, <2>3, <2>4, <4>1
      <4>3. w[k + 1] \in Addresses \ {w[1]}
        BY <1>0, <2>2, <4>1
      <4> QED
        BY <1>2, <2>1, <2>5, <4>1, <4>2, <4>3
    <3>3. Contents' \in Seq(ItemValues)
      BY <2>3, <2>4
    <3> QED
      BY <2>5, <3>1, <3>2, <3>3, SeqEqual
  <2>7. Position' = IF p = 0 THEN p ELSE p - 1
    <3>1. \A k \in 1 .. n : k \in 0 .. n /\ w[k] \in Addresses /\ w[k] # Gone
      BY <1>0, AddressesAre
    <3>2. CASE p = 0
      BY <1>3, <2>1, <2>3, <3>2
    <3>3. CASE p = 1
      BY <1>3, <2>1, <2>3, <3>3
    <3>4. CASE p # 0 /\ p # 1
      <4>1. p - 1 \in 1 .. n - 1 /\ (p - 1) + 1 = p /\ 1 \in 0 .. n
        BY <1>0, <3>4
      <4>2. u[p - 1] = w[p] /\ w[p] # w[1]
        BY <1>0, <2>2, <3>4, <4>1
      <4> QED
        BY <1>3, <2>1, <2>3, <3>4, <4>1, <4>2
    <3> QED
      BY <3>2, <3>3, <3>4
  <2> QED
    BY <1>1, <1>2, <1>3, <1>5, <2>6, <2>7 DEF Sequence!PopFront
<1> QED
  BY <1>4, <1>5
LEMMA FirstOf ==
    ASSUME NEW S, NEW s \in Seq(S), NEW m \in Nat, m <= Len(s)
    PROVE  /\ SubSeq(s, 1, m) \in Seq(S) /\ Len(SubSeq(s, 1, m)) = m
           /\ \A k \in 1 .. m : SubSeq(s, 1, m)[k] = s[k]
  OBVIOUS

LEMMA LastOf ==
    ASSUME NEW S, NEW s \in Seq(S), NEW m \in Nat, m <= Len(s)
    PROVE  /\ SubSeq(s, m + 1, Len(s)) \in Seq(S) /\ Len(SubSeq(s, m + 1, Len(s))) = Len(s) - m
           /\ \A k \in 1 .. Len(s) - m : SubSeq(s, m + 1, Len(s))[k] = s[k + m]
  OBVIOUS

LEMMA RemovedAt ==
    ASSUME NEW S, NEW s \in Seq(S), NEW i \in 1 .. Len(s)
    PROVE  /\ Sequence!RemoveAt(s, i) \in Seq(S) /\ Len(Sequence!RemoveAt(s, i)) = Len(s) - 1
           /\ \A k \in 1 .. Len(s) - 1 : Sequence!RemoveAt(s, i)[k] = IF k < i THEN s[k] ELSE s[k + 1]
<1>0. PICK e \in Nat : e = Len(s)
  OBVIOUS
<1>1. i \in Nat /\ 1 <= i /\ i <= e /\ i <= Len(s)
  BY <1>0
<1>2. PICK m \in Nat : m = i - 1 /\ m <= Len(s)
  BY <1>0, <1>1
<1>3. PICK left, right : left = SubSeq(s, 1, m) /\ right = SubSeq(s, i + 1, Len(s))
  OBVIOUS
<1>5. left \in Seq(S) /\ Len(left) = m /\ \A k \in 1 .. m : left[k] = s[k]
  <2>1. /\ SubSeq(s, 1, m) \in Seq(S) /\ Len(SubSeq(s, 1, m)) = m
        /\ \A k \in 1 .. m : SubSeq(s, 1, m)[k] = s[k]
    BY ONLY <1>2, FirstOf, Zenon
  <2>2. left = SubSeq(s, 1, m)
    BY <1>3
  <2> QED
    BY ONLY <2>1, <2>2, Zenon
<1>6. right \in Seq(S) /\ Len(right) = e - i /\ \A k \in 1 .. e - i : right[k] = s[k + i]
  <2>1. /\ SubSeq(s, i + 1, Len(s)) \in Seq(S) /\ Len(SubSeq(s, i + 1, Len(s))) = Len(s) - i
        /\ \A k \in 1 .. Len(s) - i : SubSeq(s, i + 1, Len(s))[k] = s[k + i]
    <3>1. i \in Nat /\ i <= Len(s)
      BY <1>1
    <3> QED
      BY ONLY <3>1, LastOf, Zenon
  <2> QED
    BY <1>0, <1>3, <2>1
<1>7. /\ left \o right \in Seq(S) /\ Len(left \o right) = Len(left) + Len(right)
      /\ \A k \in 1 .. Len(left) + Len(right) :
            (left \o right)[k] = IF k <= Len(left) THEN left[k] ELSE right[k - Len(left)]
  <2>1. left \in Seq(S) /\ right \in Seq(S)
    BY <1>5, <1>6
  <2> QED
    BY <2>1, ConcatProperties
<1>8. Sequence!RemoveAt(s, i) = left \o right
  BY <1>0, <1>2, <1>3 DEF Sequence!RemoveAt
<1>9. Len(left) + Len(right) = e - 1
  BY <1>1, <1>2, <1>5, <1>6
<1>10. ASSUME NEW k \in 1 .. e - 1 PROVE (left \o right)[k] = IF k < i THEN s[k] ELSE s[k + 1]
  <2>1. k \in 1 .. Len(left) + Len(right) /\ k \in Nat
    BY <1>9
  <2>0. e \in Nat /\ i \in Nat /\ Len(left) = i - 1 /\ k \in Nat /\ 1 <= k /\ k <= e - 1
    BY <1>0, <1>1, <1>2, <1>5
  <2>2. CASE k < i
    <3>0. m = Len(left)
      BY <1>5
    <3>1. k <= Len(left) /\ k \in 1 .. m
      BY ONLY <2>0, <2>2, <3>0
    <3> QED
      BY <1>5, <1>7, <2>1, <2>2, <3>1
  <2>3. CASE ~(k < i)
    <3>1. ~(k <= Len(left)) /\ k - Len(left) \in 1 .. e - i /\ (k - Len(left)) + i = k + 1
      BY ONLY <2>0, <2>3
    <3>2. right[k - Len(left)] = s[(k - Len(left)) + i]
      BY <1>6, <3>1
    <3> QED
      BY <1>7, <2>1, <2>3, <3>1, <3>2
  <2> QED
    BY <2>2, <2>3
<1> QED
  BY <1>0, <1>7, <1>8, <1>9, <1>10

LEMMA eraseImplements ==
    ASSUME NEW n, NEW w, ListIs(n, w), erase
    PROVE  Sequence!Erase
<1>0. Linked(node, n, w) /\ w \in [0 .. n -> Addresses]
  BY LinkedIs DEF ListIs
<1>1. PICK i \in 1 .. n - 1 :
         /\ iter = w[i] /\ iter' = w[i + 1] /\ mnSize' = mnSize - 1
         /\ Linked(node', n - 1, Without(n, w, i))
         /\ \A a \in Addresses : a # w[i] => node'[a].mValue = node[a].mValue
  <2>1. Linked(node, n, w)
    BY <1>0
  <2>2. \E i \in 1 .. n - 1 :
              /\ iter = w[i] /\ iter' = w[i + 1] /\ mnSize' = mnSize - 1
              /\ Linked(node', n - 1, Without(n, w, i))
              /\ \A a \in Addresses : a # w[i] => node'[a].mValue = node[a].mValue
    BY <2>1, eraseIs
  <2> QED
    BY <2>2
<1>2. /\ Contents \in Seq(ItemValues) /\ Len(Contents) = n - 1
      /\ \A k \in 1 .. n - 1 : Contents[k] = node[w[k]].mValue
      /\ n \in Nat /\ n # 0 /\ \A j, k \in 1 .. n : w[j] = w[k] => j = k
      /\ \A k \in 1 .. n : w[k] # Gone
  BY ShowsSequence
<1>3. i \in Nat /\ i \in 1 .. n /\ i \in 0 .. n - 1 /\ i \in 1 .. Len(Contents)
  BY <1>2
<1>4. Position = i
  BY <1>0, <1>1, <1>3, NowShows
<1> DEFINE u == Without(n, w, i)
<1>5. \A k \in 0 .. n - 1 : u[k] = IF k < i THEN w[k] ELSE w[k + 1]
  BY DEF Without
<1> HIDE DEF u
<1>6. /\ Contents' = Shown(node', n - 1, u)
      /\ \A k \in 1 .. n - 1 : iter' = u[k] => Position' = k
  BY <1>1, ThenShows DEF u
<1>7. /\ Shown(node', n - 1, u) \in Seq(ItemValues) /\ Len(Shown(node', n - 1, u)) = (n - 1) - 1
      /\ \A k \in 1 .. (n - 1) - 1 : Shown(node', n - 1, u)[k] = node'[u[k]].mValue
  BY <1>1, ShownAre DEF u
<1>8. Position' = i
  <2>1. u[i] = w[i + 1]
    BY <1>3, <1>5
  <2> QED
    BY <1>1, <1>6, <2>1
<1> DEFINE rest == Sequence!RemoveAt(Contents, i)
<1>9. /\ rest \in Seq(ItemValues) /\ Len(rest) = Len(Contents) - 1
      /\ \A k \in 1 .. Len(Contents) - 1 : rest[k] = IF k < i THEN Contents[k] ELSE Contents[k + 1]
  <2>1. Contents \in Seq(ItemValues) /\ i \in 1 .. Len(Contents)
    BY <1>2, <1>3
  <2> QED
    BY ONLY <2>1, RemovedAt, Zenon
<1> HIDE DEF rest
<1>10. Contents' = rest
  <2>1. Len(Contents') = Len(rest) /\ Len(Contents') = n - 2
    BY <1>2, <1>6, <1>7, <1>9
  <2>2. ASSUME NEW k \in 1 .. n - 2 PROVE Contents'[k] = rest[k]
    <3>1. /\ k \in 1 .. (n - 1) - 1 /\ k \in 0 .. n - 1 /\ k \in 1 .. Len(Contents) - 1
          /\ k \in 1 .. n - 1 /\ k + 1 \in 1 .. n - 1 /\ k \in 1 .. n /\ k + 1 \in 1 .. n /\ k \in 0 .. n /\ k + 1 \in 0 .. n
      BY <1>2
    <3>2. Contents'[k] = node'[u[k]].mValue
      BY <1>6, <1>7, <3>1
    <3>3. CASE k < i
      <4>1. u[k] = w[k] /\ w[k] # w[i] /\ w[k] \in Addresses /\ rest[k] = Contents[k]
        <5>1. u[k] = w[k] /\ rest[k] = Contents[k]
          BY <1>5, <1>9, <3>1, <3>3
        <5>2. k # i /\ w[k] \in Addresses
          BY <1>0, <3>1, <3>3
        <5> QED
          BY <1>2, <1>3, <3>1, <5>1, <5>2
      <4> QED
        BY <1>1, <1>2, <3>1, <3>2, <4>1
    <3>4. CASE ~(k < i)
      <4>1. u[k] = w[k + 1] /\ w[k + 1] # w[i] /\ w[k + 1] \in Addresses /\ rest[k] = Contents[k + 1]
        <5>1. u[k] = w[k + 1] /\ rest[k] = Contents[k + 1]
          BY <1>5, <1>9, <3>1, <3>4
        <5>2. k + 1 # i /\ w[k + 1] \in Addresses
          BY <1>0, <3>1, <3>4
        <5> QED
          BY <1>2, <1>3, <3>1, <5>1, <5>2
      <4> QED
        BY <1>1, <1>2, <3>1, <3>2, <4>1
    <3> QED
      BY <3>3, <3>4
  <2>3. Contents' \in Seq(ItemValues)
    BY <1>6, <1>7
  <2> QED
    BY <1>9, <2>1, <2>2, <2>3, SeqEqual
<1>11. listAnswer' = <<>>
  BY DEF erase, Silently
<1> QED
  BY <1>3, <1>4, <1>8, <1>10, <1>11 DEF Sequence!Erase, Sequence!OfItem, rest

LEMMA clearImplements ==
    ASSUME NEW n, NEW w, ListIs(n, w), clear
    PROVE  Sequence!Clear
<1>1. PICK v : Linked(node', 1, v)
  BY clearIs
<1>2. iter' = IF iter = TailNode THEN TailNode ELSE Gone
  BY clearIs
<1>3. listAnswer' = <<>>
  BY DEF clear, Silently
<1>4. v[1] = TailNode /\ 1 \in 1 .. 1
  BY <1>1, LinkedIs
<1>5. Contents' = Shown(node', 1, v) /\ (iter' = Gone => Position' = 0) /\ (iter' = TailNode => Position' = 1)
  BY <1>1, <1>4, ThenShows
<1>6. Contents' = <<>>
  BY <1>1, <1>5, ShownAre
<1>7. /\ Len(Contents) = n - 1 /\ n \in Nat /\ n # 0
      /\ \A j, k \in 1 .. n : w[j] = w[k] => j = k
      /\ \A k \in 1 .. n : w[k] # Gone
  BY ShowsSequence
<1>8. PICK p \in 0 .. n : Position = p /\ iter = IF p = 0 THEN Gone ELSE w[p]
  BY ShowsSequence
<1>9. w[n] = TailNode
  BY LinkedIs DEF ListIs
<1>10. iter = TailNode <=> p = n
  BY <1>7, <1>8, <1>9
<1>11. Sequence!End = n
  BY <1>7 DEF Sequence!End
<1> QED
  BY <1>2, <1>3, <1>5, <1>6, <1>8, <1>10, <1>11, AddressesAre DEF Sequence!Clear

LEMMA findImplements ==
    ASSUME NEW n, NEW w, ListIs(n, w), NEW v \in Items, find(v)
    PROVE  Sequence!Find(v)
<1>1. PICK k \in 1 .. n :
         /\ iter' = w[k] /\ (k = n \/ node[w[k]].mValue = v)
         /\ \A j \in 1 .. k - 1 : node[w[j]].mValue # v
  BY findIs DEF ListIs
<1>2. node' = node /\ listAnswer' = <<>>
  BY DEF find, Silently
<1>3. Contents' = Contents /\ Position' = k
  BY <1>1, <1>2, StillShows
<1>4. /\ Contents \in Seq(ItemValues) /\ Len(Contents) = n - 1 /\ n \in Nat /\ n # 0
      /\ \A j \in 1 .. n - 1 : Contents[j] = node[w[j]].mValue
  BY ShowsSequence
<1>5. v \in ItemValues
  BY DEF ItemValues
<1> DEFINE s == Contents \o <<v>>
<1>6. s = Append(Contents, v)
  BY <1>4, <1>5, AppendIsConcat
<1>7. Len(s) = n /\ s[n] = v /\ \A j \in 1 .. n - 1 : s[j] = node[w[j]].mValue
  <2>1. /\ Len(Append(Contents, v)) = Len(Contents) + 1
        /\ \A i \in 1 .. Len(Contents) : Append(Contents, v)[i] = Contents[i]
        /\ Append(Contents, v)[Len(Contents) + 1] = v
    BY <1>4, <1>5, AppendProperties
  <2>2. Len(Contents) + 1 = n /\ \A j \in 1 .. n - 1 : j \in 1 .. Len(Contents)
    BY <1>4
  <2> HIDE DEF s
  <2> QED
    BY <1>4, <1>6, <2>1, <2>2
<1> DEFINE I == {i \in 1 .. Len(s) : s[i] = v}
<1> HIDE DEF s
<1>8. k \in I /\ \A i \in I : k <= i
  <2>1. k \in I
    <3>1. k = n \/ k \in 1 .. n - 1
      BY <1>4
    <3> QED
      BY <1>1, <1>7, <3>1
  <2>2. ASSUME NEW i \in I PROVE k <= i
    <3>1. ~(i \in 1 .. k - 1)
      <4>1. \A j \in 1 .. k - 1 : j \in 1 .. n - 1
        BY <1>4
      <4> QED
        BY <1>1, <1>7, <4>1
    <3>2. i \in 1 .. n
      BY <1>7
    <3> QED
      BY <3>1, <3>2
  <2> QED
    BY <2>1, <2>2
<1>9. (CHOOSE x \in I : \A y \in I : x <= y) = k
  <2>1. \A x \in I : x \in Nat
    BY <1>4, <1>7
  <2> HIDE DEF I
  <2>2. PICK c : c = CHOOSE x \in I : \A y \in I : x <= y
    OBVIOUS
  <2>3. c \in I /\ \A y \in I : c <= y
    BY <1>8, <2>2
  <2>4. c <= k /\ k <= c /\ c \in Nat /\ k \in Nat
    BY <1>8, <2>1, <2>3
  <2> QED
    BY <2>2, <2>4
<1>10. Sequence!SelectInSeq(s, LAMBDA x : x = v) = IF I # {} THEN Sequence!Min(I) ELSE 0
  BY DEF Sequence!SelectInSeq
<1>11. Sequence!SelectInSeq(s, LAMBDA x : x = v) = k
  BY <1>8, <1>9, <1>10 DEF Sequence!Min
<1> QED
  BY <1>2, <1>3, <1>11 DEF Sequence!Find, Sequence!Place, s
LEMMA beginImplements ==
    ASSUME NEW n, NEW w, ListIs(n, w), begin
    PROVE  Sequence!Place(1)
<1>1. node' = node /\ listAnswer' = <<>> /\ iter' = w[1]
  BY NodesAre DEF begin, Silently, ListIs
<1>2. 1 \in 1 .. n
  BY ShowsSequence
<1>3. Contents' = Contents /\ Position' = 1
  BY <1>1, <1>2, StillShows
<1> QED
  BY <1>1, <1>3 DEF Sequence!Place

LEMMA incrementImplements ==
    ASSUME NEW n, NEW w, ListIs(n, w), increment
    PROVE  Sequence!Increment
<1>0. Linked(node, n, w)
  BY DEF ListIs
<1>1. node' = node /\ listAnswer' = <<>> /\ iter' = node[iter].mpNext /\ iter \in ItemNodes
  BY DEF increment, Silently
<1>2. PICK i \in 1 .. n - 1 : iter = w[i]
  BY <1>0, <1>1, NodesAre
<1>3. n \in Nat /\ Len(Contents) = n - 1
  BY ShowsSequence
<1>4. i \in 1 .. n /\ i + 1 \in 1 .. n /\ i \in 0 .. n - 1
  BY <1>3
<1>5. node[w[i]].mpNext = w[i + 1]
  BY <1>0, <1>4, LinkedIs
<1>6. Position = i
  BY <1>0, <1>2, <1>4, NowShows
<1>7. Contents' = Contents /\ Position' = i + 1
  BY <1>1, <1>2, <1>4, <1>5, StillShows
<1> QED
  BY <1>1, <1>3, <1>6, <1>7 DEF Sequence!Increment, Sequence!OfItem, Sequence!Place

LEMMA askImplements ==
    ASSUME NEW n, NEW w, ListIs(n, w), ask
    PROVE  Sequence!Ask
<1>0. Linked(node, n, w) /\ mnSize = n - 1
  BY DEF ListIs
<1>1. Contents' = Contents /\ Position' = Position
  BY StillShows DEF ask
<1>2. /\ Len(Contents) = n - 1 /\ n \in Nat /\ n # 0 /\ (Contents = <<>> <=> n = 1)
      /\ \A k \in 1 .. n - 1 : Contents[k] = node[w[k]].mValue
  BY ShowsSequence
<1>3. (empty <=> n = 1) /\ node[HeadNode].mpNext = w[1]
  BY <1>0, NodesAre
<1>4. n # 1 => Contents[1] = node[w[1]].mValue
  BY <1>2
<1>5. (empty <=> Contents = <<>>) /\ mnSize = Len(Contents)
  BY <1>0, <1>2, <1>3
<1>6. empty = (Contents = <<>>)
  BY <1>5 DEF empty
<1>7. (IF empty THEN <<>> ELSE <<node[node[HeadNode].mpNext].mValue>>) =
           IF Contents = <<>> THEN <<>> ELSE <<Contents[1]>>
  BY <1>2, <1>3, <1>4
<1>8. listAnswer' = <<empty, mnSize, IF empty THEN <<>> ELSE <<node[node[HeadNode].mpNext].mValue>> >>
  BY DEF ask
<1>9. listAnswer' = <<Contents = <<>>, Len(Contents), IF Contents = <<>> THEN <<>> ELSE <<Contents[1]>> >>
  BY <1>5, <1>6, <1>7, <1>8
<1> QED
  BY <1>1, <1>9 DEF Sequence!Ask

LEMMA ListStepsImplement ==
    ~UsesPushFront /\ ListInv /\ (ListNext \/ UNCHANGED listVars)
      => Sequence!Next \/ UNCHANGED <<Contents, Position, listAnswer>>
<1> SUFFICES ASSUME ~UsesPushFront, ListInv, ListNext \/ UNCHANGED listVars
             PROVE  Sequence!Next \/ UNCHANGED <<Contents, Position, listAnswer>>
  OBVIOUS
<1>1. PICK n \in 1 .. MaxItems + 1 : \E w \in [0 .. n -> Addresses] : ListIs(n, w)
  BY DEF ListInv
<1>2. PICK w \in [0 .. n -> Addresses] : ListIs(n, w)
  BY <1>1
<1>3. CASE UNCHANGED listVars
  <2>1. node' = node /\ iter' = iter /\ listAnswer' = listAnswer
    BY <1>3 DEF listVars
  <2>2. Contents' = Contents /\ Position' = Position
    BY <1>2, <2>1, StillShows
  <2> QED
    BY <2>1, <2>2
<1>4. ASSUME NEW v \in Items, push_back(v) PROVE Sequence!PushBack(v)
  BY <1>2, <1>4, push_backImplements
<1>5. ASSUME NEW v \in Items, find(v) PROVE Sequence!Find(v)
  BY <1>2, <1>5, findImplements
<1>6. pop_front => Sequence!PopFront
  BY <1>2, pop_frontImplements
<1>7. erase => Sequence!Erase
  BY <1>2, eraseImplements
<1>8. clear => Sequence!Clear
  BY <1>2, clearImplements
<1>9. begin => Sequence!Place(1)
  BY <1>2, beginImplements
<1>10. increment => Sequence!Increment
  BY <1>2, incrementImplements
<1>11. ask => Sequence!Ask
  BY <1>2, askImplements
<1>12. ListNext => Sequence!Next
  <2> SUFFICES ASSUME ListNext PROVE Sequence!Next
    OBVIOUS
  <2>1. (\E v \in Items : push_back(v) \/ find(v)) \/ pop_front \/ erase \/ clear \/ begin \/ increment \/ ask
    BY DEF ListNext
  <2> QED
    BY <1>4, <1>5, <1>6, <1>7, <1>8, <1>9, <1>10, <1>11, <2>1 DEF Sequence!Next
<1> QED
  BY <1>3, <1>12

\* A list that is linked shows a sequence: what is put in, taken out, found and
\* counted is that of the sequence, and an iterator stays with its item.
THEOREM ListsImplement == ~UsesPushFront => (Spec => ImplementsItemSequence)
<1> SUFFICES ASSUME ~UsesPushFront PROVE Spec => ImplementsItemSequence
  OBVIOUS
<1>1. Init => ListInv /\ ListInit
  BY ListBegins DEF Init
<1>2. ListInv /\ [Next]_allVars => ListInv'
  BY OneStructureMoves, ListGoesOn
<1>3. ListInv /\ ListInit => Sequence!Init
  <2> SUFFICES ASSUME ListInv, ListInit PROVE Sequence!Init
    OBVIOUS
  <2>1. PICK n \in 1 .. MaxItems + 1 : \E w \in [0 .. n -> Addresses] : ListIs(n, w)
    BY DEF ListInv
  <2>2. PICK w \in [0 .. n -> Addresses] : ListIs(n, w)
    BY <2>1
  <2>3. mnSize = 0 /\ iter = Gone /\ listAnswer = <<>>
    BY DEF ListInit
  <2>4. n = 1
    BY <2>2, <2>3 DEF ListIs
  <2>5. Contents = <<>>
    BY <2>2, <2>4, ShowsSequence
  <2>6. Position = 0
    BY <2>3 DEF Position
  <2> QED
    BY <2>3, <2>5, <2>6 DEF Sequence!Init
<1>4. ListInv /\ [Next]_allVars => Sequence!Next \/ UNCHANGED <<Contents, Position, listAnswer>>
  BY OneStructureMoves, ListStepsImplement
<1> QED
  BY <1>1, <1>2, <1>3, <1>4, PTL DEF Spec, ImplementsItemSequence, Sequence!Spec
=============================================================================
