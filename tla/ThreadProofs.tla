---------------------------- MODULE ThreadProofs ----------------------------
(***************************************************************************)
(* Proofs about MCThreads: the four implementations of Thread, for every   *)
(* set of users, any number of threads and any size of the array of data.  *)
(***************************************************************************)
EXTENDS MCThreads, FiniteSetTheorems, TLAPS

USE ThreadAssumption

(* What a user, and a thread, owns of the references to d.                 *)

HasObject(u, d) ==
    /\ mpData[u] = d /\ user[u].next # "allocate"
    /\ user[u].pc \notin {"allocate", "construct"} \cup
           (IF platform = "cpp11" THEN {"identify", "publish"} ELSE {})
HasBegun(u, d) ==
    user[u].ptr = d /\ user[u].pc \in (IF platform = "cpp11" THEN {"identify", "publish"}
                                       ELSE {"identify", "resume", "created"})
HasCreation(u, d) == user[u].ptr = d /\ At(u, "create")
HasEnumerated(u, d) == enumData[u] = d
Runs(n, d) == thread[n].ptr = d /\ thread[n].pc \notin {"unborn", "free", "exited"}

Value(b) == IF b THEN 1 ELSE 0
References(u, d) ==
    Value(HasObject(u, d)) + Value(HasBegun(u, d)) + 2 * Value(HasCreation(u, d))
        + Value(HasEnumerated(u, d))
CallersOwn(d) == IF External(d) THEN IF platform = "cpp11" THEN 3 ELSE 2 ELSE 0

Enumerated(d) == {u \in Users : enumData[u] = d}
UserRefs(d) ==
    Cardinality(Objects(d)) + Cardinality(Beginning(d)) + 2 * Cardinality(Creating(d))
        + Cardinality(Enumerated(d))
ThreadRefs(d) == Cardinality(Running(d))

-----------------------------------------------------------------------------
(* The inductive invariant.                                                *)

Waiting == WaitLabels \cup StatusLabels
Building == {"construct", "create", "identify", "resume", "publish"}

CountInv == \A d \in Data : data[d].mnRefCount = UserRefs(d) + ThreadRefs(d) + CallersOwn(d)

\* Data that is not alive is as new; it belongs to one thread, and the handle
\* it names is that thread's.
DataInv ==
    \A d \in Data :
        /\ data[d].live => data[d].used
        /\ ~data[d].live => data[d] = [Fresh EXCEPT !.used = data[d].used]
        /\ data[d].mThreadId \in Threads => data[d].mThreadId = data[d].mSysThreadId
        /\ data[d].mSysThreadId # None =>
              /\ thread[data[d].mSysThreadId].pc # "unborn"
              /\ thread[data[d].mSysThreadId].ptr = d
              /\ data[d].mThreadId \notin Users

\* One of the users and threads frees data without references.
FreeInv ==
    /\ \A u \in Users : At(u, "free") =>
          data[user[u].ptr].live /\ data[user[u].ptr].mnRefCount = 0
    /\ \A n \in Threads : IsAt(n, "free") =>
          data[thread[n].ptr].live /\ data[thread[n].ptr].mnRefCount = 0
    /\ \A u, v \in Users : At(u, "free") /\ At(v, "free") /\ user[u].ptr = user[v].ptr => u = v
    /\ \A u \in Users, n \in Threads : At(u, "free") /\ IsAt(n, "free") => user[u].ptr # thread[n].ptr
    /\ \A d \in Data : data[d].live /\ data[d].mnRefCount = 0 =>
          \/ \E u \in Users : At(u, "free") /\ user[u].ptr = d
          \/ \E n \in Threads : IsAt(n, "free") /\ thread[n].ptr = d

UserInv ==
    \A u \in Users :
        /\ At(u, "idle") => user[u] = Idle(u)
        /\ user[u].pc \notin Waiting \cup {"poll"} => user[u].obj = u
        /\ user[u].next # "idle" => user[u].next = "allocate" /\ At(u, "free")
        /\ user[u].pc \in Building \cup {"created", "name", "free"} => user[u].ptr \in Data
        /\ At(u, "enumerate") => user[u].ptr \in Slots /\ enumData[u] = None
        /\ At(u, "release") => mpData[u] \in Data
        /\ user[u].pc \in {"close", "zero"} \cup StatusLabels => platform = "pc"

\* Two calls of Begin do not make the same data; nobody else has what C++11 has
\* not yet given to its object.
BuildInv ==
    \A u \in Users :
        LET d == user[u].ptr IN
        /\ At(u, "construct") => data[d].used /\ ~data[d].live
        /\ At(u, "create") => /\ mpData[u] = d /\ data[d].mThreadId = None
                              /\ data[d].mSysThreadId = None /\ platform # "cpp11"
        /\ At(u, "identify") => data[d].mThreadId = None /\ data[d].mSysThreadId # None
        /\ At(u, "identify") /\ platform # "cpp11" => mpData[u] \in {d, None}
        /\ At(u, "resume") => /\ data[d].mSysThreadId # None /\ platform = "pc"
                              /\ IsAt(data[d].mSysThreadId, "suspended")
        /\ At(u, "publish") => data[d].mSysThreadId # None /\ platform = "cpp11"
        /\ user[u].pc \in {"identify", "publish"} /\ platform = "cpp11" =>
              \A o \in Users : ~HasObject(o, d)
        /\ (At(u, "created") /\ platform = "cpp11") \/ At(u, "name") => mpData[u] = d
        /\ \A v \in Users : u # v /\ user[u].pc \in Building /\ user[v].pc \in Building =>
              user[v].ptr # d

LiveThreadInv ==
    \A n \in Threads :
        /\ ~IsAt(n, "unborn") => thread[n].ptr \in Data /\ thread[n].by \in Users
        /\ thread[n].pc \notin {"unborn", "exited"} => data[thread[n].ptr].mSysThreadId = n

\* Objects have data of threads.
ObjectInv ==
    \A o \in Users, d \in Data : HasObject(o, d) =>
        ~External(d) /\ (~At(o, "create") => data[d].mSysThreadId # None)

\* The object a call is made for keeps its data, and no two calls wait for the
\* same thread.
WaitInv ==
    /\ \A u \in Users : user[u].pc \in Waiting =>
          /\ Of(u) \in Data /\ HasObject(user[u].obj, Of(u))
          /\ user[user[u].obj].pc \notin {"release", "create", "identify", "publish"}
    /\ \A u \in Users : At(u, "poll") /\ Of(u) # None =>
          HasObject(user[u].obj, Of(u)) /\ ~At(user[u].obj, "release")
    /\ \A u, v \in Users :
          u # v /\ user[u].pc \in WaitLabels \cup {"poll"} /\ user[v].pc \in WaitLabels \cup {"poll"} =>
              user[u].obj # user[v].obj /\ (Of(u) # None => Of(u) # Of(v))
    /\ \A u, v \in Users : u # v /\ user[u].pc \in Waiting /\ user[v].pc \in Waiting => Of(u) # Of(v)

\* Before it has joined, WaitForEnd of POSIX waits for a thread that nobody else
\* has joined.
JoinInv ==
    \A u \in Users :
        /\ platform \in {"unix", "kettle"}
        /\ user[u].pc \in {"poll", "check", "startedWait", "repost", "lockRun", "joinLocked", "join"}
        /\ Of(u) # None /\ user[user[u].obj].pc \notin {"create", "identify"}
        => data[Of(u)].mThreadId \in Threads

\* The thread posts mStartedSemaphore once, and who took it posts it again.
StartInv ==
    /\ \A u \in Users : At(u, "repost") =>
          /\ TheData(u).mStartedSemaphore = 0
          /\ thread[TheData(u).mSysThreadId].pc \notin {"suspended", "created", "locked"}
    /\ \A n \in Threads : thread[n].pc \in {"suspended", "created", "locked"} =>
          data[thread[n].ptr].mStartedSemaphore = 0
    /\ \A d \in Data : data[d].mSysThreadId = None => data[d].mStartedSemaphore = 0

EndInv ==
    /\ \A u \in Users : user[u].pc \in {"unlockRun", "return"} /\ user[u].answer = "ended" =>
          TheData(u).mSysThreadId # None /\ IsAt(TheData(u).mSysThreadId, "exited")
    /\ \A u \in Users : user[u].pc \in {"close", "closeForStatus", "zero", "zeroForStatus"} =>
          IsAt(TheData(u).mSysThreadId, "exited")
    /\ platform = "pc" =>
          \A d \in Data : data[d].mSysThreadId # None /\ data[d].mThreadId = None =>
              IsAt(data[d].mSysThreadId, "exited")
    /\ StatusTellsTruth

ThreadInv ==
    /\ TypeOK /\ CountInv /\ DataInv /\ FreeInv /\ UserInv /\ BuildInv /\ LiveThreadInv
    /\ ObjectInv /\ WaitInv /\ JoinInv /\ StartInv /\ EndInv /\ HandlesAreReleasedOnce

-----------------------------------------------------------------------------
(* Counting.                                                               *)

\* No user is a number, and nothing is None.
LEMMA Apart ==
    /\ None \notin Data /\ None \notin Threads /\ None \notin Users
    /\ Users \cap Threads = {} /\ Users \cap Data = {}
    /\ Slots \subseteq Data /\ Data \subseteq Nat /\ Threads \subseteq Nat
    /\ IsFiniteSet(Users) /\ IsFiniteSet(Threads)
<1>1. IsFiniteSet(Threads)
  BY FS_Interval DEF Threads
<1> QED
  BY <1>1 DEF Data, Threads, Slots

LEMMA CountMoves ==
    ASSUME NEW S, NEW T, NEW x, IsFiniteSet(S), \A y : y # x => (y \in S <=> y \in T)
    PROVE  /\ Cardinality(T) = Cardinality(S) - Value(x \in S) + Value(x \in T)
           /\ Cardinality(S) \in Nat /\ Cardinality(T) \in Nat /\ IsFiniteSet(T)
           /\ Cardinality(S) >= Value(x \in S)
<1>1. CASE x \in S /\ x \in T
  <2>1. T = S
    BY <1>1
  <2>2. Cardinality(S) >= 1
    BY <1>1, FS_CardinalityType, FS_EmptySet
  <2> QED
    BY <1>1, <2>1, <2>2, FS_CardinalityType DEF Value
<1>2. CASE x \notin S /\ x \notin T
  <2>1. T = S
    BY <1>2
  <2> QED
    BY <1>2, <2>1, FS_CardinalityType DEF Value
<1>3. CASE x \in S /\ x \notin T
  <2>1. T = S \ {x}
    BY <1>3
  <2> QED
    BY <1>3, <2>1, FS_RemoveElement, FS_CardinalityType DEF Value
<1>4. CASE x \notin S /\ x \in T
  <2>1. T = S \cup {x}
    BY <1>4
  <2> QED
    BY <1>4, <2>1, FS_AddElement, FS_CardinalityType DEF Value
<1> QED
  BY <1>1, <1>2, <1>3, <1>4

\* The sets the reference count counts.
LEMMA Owners ==
    ASSUME NEW d
    PROVE  /\ \A u : u \in Objects(d) <=> u \in Users /\ HasObject(u, d)
           /\ \A u : u \in Beginning(d) <=> u \in Users /\ HasBegun(u, d)
           /\ \A u : u \in Creating(d) <=> u \in Users /\ HasCreation(u, d)
           /\ \A u : u \in Enumerated(d) <=> u \in Users /\ HasEnumerated(u, d)
           /\ \A n : n \in Running(d) <=> n \in Threads /\ Runs(n, d)
           /\ IsFiniteSet(Objects(d)) /\ IsFiniteSet(Beginning(d)) /\ IsFiniteSet(Creating(d))
           /\ IsFiniteSet(Enumerated(d)) /\ IsFiniteSet(Running(d))
<1>1. /\ \A u : u \in Objects(d) <=> u \in Users /\ HasObject(u, d)
      /\ \A u : u \in Beginning(d) <=> u \in Users /\ HasBegun(u, d)
      /\ \A u : u \in Creating(d) <=> u \in Users /\ HasCreation(u, d)
      /\ \A u : u \in Enumerated(d) <=> u \in Users /\ HasEnumerated(u, d)
      /\ \A n : n \in Running(d) <=> n \in Threads /\ Runs(n, d)
  BY DEF Objects, HasObject, Beginning, HasBegun, Creating, HasCreation, Enumerated, HasEnumerated,
     Running, Runs
<1>2. /\ Objects(d) \subseteq Users /\ Beginning(d) \subseteq Users /\ Creating(d) \subseteq Users
      /\ Enumerated(d) \subseteq Users /\ Running(d) \subseteq Threads
  BY <1>1
<1> QED
  BY <1>1, <1>2, Apart, FS_Subset

\* Only user u changes.
OnlyUser(u) ==
    /\ platform' = platform
    /\ \A v \in Users \ {u} : user'[v] = user[v] /\ mpData'[v] = mpData[v] /\ enumData'[v] = enumData[v]

LEMMA UserRefsMove ==
    ASSUME NEW u \in Users, NEW d, OnlyUser(u)
    PROVE  UserRefs(d)' = UserRefs(d) - References(u, d) + References(u, d)'
<1>0. \A v \in Users \ {u} :
         /\ HasObject(v, d)' <=> HasObject(v, d)
         /\ HasBegun(v, d)' <=> HasBegun(v, d)
         /\ HasCreation(v, d)' <=> HasCreation(v, d)
         /\ HasEnumerated(v, d)' <=> HasEnumerated(v, d)
  BY DEF OnlyUser, HasObject, HasBegun, HasCreation, HasEnumerated, At
<1>1. /\ \A v : v \in Objects(d)' <=> v \in Users /\ HasObject(v, d)'
      /\ \A v : v \in Beginning(d)' <=> v \in Users /\ HasBegun(v, d)'
      /\ \A v : v \in Creating(d)' <=> v \in Users /\ HasCreation(v, d)'
      /\ \A v : v \in Enumerated(d)' <=> v \in Users /\ HasEnumerated(v, d)'
  BY DEF Objects, HasObject, Beginning, HasBegun, Creating, HasCreation, Enumerated, HasEnumerated, At
<1>2. /\ Cardinality(Objects(d)') = Cardinality(Objects(d)) - Value(HasObject(u, d)) + Value(HasObject(u, d)')
      /\ Cardinality(Objects(d)) \in Nat
  <2>1. \A v : v # u => (v \in Objects(d) <=> v \in Objects(d)')
    BY <1>0, <1>1, Owners
  <2>2. Value(u \in Objects(d)) = Value(HasObject(u, d)) /\ Value(u \in Objects(d)') = Value(HasObject(u, d)')
    BY <1>1, Owners DEF Value
  <2> QED
    BY <2>1, <2>2, CountMoves, Owners
<1>3. /\ Cardinality(Beginning(d)') = Cardinality(Beginning(d)) - Value(HasBegun(u, d)) + Value(HasBegun(u, d)')
      /\ Cardinality(Beginning(d)) \in Nat
  <2>1. \A v : v # u => (v \in Beginning(d) <=> v \in Beginning(d)')
    BY <1>0, <1>1, Owners
  <2>2. Value(u \in Beginning(d)) = Value(HasBegun(u, d)) /\ Value(u \in Beginning(d)') = Value(HasBegun(u, d)')
    BY <1>1, Owners DEF Value
  <2> QED
    BY <2>1, <2>2, CountMoves, Owners
<1>4. /\ Cardinality(Creating(d)') = Cardinality(Creating(d)) - Value(HasCreation(u, d)) + Value(HasCreation(u, d)')
      /\ Cardinality(Creating(d)) \in Nat
  <2>1. \A v : v # u => (v \in Creating(d) <=> v \in Creating(d)')
    BY <1>0, <1>1, Owners
  <2>2. Value(u \in Creating(d)) = Value(HasCreation(u, d)) /\ Value(u \in Creating(d)') = Value(HasCreation(u, d)')
    BY <1>1, Owners DEF Value
  <2> QED
    BY <2>1, <2>2, CountMoves, Owners
<1>5. /\ Cardinality(Enumerated(d)') = Cardinality(Enumerated(d)) - Value(HasEnumerated(u, d)) + Value(HasEnumerated(u, d)')
      /\ Cardinality(Enumerated(d)) \in Nat
  <2>1. \A v : v # u => (v \in Enumerated(d) <=> v \in Enumerated(d)')
    BY <1>0, <1>1, Owners
  <2>2. Value(u \in Enumerated(d)) = Value(HasEnumerated(u, d)) /\ Value(u \in Enumerated(d)') = Value(HasEnumerated(u, d)')
    BY <1>1, Owners DEF Value
  <2> QED
    BY <2>1, <2>2, CountMoves, Owners
<1>6. \A b : Value(b) \in Nat
  BY DEF Value
<1> QED
  <2>1. UserRefs(d)' = Cardinality(Objects(d)') + Cardinality(Beginning(d)') + 2 * Cardinality(Creating(d)')
                          + Cardinality(Enumerated(d)')
    BY DEF UserRefs
  <2>2. References(u, d)' = Value(HasObject(u, d)') + Value(HasBegun(u, d)') + 2 * Value(HasCreation(u, d)')
                          + Value(HasEnumerated(u, d)')
    BY DEF References, Value
  <2> HIDE DEF Value
  <2> QED
    BY <1>2, <1>3, <1>4, <1>5, <1>6, <2>1, <2>2 DEF UserRefs, References

LEMMA ThreadRefsMove ==
    ASSUME NEW n \in Threads, NEW d, \A m \in Threads \ {n} : thread'[m] = thread[m]
    PROVE  ThreadRefs(d)' = ThreadRefs(d) - Value(Runs(n, d)) + Value(Runs(n, d)')
<1>1. \A m : m \in Running(d)' <=> m \in Threads /\ Runs(m, d)'
  BY DEF Running, Runs
<1>2. \A m : m # n => (m \in Running(d) <=> m \in Running(d)')
  BY <1>1, Owners DEF Runs
<1>3. Value(n \in Running(d)) = Value(Runs(n, d)) /\ Value(n \in Running(d)') = Value(Runs(n, d)')
  BY <1>1, Owners DEF Value
<1> QED
  BY <1>2, <1>3, CountMoves, Owners DEF ThreadRefs

LEMMA UserRefsStay ==
    ASSUME NEW d, UNCHANGED <<platform, user, mpData, enumData>>
    PROVE  UserRefs(d)' = UserRefs(d)
<1>1. /\ Objects(d)' = Objects(d) /\ Beginning(d)' = Beginning(d) /\ Creating(d)' = Creating(d)
      /\ Enumerated(d)' = Enumerated(d)
  BY DEF Objects, Beginning, Creating, Enumerated, At
<1> QED
  BY <1>1 DEF UserRefs

LEMMA ThreadRefsStay ==
    ASSUME NEW d, UNCHANGED thread
    PROVE  ThreadRefs(d)' = ThreadRefs(d)
<1>1. Running(d)' = Running(d)
  BY DEF Running
<1> QED
  BY <1>1 DEF ThreadRefs

LEMMA RefsAreNumbers ==
    ASSUME NEW d
    PROVE  /\ UserRefs(d) \in Nat /\ ThreadRefs(d) \in Nat /\ CallersOwn(d) \in Nat
           /\ \A u \in Users : References(u, d) \in Nat /\ UserRefs(d) >= References(u, d)
           /\ \A n \in Threads : ThreadRefs(d) >= Value(Runs(n, d))
<1>1. /\ UserRefs(d) \in Nat /\ ThreadRefs(d) \in Nat /\ CallersOwn(d) \in Nat
  BY Owners, FS_CardinalityType DEF UserRefs, ThreadRefs, CallersOwn
<1>2. ASSUME NEW u \in Users PROVE References(u, d) \in Nat /\ UserRefs(d) >= References(u, d)
  <2>1. /\ Cardinality(Objects(d)) >= Value(HasObject(u, d)) /\ Cardinality(Objects(d)) \in Nat
    <3>1. Value(u \in Objects(d)) = Value(HasObject(u, d))
      BY Owners DEF Value
    <3> QED
      BY <3>1, Owners, CountMoves
  <2>2. /\ Cardinality(Beginning(d)) >= Value(HasBegun(u, d)) /\ Cardinality(Beginning(d)) \in Nat
    <3>1. Value(u \in Beginning(d)) = Value(HasBegun(u, d))
      BY Owners DEF Value
    <3> QED
      BY <3>1, Owners, CountMoves
  <2>3. /\ Cardinality(Creating(d)) >= Value(HasCreation(u, d)) /\ Cardinality(Creating(d)) \in Nat
    <3>1. Value(u \in Creating(d)) = Value(HasCreation(u, d))
      BY Owners DEF Value
    <3> QED
      BY <3>1, Owners, CountMoves
  <2>4. /\ Cardinality(Enumerated(d)) >= Value(HasEnumerated(u, d)) /\ Cardinality(Enumerated(d)) \in Nat
    <3>1. Value(u \in Enumerated(d)) = Value(HasEnumerated(u, d))
      BY Owners DEF Value
    <3> QED
      BY <3>1, Owners, CountMoves
  <2>5. \A b : Value(b) \in Nat
    BY DEF Value
  <2> HIDE DEF Value
  <2> QED
    BY <2>1, <2>2, <2>3, <2>4, <2>5 DEF UserRefs, References
<1>3. ASSUME NEW n \in Threads PROVE ThreadRefs(d) >= Value(Runs(n, d))
  <2>1. Value(n \in Running(d)) = Value(Runs(n, d))
    BY Owners DEF Value
  <2> QED
    BY <2>1, Owners, CountMoves DEF ThreadRefs
<1> QED
  BY <1>1, <1>2, <1>3

-----------------------------------------------------------------------------
(* What each step does, point by point; steps of the implementations that  *)
(* do the same are one.                                                    *)

UserIs(u, p, o, x, k, a) ==
    /\ user'[u] = [pc |-> p, obj |-> o, ptr |-> x, next |-> k, answer |-> a]
    /\ \A v \in Users \ {u} : user'[v] = user[v]
UserGoes(u, p) == UserIs(u, p, user[u].obj, user[u].ptr, user[u].next, user[u].answer)
UserReturns(u) == UserIs(u, "idle", u, None, "idle", "none")
ThreadIs(n, p, x, b) ==
    /\ thread'[n] = [pc |-> p, ptr |-> x, by |-> b]
    /\ \A m \in Threads \ {n} : thread'[m] = thread[m]
ThreadGoes(n, p) == ThreadIs(n, p, thread[n].ptr, thread[n].by)
DataStay(d) == \A e \in Data \ {d} : data'[e] = data[e]
ObjectHas(u, m) == mpData'[u] = m /\ \A v \in Users \ {u} : mpData'[v] = mpData[v]
EnumHas(u, m) == enumData'[u] = m /\ \A v \in Users \ {u} : enumData'[v] = enumData[v]
Released(m) == \A n \in Threads : handle'[n] = handle[n] + Value(n = m)

\* What the data says of its life, its thread and its references.
Life(d) ==
    /\ data'[d].used = data[d].used /\ data'[d].live = data[d].live
    /\ data'[d].mSysThreadId = data[d].mSysThreadId
SameName(d) == data'[d].mThreadId = data[d].mThreadId
SameCount(d) == data'[d].mnRefCount = data[d].mnRefCount
SameStatus(d) == data'[d].mnStatus = data[d].mnStatus
SamePost(d) == data'[d].mStartedSemaphore = data[d].mStartedSemaphore
CountIs(d, k) ==
    /\ Life(d) /\ SameName(d) /\ SameStatus(d) /\ SamePost(d)
    /\ data'[d].mnRefCount = k
    /\ DataStay(d)
GivesUp(u, d, k, label) ==
    /\ CountIs(d, data[d].mnRefCount - k)
    /\ IF data[d].mnRefCount = k THEN UserIs(u, "free", user[u].obj, d, label, user[u].answer)
       ELSE IF label = "idle" THEN UserReturns(u) ELSE UserGoes(u, label)

\* A user begins a call, alone ...
Begins(u) ==
    /\ At(u, "idle") /\ Using(u) = {}
    /\ UserGoes(u, IF mpData[u] = None THEN "allocate" ELSE "release")
    /\ UNCHANGED <<platform, mpData, thread, handle, enumData>>
    /\ \/ UNCHANGED data
       \/ \E d \in Data :
             /\ ~data[d].used
             /\ data'[d] = [Fresh EXCEPT !.used = TRUE, !.live = TRUE, !.mThreadId = u,
                                         !.mnRefCount = IF platform = "cpp11" THEN 3 ELSE 2]
             /\ DataStay(d)

Enumerates(u) ==
    /\ At(u, "idle") /\ enumData[u] = None
    /\ \E d \in Slots : UserIs(u, "enumerate", user[u].obj, d, user[u].next, user[u].answer)
    /\ UNCHANGED <<platform, data, mpData, thread, handle, enumData>>

\* ... or one that waits.
CallsWait(u, o) ==
    /\ At(u, "idle") /\ ~InBegin(o)
    /\ \A v \in Users : user[v].pc \in WaitLabels \cup {"poll"} =>
           user[v].obj # o /\ (mpData[o] # None => Of(v) # mpData[o])
    /\ mpData[o] # None => MayClose(mpData[o]) = {}
    /\ mpData[o] # None /\ platform # "pc" => data[mpData[o]].mThreadId # None
    /\ UserIs(u, IF mpData[o] = None THEN "poll" ELSE "check", o, user[u].ptr, user[u].next, user[u].answer)
    /\ UNCHANGED <<platform, data, mpData, thread, handle, enumData>>

CallsStatus(u, o) ==
    /\ platform = "pc" /\ At(u, "idle") /\ mpData[o] # None
    /\ ~InBegin(o) /\ MayClose(mpData[o]) = {}
    /\ data[mpData[o]].mThreadId # None /\ IsAt(data[mpData[o]].mThreadId, "exited")
    /\ UserIs(u, "closeForStatus", o, user[u].ptr, user[u].next, user[u].answer)
    /\ UNCHANGED <<platform, data, mpData, thread, handle, enumData>>

\* GetStatus of Windows, of a thread that has no handle any more.
Marks(o) ==
    /\ platform = "pc" /\ mpData[o] # None /\ ~InBegin(o)
    /\ data[mpData[o]].mThreadId = None
    /\ DataStay(mpData[o]) /\ Life(mpData[o]) /\ SameName(mpData[o]) /\ SameCount(mpData[o])
    /\ SamePost(mpData[o]) /\ data'[mpData[o]].mnStatus = "ended"
    /\ UNCHANGED <<platform, mpData, user, thread, handle, enumData>>

Polled(u) ==
    /\ At(u, "poll") /\ Of(u) # None /\ MayClose(Of(u)) = {}
    /\ ~InBegin(user[u].obj) \/ platform = "cpp11" \/ TheData(u).mThreadId # None
    /\ UserGoes(u, "check")
    /\ UNCHANGED <<platform, data, mpData, thread, handle, enumData>>

BeforeJoin == {"check", "startedWait", "repost", "lockRun", "joinLocked", "join"}

\* A step of WaitForEnd before the join, or after it; p and a are its label and
\* answer then.
WaitsOn(u, p, a) ==
    /\ user[u].pc \in WaitLabels \ {"close", "zero"} /\ p \in WaitLabels \ {"check", "zero", "unlockRun"}
    /\ DataStay(Of(u))
    /\ UserIs(u, p, user[u].obj, user[u].ptr, user[u].next, a)
    /\ UNCHANGED <<platform, mpData, thread, handle, enumData>>
    /\ \A d \in Data : Life(d) /\ SameName(d) /\ SameCount(d) /\ SameStatus(d)
    /\ \A d \in Data : \/ SamePost(d)
                       \/ d = Of(u) /\ At(u, "startedWait") /\ p = "repost"
                       \/ d = Of(u) /\ At(u, "repost")
    /\ p = "repost" => TheData(u).mStartedSemaphore > 0
                       /\ data'[Of(u)].mStartedSemaphore = TheData(u).mStartedSemaphore - 1
    /\ At(u, "repost") => p # "repost"
    /\ p \in BeforeJoin => user[u].pc \in BeforeJoin
    /\ p = "return" => \/ At(u, "unlockRun") /\ a = user[u].answer
                       \/ platform = "pc" /\ At(u, "check") /\ TheData(u).mThreadId = None
    /\ p = "close" => platform = "pc" /\ IsAt(TheData(u).mSysThreadId, "exited")

Leaves(u) ==
    /\ \/ user[u].pc \in (WaitLabels \cup {"poll"}) \ {"close", "zero"}
       \/ platform = "cpp11" /\ At(u, "created")
       \/ At(u, "name")
    /\ UserReturns(u)
    /\ UNCHANGED <<platform, data, mpData, thread, handle, enumData>>

Joins(u, n) ==
    /\ user[u].pc \in {"joinLocked", "join"} /\ Of(u) # None
    /\ TheData(u).mSysThreadId = n /\ IsAt(n, "exited")
    /\ platform \in {"unix", "kettle"} \/ TheData(u).mThreadId = n
    /\ \E p \in {"unlockRun", "return"}, a \in Answers :
          UserIs(u, p, user[u].obj, user[u].ptr, user[u].next, a)
    /\ Released(n)
    /\ DataStay(Of(u)) /\ Life(Of(u)) /\ SameCount(Of(u)) /\ SameStatus(Of(u)) /\ SamePost(Of(u))
    /\ data'[Of(u)].mThreadId = None
    /\ UNCHANGED <<platform, mpData, thread, enumData>>

Closes(u) ==
    /\ platform = "pc" /\ user[u].pc \in {"close", "closeForStatus"}
    /\ UserGoes(u, IF At(u, "close") THEN "zero" ELSE "zeroForStatus")
    /\ Released(TheData(u).mThreadId)
    /\ UNCHANGED <<platform, data, mpData, thread, enumData>>

Zeroes(u) ==
    /\ platform = "pc" /\ user[u].pc \in {"zero", "zeroForStatus"} /\ Of(u) # None
    /\ IF At(u, "zero") THEN UserIs(u, "return", user[u].obj, user[u].ptr, user[u].next, "ended")
       ELSE UserReturns(u)
    /\ DataStay(Of(u)) /\ Life(Of(u)) /\ SameCount(Of(u)) /\ SamePost(Of(u))
    /\ data'[Of(u)].mThreadId = None /\ data'[Of(u)].mnStatus = "ended"
    /\ UNCHANGED <<platform, mpData, thread, handle, enumData>>

\* A step of a thread from its start to its end; p is its label then.
Proceeds(n, p) ==
    /\ thread[n].pc \in {"created", "locked", "posted", "running", "valued", "ended"}
    /\ p \in {"locked", "posted", "running", "valued", "ended", "unlocked"}
    /\ ThreadGoes(n, p)
    /\ UNCHANGED <<platform, mpData, user, handle, enumData>>
    /\ DataStay(thread[n].ptr) /\ Life(thread[n].ptr) /\ SameName(thread[n].ptr) /\ SameCount(thread[n].ptr)
    /\ SamePost(thread[n].ptr) \/ IsAt(n, "locked")
    /\ p = "locked" => IsAt(n, "created") /\ SamePost(thread[n].ptr)
    /\ IsAt(n, "ended") => p = "unlocked"
    /\ data'[thread[n].ptr].mnStatus \in {data[thread[n].ptr].mnStatus, "running"}
       \/ p = "ended"

Allocates(u) ==
    /\ At(u, "allocate")
    /\ \E d \in Data :
          /\ ~data[d].used
          /\ data'[d] = [data[d] EXCEPT !.used = TRUE] /\ DataStay(d)
          /\ UserIs(u, "construct", user[u].obj, d, user[u].next, user[u].answer)
    /\ UNCHANGED <<platform, mpData, thread, handle, enumData>>

Constructs(u) ==
    /\ platform # "cpp11" /\ At(u, "construct")
    /\ data'[user[u].ptr] = [Fresh EXCEPT !.used = TRUE, !.live = TRUE, !.mnRefCount = 3]
    /\ DataStay(user[u].ptr) /\ ObjectHas(u, user[u].ptr) /\ UserGoes(u, "create")
    /\ UNCHANGED <<platform, thread, handle, enumData>>

\* The thread begins in state q; on Kettle its name is not yet written.
Creates(u, n, q) ==
    /\ platform # "cpp11" /\ At(u, "create") /\ IsAt(n, "unborn")
    /\ q = IF platform = "pc" THEN "suspended" ELSE "created"
    /\ ThreadIs(n, q, user[u].ptr, u)
    /\ data'[user[u].ptr].mSysThreadId = n
    /\ data'[user[u].ptr].mThreadId = IF platform = "kettle" THEN data[user[u].ptr].mThreadId ELSE n
    /\ data'[user[u].ptr].used = data[user[u].ptr].used /\ data'[user[u].ptr].live = data[user[u].ptr].live
    /\ SameCount(user[u].ptr) /\ SameStatus(user[u].ptr) /\ SamePost(user[u].ptr) /\ DataStay(user[u].ptr)
    /\ UserGoes(u, CASE platform = "unix" -> "created" [] platform = "kettle" -> "identify" [] OTHER -> "resume")
    /\ UNCHANGED <<platform, mpData, handle, enumData>>

CreateFails(u) ==
    /\ platform # "cpp11" /\ At(u, "create")
    /\ GivesUp(u, user[u].ptr, 3, "idle") /\ ObjectHas(u, None)
    /\ UNCHANGED <<platform, thread, handle, enumData>>

Resumes(u) ==
    /\ platform = "pc" /\ At(u, "resume")
    /\ data[user[u].ptr].mSysThreadId \in Threads /\ IsAt(data[user[u].ptr].mSysThreadId, "suspended")
    /\ ThreadGoes(data[user[u].ptr].mSysThreadId, "created")
    /\ UserGoes(u, "created")
    /\ UNCHANGED <<platform, data, mpData, handle, enumData>>

BeginEnds(u) ==
    /\ platform # "cpp11" /\ At(u, "created")
    /\ GivesUp(u, user[u].ptr, 1, "idle")
    /\ UNCHANGED <<platform, mpData, thread, handle, enumData>>

\* The same where Begin has a name to give.
Continues(u) ==
    /\ platform = "unix" /\ At(u, "created") /\ mpData[u] = user[u].ptr
    /\ user[u].ptr \in Data /\ data[user[u].ptr].live /\ data[user[u].ptr].mnRefCount > 1
    /\ CountIs(user[u].ptr, data[user[u].ptr].mnRefCount - 1) /\ UserGoes(u, "name")
    /\ UNCHANGED <<platform, mpData, thread, handle, enumData>>

MakesThread(u, n) ==
    /\ platform = "cpp11" /\ At(u, "construct") /\ IsAt(n, "unborn")
    /\ ThreadIs(n, "created", user[u].ptr, u)
    /\ data'[user[u].ptr] = [Fresh EXCEPT !.used = TRUE, !.live = TRUE, !.mnRefCount = 2, !.mSysThreadId = n]
    /\ DataStay(user[u].ptr) /\ UserGoes(u, "identify")
    /\ UNCHANGED <<platform, mpData, handle, enumData>>

Identifies(u) ==
    /\ At(u, "identify") /\ platform \in {"kettle", "cpp11"}
    /\ data'[user[u].ptr].mThreadId = data[user[u].ptr].mSysThreadId
    /\ Life(user[u].ptr) /\ SameCount(user[u].ptr) /\ SameStatus(user[u].ptr) /\ SamePost(user[u].ptr)
    /\ DataStay(user[u].ptr)
    /\ UserGoes(u, IF platform = "cpp11" THEN "publish" ELSE "created")
    /\ UNCHANGED <<platform, mpData, thread, handle, enumData>>

Publishes(u) ==
    /\ platform = "cpp11" /\ At(u, "publish")
    /\ ObjectHas(u, user[u].ptr) /\ UserGoes(u, "created")
    /\ UNCHANGED <<platform, data, thread, handle, enumData>>

ReleasesOld(u) ==
    /\ At(u, "release") /\ GivesUp(u, mpData[u], 1, "allocate")
    /\ UNCHANGED <<platform, mpData, thread, handle, enumData>>

Assigns(u, v) ==
    /\ At(u, "idle") /\ At(v, "idle") /\ u # v /\ Using(u) \cup Polling(u) = {}
    /\ mpData[u] # mpData[v] /\ mpData[v] # None
    /\ ObjectHas(u, mpData[v])
    /\ \A d \in Data \ {mpData[u], mpData[v]} : data'[d] = data[d]
    /\ \A d \in Data : Life(d) /\ SameName(d) /\ SameStatus(d) /\ SamePost(d)
    /\ \A d \in Data :
          data'[d].mnRefCount = data[d].mnRefCount + Value(d = mpData[v]) - Value(d = mpData[u])
    /\ IF mpData[u] # None /\ data[mpData[u]].mnRefCount = 1
       THEN UserIs(u, "free", user[u].obj, mpData[u], user[u].next, user[u].answer)
       ELSE UNCHANGED user
    /\ UNCHANGED <<platform, thread, handle, enumData>>

Destroys(u) ==
    /\ At(u, "idle") /\ mpData[u] # None /\ Using(u) = {}
    /\ GivesUp(u, mpData[u], 1, "idle") /\ ObjectHas(u, None)
    /\ UNCHANGED <<platform, thread, handle, enumData>>

DestroysWithin(n, o) ==
    /\ IsAt(n, "running") /\ mpData[o] = thread[n].ptr /\ Using(o) = {}
    /\ user[o].pc \in {"idle", "created", "identify"} /\ (platform = "cpp11" => At(o, "idle"))
    /\ CountIs(mpData[o], data[mpData[o]].mnRefCount - 1) /\ ObjectHas(o, None)
    /\ UNCHANGED <<platform, user, thread, handle, enumData>>

AddsRef(u) ==
    /\ At(u, "enumerate")
    /\ data[user[u].ptr].live /\ data[user[u].ptr].mnRefCount > 0
    /\ CountIs(user[u].ptr, data[user[u].ptr].mnRefCount + 1) /\ EnumHas(u, user[u].ptr) /\ UserReturns(u)
    /\ UNCHANGED <<platform, mpData, thread, handle>>

ReleasesEnumerated(u) ==
    /\ At(u, "idle") /\ enumData[u] # None
    /\ GivesUp(u, enumData[u], 1, "idle") /\ EnumHas(u, None)
    /\ UNCHANGED <<platform, mpData, thread, handle>>

Frees(d) == data'[d] = Fresh /\ DataStay(d) /\ Released(data[d].mThreadId)

UserHasFreed(u) ==
    /\ At(u, "free") /\ Frees(user[u].ptr)
    /\ IF user[u].next = "idle" THEN UserReturns(u)
       ELSE UserIs(u, user[u].next, user[u].obj, user[u].ptr, "idle", user[u].answer)
    /\ UNCHANGED <<platform, mpData, thread, enumData>>

ThreadHasFreed(n) ==
    /\ IsAt(n, "free") /\ Frees(thread[n].ptr) /\ ThreadGoes(n, "exited")
    /\ UNCHANGED <<platform, mpData, user, enumData>>

ThreadGivesUp(n) ==
    /\ thread[n].pc \in {"unlocked", "ended"}
    /\ CountIs(thread[n].ptr, data[thread[n].ptr].mnRefCount - 1)
    /\ ThreadGoes(n, IF data[thread[n].ptr].mnRefCount = 1 THEN "free" ELSE "exited")
    /\ UNCHANGED <<platform, mpData, user, handle, enumData>>

-----------------------------------------------------------------------------
(* The assignments the steps are made of, point by point.                  *)

UserRecords == [pc : UserLabels, obj : Users, ptr : Data \cup {None}, next : UserLabels, answer : Answers]
DataRecords == [used : BOOLEAN, live : BOOLEAN, mThreadId : Users \cup Threads \cup {None},
                mSysThreadId : Threads \cup {None}, mnStatus : Answers, mnRefCount : Nat,
                mRunMutex : Users \cup Threads \cup {None}, mStartedSemaphore : 0 .. 1, hasValue : BOOLEAN]
ThreadRecords == [pc : ThreadLabels, ptr : Data \cup {None}, by : Users \cup {None}]

UserTyped == user \in [Users -> UserRecords]
DataTyped == data \in [Data -> DataRecords]
ThreadTyped == thread \in [Threads -> ThreadRecords]

LEMMA Types == TypeOK <=> /\ platform \in Platforms /\ UserTyped /\ DataTyped /\ ThreadTyped
                          /\ mpData \in [Users -> Data \cup {None}]
                          /\ handle \in [Threads -> Nat]
                          /\ enumData \in [Users -> Slots \cup {None}]
<1> QED
  BY DEF TypeOK, UserTyped, DataTyped, ThreadTyped, UserRecords, DataRecords, ThreadRecords

\* What the types say of one user, one data, one thread.
LEMMA Fields ==
    ASSUME TypeOK
    PROVE  /\ platform \in {"unix", "kettle", "pc", "cpp11"}
           /\ \A u \in Users : /\ user[u] \in UserRecords
                               /\ user[u].pc \in UserLabels /\ user[u].obj \in Users
                               /\ user[u].ptr \in Data \cup {None} /\ user[u].next \in UserLabels
                               /\ user[u].answer \in Answers
                               /\ mpData[u] \in Data \cup {None} /\ enumData[u] \in Slots \cup {None}
           /\ \A d \in Data : /\ data[d] \in DataRecords
                              /\ data[d].used \in BOOLEAN /\ data[d].live \in BOOLEAN
                              /\ data[d].mThreadId \in Users \cup Threads \cup {None}
                              /\ data[d].mSysThreadId \in Threads \cup {None}
                              /\ data[d].mnStatus \in Answers /\ data[d].mnRefCount \in Nat
                              /\ data[d].mStartedSemaphore \in 0 .. 1
           /\ \A n \in Threads : /\ thread[n] \in ThreadRecords
                                 /\ thread[n].pc \in ThreadLabels
                                 /\ thread[n].ptr \in Data \cup {None} /\ thread[n].by \in Users \cup {None}
                                 /\ handle[n] \in Nat
<1> USE DEF TypeOK
<1>1. platform \in {"unix", "kettle", "pc", "cpp11"}
  OBVIOUS
<1>2. ASSUME NEW u \in Users
      PROVE  /\ user[u] \in UserRecords
             /\ user[u].pc \in UserLabels /\ user[u].obj \in Users
             /\ user[u].ptr \in Data \cup {None} /\ user[u].next \in UserLabels
             /\ user[u].answer \in Answers
             /\ mpData[u] \in Data \cup {None} /\ enumData[u] \in Slots \cup {None}
  BY <1>2 DEF UserRecords
<1>3. ASSUME NEW d \in Data
      PROVE  /\ data[d] \in DataRecords
             /\ data[d].used \in BOOLEAN /\ data[d].live \in BOOLEAN
             /\ data[d].mThreadId \in Users \cup Threads \cup {None}
             /\ data[d].mSysThreadId \in Threads \cup {None}
             /\ data[d].mnStatus \in Answers /\ data[d].mnRefCount \in Nat
             /\ data[d].mStartedSemaphore \in 0 .. 1
  BY <1>3 DEF DataRecords
<1>4. ASSUME NEW n \in Threads
      PROVE  /\ thread[n] \in ThreadRecords
             /\ thread[n].pc \in ThreadLabels
             /\ thread[n].ptr \in Data \cup {None} /\ thread[n].by \in Users \cup {None}
             /\ handle[n] \in Nat
  BY <1>4 DEF ThreadRecords
<1> QED
  BY <1>1, <1>2, <1>3, <1>4

LEMMA GoMeans ==
    ASSUME UserTyped, NEW u \in Users, NEW l \in UserLabels, Go(u, l)
    PROVE  UserTyped' /\ UserGoes(u, l)
<1>1. user[u] \in UserRecords
  BY DEF UserTyped
<1>2. [user[u] EXCEPT !.pc = l] = [pc |-> l, obj |-> user[u].obj, ptr |-> user[u].ptr,
                                   next |-> user[u].next, answer |-> user[u].answer]
  BY <1>1 DEF UserRecords
<1>3. [user[u] EXCEPT !.pc = l] \in UserRecords
  BY <1>1, <1>2 DEF UserRecords
<1>4. user' = [user EXCEPT ![u] = [user[u] EXCEPT !.pc = l]]
  BY DEF Go, UserTyped
<1> QED
  BY <1>2, <1>3, <1>4 DEF UserTyped, UserGoes, UserIs

LEMMA BecomesMeans ==
    ASSUME UserTyped, NEW u \in Users, NEW p \in UserLabels, NEW o \in Users, NEW x \in Data \cup {None},
           NEW k \in UserLabels, NEW a \in Answers,
           user' = [user EXCEPT ![u] = [pc |-> p, obj |-> o, ptr |-> x, next |-> k, answer |-> a]]
    PROVE  UserTyped' /\ UserIs(u, p, o, x, k, a)
<1>1. [pc |-> p, obj |-> o, ptr |-> x, next |-> k, answer |-> a] \in UserRecords
  BY DEF UserRecords
<1> QED
  BY <1>1 DEF UserTyped, UserIs

LEMMA ReturnMeans ==
    ASSUME UserTyped, NEW u \in Users, Return(u)
    PROVE  UserTyped' /\ UserReturns(u)
<1>1. "idle" \in UserLabels /\ "none" \in Answers /\ None \in Data \cup {None}
  BY DEF UserLabels, Answers
<1>2. user' = [user EXCEPT ![u] = [pc |-> "idle", obj |-> u, ptr |-> None, next |-> "idle", answer |-> "none"]]
  BY DEF Return, Idle
<1> QED
  BY <1>1, <1>2, BecomesMeans DEF UserReturns

LEMMA GoWithMeans ==
    ASSUME UserTyped, NEW u \in Users, NEW l \in UserLabels, NEW a \in Answers, GoWith(u, l, a)
    PROVE  UserTyped' /\ UserIs(u, l, user[u].obj, user[u].ptr, user[u].next, a)
<1>1. user[u] \in UserRecords
  BY DEF UserTyped
<1>2. [user[u] EXCEPT !.pc = l, !.answer = a] =
          [pc |-> l, obj |-> user[u].obj, ptr |-> user[u].ptr, next |-> user[u].next, answer |-> a]
  <2> DEFINE r == [user[u] EXCEPT !.pc = l, !.answer = a]
  <2>1. r \in UserRecords
    BY <1>1 DEF UserRecords
  <2>2. /\ r.pc = l /\ r.answer = a /\ r.obj = user[u].obj /\ r.ptr = user[u].ptr /\ r.next = user[u].next
    BY <1>1 DEF UserRecords
  <2> HIDE DEF r
  <2>3. r = [pc |-> l, obj |-> user[u].obj, ptr |-> user[u].ptr, next |-> user[u].next, answer |-> a]
    BY <2>1, <2>2 DEF UserRecords
  <2> QED
    BY <2>3 DEF r
<1>3. user' = [user EXCEPT ![u] = [user[u] EXCEPT !.pc = l, !.answer = a]]
  BY DEF GoWith, UserTyped
<1>4. /\ user[u].obj \in Users /\ user[u].ptr \in Data \cup {None} /\ user[u].next \in UserLabels
  BY <1>1 DEF UserRecords
<1> QED
  BY <1>2, <1>3, <1>4, BecomesMeans

LEMMA PtrMeans ==
    ASSUME UserTyped, NEW u \in Users, NEW l \in UserLabels, NEW d \in Data,
           user' = [user EXCEPT ![u] = [@ EXCEPT !.pc = l, !.ptr = d]]
    PROVE  UserTyped' /\ UserIs(u, l, user[u].obj, d, user[u].next, user[u].answer)
<1>1. user[u] \in UserRecords
  BY DEF UserTyped
<1>2. [user[u] EXCEPT !.pc = l, !.ptr = d] =
          [pc |-> l, obj |-> user[u].obj, ptr |-> d, next |-> user[u].next, answer |-> user[u].answer]
  <2> DEFINE r == [user[u] EXCEPT !.pc = l, !.ptr = d]
  <2>1. r \in UserRecords
    BY <1>1 DEF UserRecords
  <2>2. /\ r.pc = l /\ r.ptr = d /\ r.obj = user[u].obj /\ r.answer = user[u].answer /\ r.next = user[u].next
    BY <1>1 DEF UserRecords
  <2> HIDE DEF r
  <2>3. r = [pc |-> l, obj |-> user[u].obj, ptr |-> d, next |-> user[u].next, answer |-> user[u].answer]
    BY <2>1, <2>2 DEF UserRecords
  <2> QED
    BY <2>3 DEF r
<1>3. user' = [user EXCEPT ![u] = [user[u] EXCEPT !.pc = l, !.ptr = d]]
  BY DEF UserTyped
<1>4. user[u].obj \in Users /\ user[u].next \in UserLabels /\ user[u].answer \in Answers
  BY <1>1 DEF UserRecords
<1> QED
  BY <1>2, <1>3, <1>4, BecomesMeans

LEMMA ObjMeans ==
    ASSUME UserTyped, NEW u \in Users, NEW l \in UserLabels, NEW o \in Users,
           user' = [user EXCEPT ![u] = [@ EXCEPT !.pc = l, !.obj = o]]
    PROVE  UserTyped' /\ UserIs(u, l, o, user[u].ptr, user[u].next, user[u].answer)
<1>1. user[u] \in UserRecords
  BY DEF UserTyped
<1>2. [user[u] EXCEPT !.pc = l, !.obj = o] =
          [pc |-> l, obj |-> o, ptr |-> user[u].ptr, next |-> user[u].next, answer |-> user[u].answer]
  <2> DEFINE r == [user[u] EXCEPT !.pc = l, !.obj = o]
  <2>1. r \in UserRecords
    BY <1>1 DEF UserRecords
  <2>2. /\ r.pc = l /\ r.obj = o /\ r.ptr = user[u].ptr /\ r.answer = user[u].answer /\ r.next = user[u].next
    BY <1>1 DEF UserRecords
  <2> HIDE DEF r
  <2>3. r = [pc |-> l, obj |-> o, ptr |-> user[u].ptr, next |-> user[u].next, answer |-> user[u].answer]
    BY <2>1, <2>2 DEF UserRecords
  <2> QED
    BY <2>3 DEF r
<1>3. user' = [user EXCEPT ![u] = [user[u] EXCEPT !.pc = l, !.obj = o]]
  BY DEF UserTyped
<1>4. user[u].ptr \in Data \cup {None} /\ user[u].next \in UserLabels /\ user[u].answer \in Answers
  BY <1>1 DEF UserRecords
<1> QED
  BY <1>2, <1>3, <1>4, BecomesMeans

LEMMA GoThreadMeans ==
    ASSUME ThreadTyped, NEW n \in Threads, NEW l \in ThreadLabels, GoThread(n, l)
    PROVE  ThreadTyped' /\ ThreadGoes(n, l)
<1>1. thread[n] \in ThreadRecords
  BY DEF ThreadTyped
<1>2. [thread[n] EXCEPT !.pc = l] = [pc |-> l, ptr |-> thread[n].ptr, by |-> thread[n].by]
  BY <1>1 DEF ThreadRecords
<1>3. [thread[n] EXCEPT !.pc = l] \in ThreadRecords
  BY <1>1, <1>2 DEF ThreadRecords
<1>4. thread' = [thread EXCEPT ![n] = [thread[n] EXCEPT !.pc = l]]
  BY DEF GoThread, ThreadTyped
<1> QED
  BY <1>2, <1>3, <1>4 DEF ThreadTyped, ThreadGoes, ThreadIs

LEMMA ThreadMeans ==
    ASSUME ThreadTyped, NEW n \in Threads, NEW l \in ThreadLabels, NEW x \in Data \cup {None}, NEW u \in Users,
           thread' = [thread EXCEPT ![n] = [pc |-> l, ptr |-> x, by |-> u]]
    PROVE  ThreadTyped' /\ ThreadIs(n, l, x, u)
<1>1. [pc |-> l, ptr |-> x, by |-> u] \in ThreadRecords
  BY DEF ThreadRecords
<1> QED
  BY <1>1 DEF ThreadTyped, ThreadIs

LEMMA DataMeans ==
    ASSUME DataTyped, NEW d \in Data, NEW r \in DataRecords, data' = [data EXCEPT ![d] = r]
    PROVE  DataTyped' /\ data'[d] = r /\ DataStay(d)
<1> QED
  BY DEF DataTyped, DataStay

\* One field of the data is set.
LEMMA SetMeans ==
    ASSUME DataTyped, NEW d \in Data
    PROVE  /\ \A v \in Users \cup Threads \cup {None} : Set(d, "mRunMutex", v) =>
                 /\ DataTyped' /\ DataStay(d) /\ Life(d) /\ SameName(d) /\ SameCount(d) /\ SameStatus(d)
                 /\ SamePost(d)
           /\ \A v \in 0 .. 1 : Set(d, "mStartedSemaphore", v) =>
                 /\ DataTyped' /\ DataStay(d) /\ Life(d) /\ SameName(d) /\ SameCount(d) /\ SameStatus(d)
                 /\ data'[d].mStartedSemaphore = v
           /\ \A v \in Answers : Set(d, "mnStatus", v) =>
                 /\ DataTyped' /\ DataStay(d) /\ Life(d) /\ SameName(d) /\ SameCount(d) /\ SamePost(d)
                 /\ data'[d].mnStatus = v
           /\ \A v \in BOOLEAN : Set(d, "hasValue", v) =>
                 /\ DataTyped' /\ DataStay(d) /\ Life(d) /\ SameName(d) /\ SameCount(d) /\ SameStatus(d)
                 /\ SamePost(d)
           /\ \A v \in Threads \cup {None} : Set(d, "mThreadId", v) =>
                 /\ DataTyped' /\ DataStay(d) /\ Life(d) /\ SameCount(d) /\ SameStatus(d) /\ SamePost(d)
                 /\ data'[d].mThreadId = v
           /\ \A v \in Threads : Set(d, "mSysThreadId", v) =>
                 /\ DataTyped' /\ DataStay(d) /\ SameName(d) /\ SameCount(d) /\ SameStatus(d) /\ SamePost(d)
                 /\ data'[d].mSysThreadId = v
                 /\ data'[d].used = data[d].used /\ data'[d].live = data[d].live
<1>1. data[d] \in DataRecords
  BY DEF DataTyped
<1>2. ASSUME NEW v \in Users \cup Threads \cup {None}, Set(d, "mRunMutex", v)
      PROVE  /\ DataTyped' /\ DataStay(d) /\ Life(d) /\ SameName(d) /\ SameCount(d) /\ SameStatus(d)
             /\ SamePost(d)
  <2>1. [data[d] EXCEPT !["mRunMutex"] = v] \in DataRecords
    BY <1>1 DEF DataRecords
  <2>2. data' = [data EXCEPT ![d] = [data[d] EXCEPT !["mRunMutex"] = v]]
    BY <1>2 DEF Set, DataTyped
  <2>3. DataTyped' /\ DataStay(d) /\ data'[d] = [data[d] EXCEPT !["mRunMutex"] = v]
    BY <2>1, <2>2, DataMeans
  <2> QED
    BY <1>1, <2>3 DEF Life, SameName, SameCount, SameStatus, SamePost, DataRecords
<1>3. ASSUME NEW v \in 0 .. 1, Set(d, "mStartedSemaphore", v)
      PROVE  /\ DataTyped' /\ DataStay(d) /\ Life(d) /\ SameName(d) /\ SameCount(d) /\ SameStatus(d)
             /\ data'[d].mStartedSemaphore = v
  <2>1. [data[d] EXCEPT !["mStartedSemaphore"] = v] \in DataRecords
    BY <1>1 DEF DataRecords
  <2>2. data' = [data EXCEPT ![d] = [data[d] EXCEPT !["mStartedSemaphore"] = v]]
    BY <1>3 DEF Set, DataTyped
  <2>3. DataTyped' /\ DataStay(d) /\ data'[d] = [data[d] EXCEPT !["mStartedSemaphore"] = v]
    BY <2>1, <2>2, DataMeans
  <2> QED
    BY <1>1, <2>3 DEF Life, SameName, SameCount, SameStatus, DataRecords
<1>4. ASSUME NEW v \in Answers, Set(d, "mnStatus", v)
      PROVE  /\ DataTyped' /\ DataStay(d) /\ Life(d) /\ SameName(d) /\ SameCount(d) /\ SamePost(d)
             /\ data'[d].mnStatus = v
  <2>1. [data[d] EXCEPT !["mnStatus"] = v] \in DataRecords
    BY <1>1 DEF DataRecords
  <2>2. data' = [data EXCEPT ![d] = [data[d] EXCEPT !["mnStatus"] = v]]
    BY <1>4 DEF Set, DataTyped
  <2>3. DataTyped' /\ DataStay(d) /\ data'[d] = [data[d] EXCEPT !["mnStatus"] = v]
    BY <2>1, <2>2, DataMeans
  <2> QED
    BY <1>1, <2>3 DEF Life, SameName, SameCount, SamePost, DataRecords
<1>5. ASSUME NEW v \in BOOLEAN, Set(d, "hasValue", v)
      PROVE  /\ DataTyped' /\ DataStay(d) /\ Life(d) /\ SameName(d) /\ SameCount(d) /\ SameStatus(d)
             /\ SamePost(d)
  <2>1. [data[d] EXCEPT !["hasValue"] = v] \in DataRecords
    BY <1>1 DEF DataRecords
  <2>2. data' = [data EXCEPT ![d] = [data[d] EXCEPT !["hasValue"] = v]]
    BY <1>5 DEF Set, DataTyped
  <2>3. DataTyped' /\ DataStay(d) /\ data'[d] = [data[d] EXCEPT !["hasValue"] = v]
    BY <2>1, <2>2, DataMeans
  <2> QED
    BY <1>1, <2>3 DEF Life, SameName, SameCount, SameStatus, SamePost, DataRecords
<1>6. ASSUME NEW v \in Threads \cup {None}, Set(d, "mThreadId", v)
      PROVE  /\ DataTyped' /\ DataStay(d) /\ Life(d) /\ SameCount(d) /\ SameStatus(d) /\ SamePost(d)
             /\ data'[d].mThreadId = v
  <2>1. [data[d] EXCEPT !["mThreadId"] = v] \in DataRecords
    BY <1>1 DEF DataRecords
  <2>2. data' = [data EXCEPT ![d] = [data[d] EXCEPT !["mThreadId"] = v]]
    BY <1>6 DEF Set, DataTyped
  <2>3. DataTyped' /\ DataStay(d) /\ data'[d] = [data[d] EXCEPT !["mThreadId"] = v]
    BY <2>1, <2>2, DataMeans
  <2> QED
    BY <1>1, <2>3 DEF Life, SameCount, SameStatus, SamePost, DataRecords
<1>7. ASSUME NEW v \in Threads, Set(d, "mSysThreadId", v)
      PROVE  /\ DataTyped' /\ DataStay(d) /\ SameName(d) /\ SameCount(d) /\ SameStatus(d) /\ SamePost(d)
             /\ data'[d].mSysThreadId = v
             /\ data'[d].used = data[d].used /\ data'[d].live = data[d].live
  <2>1. [data[d] EXCEPT !["mSysThreadId"] = v] \in DataRecords
    BY <1>1 DEF DataRecords
  <2>2. data' = [data EXCEPT ![d] = [data[d] EXCEPT !["mSysThreadId"] = v]]
    BY <1>7 DEF Set, DataTyped
  <2>3. DataTyped' /\ DataStay(d) /\ data'[d] = [data[d] EXCEPT !["mSysThreadId"] = v]
    BY <2>1, <2>2, DataMeans
  <2> QED
    BY <1>1, <2>3 DEF SameName, SameCount, SameStatus, SamePost, DataRecords
<1> QED
  BY <1>2, <1>3, <1>4, <1>5, <1>6, <1>7

\* The count of some data becomes k.
LEMMA CountMeans ==
    ASSUME DataTyped, NEW d \in Data, NEW k \in Nat, data' = [data EXCEPT ![d].mnRefCount = k]
    PROVE  DataTyped' /\ CountIs(d, k)
<1>1. data[d] \in DataRecords
  BY DEF DataTyped
<1>2. [data[d] EXCEPT !.mnRefCount = k] \in DataRecords
  BY <1>1 DEF DataRecords
<1>3. data' = [data EXCEPT ![d] = [data[d] EXCEPT !.mnRefCount = k]]
  BY DEF DataTyped
<1>4. DataTyped' /\ DataStay(d) /\ data'[d] = [data[d] EXCEPT !.mnRefCount = k]
  BY <1>2, <1>3, DataMeans
<1> QED
  BY <1>1, <1>4 DEF CountIs, Life, SameName, SameStatus, SamePost, DataRecords

\* A user releases k of the references there are.
LEMMA ReleasesMeans ==
    ASSUME TypeOK, NEW u \in Users, NEW d \in Data, NEW k \in Nat, NEW l \in {"idle", "allocate"},
           data[d].mnRefCount >= k, UserReleasesSome(u, d, k, l)
    PROVE  UserTyped' /\ DataTyped' /\ GivesUp(u, d, k, l)
<1>0. UserTyped /\ DataTyped /\ data[d].mnRefCount \in Nat /\ user[u] \in UserRecords
  BY Types, Fields
<1>1. DataTyped' /\ CountIs(d, data[d].mnRefCount - k)
  <2>1. data' = [data EXCEPT ![d].mnRefCount = data[d].mnRefCount - k]
    BY <1>0 DEF UserReleasesSome, DataTyped
  <2>2. data[d].mnRefCount - k \in Nat
    BY <1>0
  <2> QED
    BY <1>0, <2>1, <2>2, CountMeans
<1>2. CASE data[d].mnRefCount = k
  <2> DEFINE r == [user[u] EXCEPT !.pc = "free", !.ptr = d, !.next = l]
  <2>1. user' = [user EXCEPT ![u] = r]
    BY <1>0, <1>2 DEF UserReleasesSome, UserTyped
  <2>2. r \in UserRecords
    BY <1>0 DEF UserRecords, UserLabels, BeginLabels
  <2>3. r.pc = "free" /\ r.ptr = d /\ r.next = l /\ r.obj = user[u].obj /\ r.answer = user[u].answer
    BY <1>0 DEF UserRecords
  <2> HIDE DEF r
  <2>4. r = [pc |-> "free", obj |-> user[u].obj, ptr |-> d, next |-> l, answer |-> user[u].answer]
    BY <2>2, <2>3 DEF UserRecords
  <2>5. UserTyped' /\ UserIs(u, "free", user[u].obj, d, l, user[u].answer)
    BY <1>0, <2>1, <2>2, <2>4 DEF UserTyped, UserIs
  <2> QED
    BY <1>1, <1>2, <2>5 DEF GivesUp
<1>3. CASE data[d].mnRefCount # k /\ l = "idle"
  <2>1. Return(u)
    BY <1>3 DEF UserReleasesSome, Return
  <2> QED
    BY <1>0, <1>1, <1>3, <2>1, ReturnMeans DEF GivesUp
<1>4. CASE data[d].mnRefCount # k /\ l = "allocate"
  <2>1. Go(u, l)
    BY <1>0, <1>4 DEF UserReleasesSome, Go, UserTyped
  <2>2. l \in UserLabels
    BY DEF UserLabels, BeginLabels
  <2> QED
    BY <1>0, <1>1, <1>4, <2>1, <2>2, GoMeans DEF GivesUp
<1> QED
  BY <1>2, <1>3, <1>4

\* The handle of thread m, if m is one, is released once more.
LEMMA HandleMeans ==
    ASSUME handle \in [Threads -> Nat], NEW m
    PROVE  /\ handle' = [handle EXCEPT ![m] = @ + 1] => handle' \in [Threads -> Nat] /\ Released(m)
           /\ handle' = handle /\ m \notin Threads => handle' \in [Threads -> Nat] /\ Released(m)
<1> QED
  BY DEF Released, Value

LEMMA FreeMeans ==
    ASSUME TypeOK, NEW d \in Data, Free(d)
    PROVE  DataTyped' /\ handle' \in [Threads -> Nat] /\ Frees(d)
<1>0. DataTyped /\ handle \in [Threads -> Nat]
  BY Types
<1>1. Fresh \in DataRecords
  BY DEF Fresh, DataRecords, Answers
<1>2. DataTyped' /\ data'[d] = Fresh /\ DataStay(d)
  BY <1>0, <1>1, DataMeans DEF Free
<1>3. handle' \in [Threads -> Nat] /\ Released(data[d].mThreadId)
  BY <1>0, HandleMeans DEF Free
<1> QED
  BY <1>2, <1>3 DEF Frees

\* The objects of a user, or its result of EnumerateThreads, change.
LEMMA ObjectMeans ==
    ASSUME mpData \in [Users -> Data \cup {None}], NEW u \in Users, NEW m \in Data \cup {None},
           mpData' = [mpData EXCEPT ![u] = m]
    PROVE  mpData' \in [Users -> Data \cup {None}] /\ ObjectHas(u, m)
<1> QED
  BY DEF ObjectHas

LEMMA EnumMeans ==
    ASSUME enumData \in [Users -> Slots \cup {None}], NEW u \in Users, NEW m \in Slots \cup {None},
           enumData' = [enumData EXCEPT ![u] = m]
    PROVE  enumData' \in [Users -> Slots \cup {None}] /\ EnumHas(u, m)
<1> QED
  BY DEF EnumHas

-----------------------------------------------------------------------------
(* What the invariant says of the counts.                                  *)

LEMMA Counted ==
    ASSUME TypeOK, CountInv, NEW d \in Data
    PROVE  /\ \A u \in Users : data[d].mnRefCount >= References(u, d) /\ References(u, d) \in Nat
           /\ \A u \in Users, n \in Threads : data[d].mnRefCount >= References(u, d) + Value(Runs(n, d))
           /\ \A n \in Threads : data[d].mnRefCount >= Value(Runs(n, d))
           /\ data[d].mnRefCount \in Nat /\ data[d].mnRefCount >= CallersOwn(d)
<1>1. data[d].mnRefCount = UserRefs(d) + ThreadRefs(d) + CallersOwn(d)
  BY DEF CountInv
<1>2. \A b : Value(b) \in Nat
  BY DEF Value
<1> QED
  BY <1>1, <1>2, RefsAreNumbers

\* Nobody has data without references.
LEMMA NobodyOwns ==
    ASSUME TypeOK, CountInv, NEW d \in Data, data[d].mnRefCount = 0
    PROVE  /\ \A u \in Users : /\ ~HasObject(u, d) /\ ~HasBegun(u, d) /\ ~HasCreation(u, d)
                               /\ ~HasEnumerated(u, d)
           /\ \A n \in Threads : ~Runs(n, d)
           /\ ~External(d)
<1>1. ASSUME NEW u \in Users
      PROVE  ~HasObject(u, d) /\ ~HasBegun(u, d) /\ ~HasCreation(u, d) /\ ~HasEnumerated(u, d)
  BY Counted DEF References, Value
<1>2. ASSUME NEW n \in Threads PROVE ~Runs(n, d)
  BY Counted DEF Value
<1>3. ~External(d)
  BY Counted DEF CallersOwn
<1> QED
  BY <1>1, <1>2, <1>3

\* New data, and what is allocated, constructed or made for a caller.
LEMMA FreshFields ==
    /\ Fresh \in DataRecords
    /\ Fresh.used = FALSE /\ Fresh.live = FALSE /\ Fresh.mThreadId = None /\ Fresh.mSysThreadId = None
    /\ Fresh.mnStatus = "none" /\ Fresh.mnRefCount = 0 /\ Fresh.mStartedSemaphore = 0
<1> QED
  BY DEF Fresh, DataRecords, Answers

LEMMA NewFields ==
    /\ \A b \in BOOLEAN : LET r == [Fresh EXCEPT !.used = b] IN
          /\ r \in DataRecords /\ r.used = b /\ r.live = FALSE /\ r.mThreadId = None
          /\ r.mSysThreadId = None /\ r.mnStatus = "none" /\ r.mnRefCount = 0 /\ r.mStartedSemaphore = 0
    /\ \A k \in Nat : LET r == [Fresh EXCEPT !.used = TRUE, !.live = TRUE, !.mnRefCount = k] IN
          /\ r \in DataRecords /\ r.used = TRUE /\ r.live = TRUE /\ r.mThreadId = None
          /\ r.mSysThreadId = None /\ r.mnStatus = "none" /\ r.mnRefCount = k /\ r.mStartedSemaphore = 0
    /\ \A u \in Users, k \in Nat :
          LET r == [Fresh EXCEPT !.used = TRUE, !.live = TRUE, !.mThreadId = u, !.mnRefCount = k] IN
          /\ r \in DataRecords /\ r.used = TRUE /\ r.live = TRUE /\ r.mThreadId = u
          /\ r.mSysThreadId = None /\ r.mnStatus = "none" /\ r.mnRefCount = k /\ r.mStartedSemaphore = 0
    /\ \A n \in Threads, k \in Nat :
          LET r == [Fresh EXCEPT !.used = TRUE, !.live = TRUE, !.mnRefCount = k, !.mSysThreadId = n] IN
          /\ r \in DataRecords /\ r.used = TRUE /\ r.live = TRUE /\ r.mThreadId = None
          /\ r.mSysThreadId = n /\ r.mnStatus = "none" /\ r.mnRefCount = k /\ r.mStartedSemaphore = 0
<1> QED
  BY FreshFields DEF DataRecords

\* Data that is not alive names nothing.
LEMMA DeadFields ==
    ASSUME TypeOK, DataInv, NEW d \in Data, ~data[d].live
    PROVE  /\ data[d].mnRefCount = 0 /\ data[d].mThreadId = None /\ data[d].mSysThreadId = None
           /\ data[d].mnStatus = "none" /\ data[d].mStartedSemaphore = 0
<1>1. data[d].used \in BOOLEAN /\ data[d] = [Fresh EXCEPT !.used = data[d].used]
  BY Fields DEF DataInv
<1> DEFINE b == data[d].used
<1>2. b \in BOOLEAN /\ data[d] = [Fresh EXCEPT !.used = b]
  BY <1>1
<1>3. LET r == [Fresh EXCEPT !.used = b] IN
      /\ r.mnRefCount = 0 /\ r.mThreadId = None /\ r.mSysThreadId = None
      /\ r.mnStatus = "none" /\ r.mStartedSemaphore = 0
  BY <1>2, NewFields
<1> HIDE DEF b
<1> QED
  BY <1>2, <1>3

LEMMA LiveIfCounted ==
    ASSUME TypeOK, DataInv, NEW d \in Data, data[d].mnRefCount # 0
    PROVE  data[d].live /\ data[d].used
<1> QED
  BY DeadFields, Fields DEF DataInv

\* So data that somebody has is alive.
LEMMA LiveIfOwned ==
    ASSUME TypeOK, CountInv, DataInv, NEW d \in Data
    PROVE  /\ \A u \in Users : HasObject(u, d) \/ HasBegun(u, d) \/ HasCreation(u, d) \/ HasEnumerated(u, d) =>
                 data[d].live /\ data[d].used /\ data[d].mnRefCount > 0
           /\ \A n \in Threads : Runs(n, d) => data[d].live /\ data[d].used /\ data[d].mnRefCount > 0
           /\ External(d) => data[d].live /\ data[d].used /\ data[d].mnRefCount > 0
<1>1. data[d].mnRefCount \in Nat
  BY Fields
<1> QED
  BY <1>1, NobodyOwns, LiveIfCounted

-----------------------------------------------------------------------------
(* Each step keeps the types and does one of the above.                    *)

LEMMA TypesOn ==
    ASSUME TypeOK, platform' = platform, UserTyped', DataTyped', ThreadTyped',
           mpData' \in [Users -> Data \cup {None}], handle' \in [Threads -> Nat],
           enumData' \in [Users -> Slots \cup {None}]
    PROVE  TypeOK'
<1> QED
  BY DEF TypeOK, UserTyped, DataTyped, ThreadTyped, UserRecords, DataRecords, ThreadRecords

LEMMA Labels ==
    /\ UserLabels = {"idle", "free", "poll", "enumerate",
                     "release", "allocate", "construct", "create", "identify", "resume",
                     "publish", "created", "name",
                     "check", "startedWait", "repost", "lockRun", "joinLocked", "join",
                     "unlockRun", "waitHandle", "close", "zero", "value", "return",
                     "closeForStatus", "zeroForStatus"}
    /\ ThreadLabels = {"unborn", "suspended", "created", "locked", "posted", "running", "valued",
                       "ended", "unlocked", "free", "exited"}
    /\ Answers = {"none", "running", "ended"}
<1> QED
  BY DEF UserLabels, BeginLabels, WaitLabels, StatusLabels, ThreadLabels, Answers

\* What variables a step leaves alone keep their types.
LEMMA Stays ==
    ASSUME TypeOK
    PROVE  /\ UserTyped /\ DataTyped /\ ThreadTyped
           /\ UNCHANGED user => UserTyped'
           /\ UNCHANGED data => DataTyped'
           /\ UNCHANGED thread => ThreadTyped'
           /\ mpData \in [Users -> Data \cup {None}] /\ handle \in [Threads -> Nat]
           /\ enumData \in [Users -> Slots \cup {None}]
<1> QED
  BY Types DEF UserTyped, DataTyped, ThreadTyped

LEMMA BeginFindsDoes ==
    ASSUME TypeOK, NEW u \in Users, NEW k \in Nat, k = IF platform = "cpp11" THEN 3 ELSE 2,
           BeginFinds(u, k)
    PROVE  TypeOK' /\ Begins(u)
<1> DEFINE l == IF mpData[u] = None THEN "allocate" ELSE "release"
<1>1. UserTyped' /\ UserGoes(u, l)
  <2>1. l \in UserLabels /\ Go(u, l)
    BY Labels DEF BeginFinds
  <2> QED
    BY <2>1, Stays, GoMeans
<1>2. CASE UNCHANGED data
  BY <1>1, <1>2, Stays, TypesOn DEF BeginFinds, Begins
<1>3. CASE ~UNCHANGED data
  <2>1. PICK d \in Allocatable : data' = [data EXCEPT ![d] =
            [Fresh EXCEPT !.used = TRUE, !.live = TRUE, !.mThreadId = u, !.mnRefCount = k]]
    BY <1>3 DEF BeginFinds
  <2>2. d \in Data /\ ~data[d].used
    BY <2>1 DEF Allocatable
  <2>3. [Fresh EXCEPT !.used = TRUE, !.live = TRUE, !.mThreadId = u, !.mnRefCount = k] \in DataRecords
    BY NewFields
  <2>4. /\ DataTyped' /\ DataStay(d)
        /\ data'[d] = [Fresh EXCEPT !.used = TRUE, !.live = TRUE, !.mThreadId = u, !.mnRefCount = k]
    BY <2>1, <2>2, <2>3, DataMeans, Stays
  <2>5. TypeOK'
    BY <1>1, <2>4, Stays, TypesOn DEF BeginFinds
  <2> QED
    BY <1>1, <2>2, <2>4, <2>5 DEF BeginFinds, Begins
<1> QED
  BY <1>2, <1>3

LEMMA BeginObjectDoes ==
    ASSUME TypeOK, NEW u \in Users, BeginObject(u)
    PROVE  TypeOK' /\ Begins(u)
<1> DEFINE l == IF mpData[u] = None THEN "allocate" ELSE "release"
<1>1. UserTyped' /\ UserGoes(u, l)
  <2>1. l \in UserLabels /\ Go(u, l)
    BY Labels DEF BeginObject
  <2> QED
    BY <2>1, Stays, GoMeans
<1> QED
  BY <1>1, Stays, TypesOn DEF BeginObject, Begins

\* Who has a reference may give it up.
LEMMA MayGiveUp ==
    ASSUME ThreadInv, NEW u \in Users
    PROVE  /\ At(u, "release") => mpData[u] \in Data /\ data[mpData[u]].mnRefCount >= 1
           /\ At(u, "create") => user[u].ptr \in Data /\ data[user[u].ptr].mnRefCount >= 3
           /\ At(u, "created") /\ platform # "cpp11" => user[u].ptr \in Data /\ data[user[u].ptr].mnRefCount >= 1
           /\ At(u, "idle") /\ mpData[u] # None => mpData[u] \in Data /\ data[mpData[u]].mnRefCount >= 1
           /\ enumData[u] # None => enumData[u] \in Data /\ data[enumData[u]].mnRefCount >= 1
<1> USE DEF ThreadInv
<1>0. \A d \in Data : data[d].mnRefCount \in Nat /\ data[d].mnRefCount >= References(u, d)
  BY Counted
<1>1. /\ user[u].ptr \in Data \cup {None} /\ mpData[u] \in Data \cup {None}
      /\ enumData[u] \in Slots \cup {None} /\ Slots \subseteq Data
  BY Fields, Apart
<1>2. /\ At(u, "release") => mpData[u] \in Data
      /\ user[u].pc \in {"create", "created"} => user[u].ptr \in Data
      /\ user[u].next = "idle" \/ At(u, "free")
      /\ At(u, "create") => mpData[u] = user[u].ptr
  BY DEF UserInv, BuildInv, Building
<1>3. At(u, "release") => mpData[u] \in Data /\ data[mpData[u]].mnRefCount >= 1
  <2>1. At(u, "release") => HasObject(u, mpData[u])
    BY <1>2 DEF HasObject, At
  <2> QED
    BY <1>0, <1>2, <2>1 DEF References, Value
<1>4. At(u, "create") => user[u].ptr \in Data /\ data[user[u].ptr].mnRefCount >= 3
  <2>1. At(u, "create") => HasObject(u, user[u].ptr) /\ HasCreation(u, user[u].ptr)
    BY <1>2 DEF HasObject, HasCreation, At
  <2>2. At(u, "create") => References(u, user[u].ptr) >= 3
    BY <2>1 DEF References, Value
  <2> QED
    BY <1>0, <1>2, <2>2, Counted DEF At
<1>5. At(u, "created") /\ platform # "cpp11" => user[u].ptr \in Data /\ data[user[u].ptr].mnRefCount >= 1
  <2>1. At(u, "created") /\ platform # "cpp11" => HasBegun(u, user[u].ptr)
    BY DEF HasBegun, At
  <2> QED
    BY <1>0, <1>2, <2>1 DEF References, Value, At
<1>6. At(u, "idle") /\ mpData[u] # None => mpData[u] \in Data /\ data[mpData[u]].mnRefCount >= 1
  <2>1. At(u, "idle") /\ mpData[u] # None => HasObject(u, mpData[u])
    BY <1>2 DEF HasObject, At
  <2> QED
    BY <1>0, <1>1, <2>1 DEF References, Value
<1>7. enumData[u] # None => enumData[u] \in Data /\ data[enumData[u]].mnRefCount >= 1
  <2>1. HasEnumerated(u, enumData[u])
    BY DEF HasEnumerated
  <2> QED
    BY <1>0, <1>1, <2>1 DEF References, Value
<1> QED
  BY <1>3, <1>4, <1>5, <1>6, <1>7

LEMMA BeginReleasesDoes ==
    ASSUME ThreadInv, NEW u \in Users, BeginReleases(u)
    PROVE  TypeOK' /\ ReleasesOld(u)
<1>1. TypeOK /\ At(u, "release") /\ mpData[u] \in Data /\ data[mpData[u]].mnRefCount >= 1
  BY MayGiveUp DEF BeginReleases, ThreadInv
<1>2. UserTyped' /\ DataTyped' /\ GivesUp(u, mpData[u], 1, "allocate")
  BY <1>1, ReleasesMeans DEF BeginReleases, UserReleases
<1> QED
  BY <1>1, <1>2, Stays, TypesOn DEF BeginReleases, ReleasesOld

LEMMA BeginAllocatesDoes ==
    ASSUME TypeOK, NEW u \in Users, BeginAllocates(u)
    PROVE  TypeOK' /\ Allocates(u)
<1>1. PICK d \in Allocatable :
         /\ data' = [data EXCEPT ![d].used = TRUE]
         /\ user' = [user EXCEPT ![u] = [@ EXCEPT !.pc = "construct", !.ptr = d]]
  BY DEF BeginAllocates
<1>2. d \in Data /\ ~data[d].used /\ data[d] \in DataRecords
  BY Fields DEF Allocatable
<1>3. DataTyped' /\ data'[d] = [data[d] EXCEPT !.used = TRUE] /\ DataStay(d)
  <2>1. [data[d] EXCEPT !.used = TRUE] \in DataRecords
    BY <1>2 DEF DataRecords
  <2>2. data' = [data EXCEPT ![d] = [data[d] EXCEPT !.used = TRUE]]
    BY <1>1, <1>2, Stays DEF DataTyped
  <2> QED
    BY <1>2, <2>1, <2>2, DataMeans, Stays
<1>4. UserTyped' /\ UserIs(u, "construct", user[u].obj, d, user[u].next, user[u].answer)
  <2>1. "construct" \in UserLabels
    BY Labels
  <2> QED
    BY <1>1, <1>2, <2>1, PtrMeans, Stays
<1> QED
  BY <1>2, <1>3, <1>4, Stays, TypesOn DEF BeginAllocates, Allocates

LEMMA AssignDoes ==
    ASSUME ThreadInv, NEW u \in Users, NEW v \in Users, Assign(u, v)
    PROVE  TypeOK' /\ Assigns(u, v)
<1>1. /\ TypeOK /\ At(u, "idle") /\ At(v, "idle") /\ mpData[u] # mpData[v]
      /\ mpData[u] # None => mpData[u] \in Data /\ data[mpData[u]].mnRefCount >= 1
      /\ mpData[v] \in Data
  BY MayGiveUp DEF Assign, ThreadInv
<1> DEFINE r(d) == IF d = mpData[v] THEN [data[d] EXCEPT !.mnRefCount = @ + 1]
                   ELSE IF d = mpData[u] THEN [data[d] EXCEPT !.mnRefCount = @ - 1]
                   ELSE data[d]
<1>2. ASSUME NEW d \in Data
      PROVE  /\ r(d) \in DataRecords
             /\ r(d).used = data[d].used /\ r(d).live = data[d].live
             /\ r(d).mSysThreadId = data[d].mSysThreadId /\ r(d).mThreadId = data[d].mThreadId
             /\ r(d).mnStatus = data[d].mnStatus /\ r(d).mStartedSemaphore = data[d].mStartedSemaphore
             /\ r(d).mnRefCount = data[d].mnRefCount + Value(d = mpData[v]) - Value(d = mpData[u])
             /\ d \notin {mpData[u], mpData[v]} => r(d) = data[d]
  <2>1. data[d] \in DataRecords /\ data[d].mnRefCount \in Nat
    BY <1>1, Fields
  <2>2. CASE d = mpData[v]
    BY <1>1, <2>1, <2>2 DEF DataRecords, Value
  <2>3. CASE d # mpData[v] /\ d = mpData[u]
    <3>1. data[d].mnRefCount - 1 \in Nat
      BY <1>1, <2>1, <2>3, Apart
    <3> QED
      BY <1>1, <2>1, <2>3, <3>1 DEF DataRecords, Value
  <2>4. CASE d # mpData[v] /\ d # mpData[u]
    BY <1>1, <2>1, <2>4 DEF Value
  <2> QED
    BY <2>2, <2>3, <2>4
<1>3. data' = [d \in Data |-> r(d)]
  BY DEF Assign
<1> HIDE DEF r
<1>4. DataTyped' /\ \A d \in Data : data'[d] = r(d)
  BY <1>2, <1>3 DEF DataTyped
<1>5. /\ \A d \in Data : Life(d) /\ SameName(d) /\ SameStatus(d) /\ SamePost(d)
      /\ \A d \in Data :
            data'[d].mnRefCount = data[d].mnRefCount + Value(d = mpData[v]) - Value(d = mpData[u])
      /\ \A d \in Data \ {mpData[u], mpData[v]} : data'[d] = data[d]
  BY <1>2, <1>4 DEF Life, SameName, SameStatus, SamePost
<1>6. mpData' \in [Users -> Data \cup {None}] /\ ObjectHas(u, mpData[v])
  BY <1>1, Stays, ObjectMeans DEF Assign
<1>7. CASE mpData[u] # None /\ data[mpData[u]].mnRefCount = 1
  <2>1. UserTyped' /\ UserIs(u, "free", user[u].obj, mpData[u], user[u].next, user[u].answer)
    <3>1. "free" \in UserLabels /\ mpData[u] \in Data
      BY <1>1, <1>7, Labels
    <3> QED
      BY <1>1, <1>7, <3>1, PtrMeans, Stays DEF Assign
  <2> QED
    BY <1>1, <1>4, <1>5, <1>6, <1>7, <2>1, Stays, TypesOn DEF Assign, Assigns
<1>8. CASE ~(mpData[u] # None /\ data[mpData[u]].mnRefCount = 1)
  <2>1. UNCHANGED user /\ UserTyped'
    BY <1>1, <1>8, Stays DEF Assign
  <2> QED
    BY <1>1, <1>4, <1>5, <1>6, <1>8, <2>1, Stays, TypesOn DEF Assign, Assigns
<1> QED
  BY <1>7, <1>8

LEMMA DestroyDoes ==
    ASSUME ThreadInv, NEW u \in Users, Destroy(u)
    PROVE  TypeOK' /\ Destroys(u)
<1>1. TypeOK /\ At(u, "idle") /\ mpData[u] \in Data /\ data[mpData[u]].mnRefCount >= 1
  BY MayGiveUp DEF Destroy, ThreadInv
<1>2. UserTyped' /\ DataTyped' /\ GivesUp(u, mpData[u], 1, "idle")
  BY <1>1, ReleasesMeans DEF Destroy, UserReleases
<1>3. mpData' \in [Users -> Data \cup {None}] /\ ObjectHas(u, None)
  BY <1>1, Stays, ObjectMeans DEF Destroy
<1> QED
  BY <1>1, <1>2, <1>3, Stays, TypesOn DEF Destroy, Destroys

LEMMA DestroyWithinDoes ==
    ASSUME Careful, ThreadInv, NEW n \in Threads, DestroyWithin(n)
    PROVE  TypeOK' /\ thread[n].by \in Users /\ DestroysWithin(n, thread[n].by)
<1> DEFINE o == thread[n].by
           d == mpData[o]
<1>1. TypeOK /\ IsAt(n, "running") /\ o \in Users /\ d = thread[n].ptr /\ d \in Data
  BY DEF DestroyWithin, ThreadInv, LiveThreadInv, IsAt
<1>2. data[d].mnRefCount \in Nat /\ data[d].mnRefCount >= 1
  <2>1. Runs(n, d)
    BY <1>1 DEF Runs, IsAt
  <2> QED
    BY <1>1, <2>1, Counted DEF Value, ThreadInv
<1>3. DataTyped' /\ CountIs(d, data[d].mnRefCount - 1)
  <2>1. data' = [data EXCEPT ![d].mnRefCount = data[d].mnRefCount - 1]
    BY <1>1, Stays DEF DestroyWithin, DataTyped
  <2>2. data[d].mnRefCount - 1 \in Nat
    BY <1>2
  <2> QED
    BY <1>1, <2>1, <2>2, Stays, CountMeans
<1>4. mpData' \in [Users -> Data \cup {None}] /\ ObjectHas(o, None)
  BY <1>1, Stays, ObjectMeans DEF DestroyWithin
<1> QED
  BY <1>1, <1>3, <1>4, Stays, TypesOn DEF DestroyWithin, DestroysWithin

LEMMA EnumerateThreadsDoes ==
    ASSUME TypeOK, NEW u \in Users, EnumerateThreads(u)
    PROVE  TypeOK' /\ Enumerates(u)
<1>1. PICK d \in Slots : user' = [user EXCEPT ![u] = [@ EXCEPT !.pc = "enumerate", !.ptr = d]]
  BY DEF EnumerateThreads
<1>2. UserTyped' /\ UserIs(u, "enumerate", user[u].obj, d, user[u].next, user[u].answer)
  <2>1. "enumerate" \in UserLabels /\ d \in Data
    BY Labels, Apart
  <2> QED
    BY <1>1, <2>1, PtrMeans, Stays
<1> QED
  BY <1>2, Stays, TypesOn DEF EnumerateThreads, Enumerates

LEMMA EnumerateAddRefsDoes ==
    ASSUME Careful, ThreadInv, NEW u \in Users, EnumerateAddRefs(u)
    PROVE  TypeOK' /\ AddsRef(u)
<1> DEFINE d == user[u].ptr
<1>1. TypeOK /\ At(u, "enumerate") /\ d \in Slots /\ d \in Data /\ data[d].live /\ data[d].mnRefCount > 0
  BY Apart DEF EnumerateAddRefs, ThreadInv, UserInv, Kept
<1>2. DataTyped' /\ CountIs(d, data[d].mnRefCount + 1)
  <2>1. data' = [data EXCEPT ![d].mnRefCount = data[d].mnRefCount + 1]
    BY <1>1, Stays DEF EnumerateAddRefs, DataTyped
  <2>2. data[d].mnRefCount + 1 \in Nat
    BY <1>1, Fields
  <2> QED
    BY <1>1, <2>1, <2>2, Stays, CountMeans
<1>3. enumData' \in [Users -> Slots \cup {None}] /\ EnumHas(u, d)
  BY <1>1, Stays, EnumMeans DEF EnumerateAddRefs
<1>4. UserTyped' /\ UserReturns(u)
  BY <1>1, Stays, ReturnMeans DEF EnumerateAddRefs
<1> QED
  BY <1>1, <1>2, <1>3, <1>4, Stays, TypesOn DEF EnumerateAddRefs, AddsRef

LEMMA EnumDataReleaseDoes ==
    ASSUME ThreadInv, NEW u \in Users, EnumDataRelease(u)
    PROVE  TypeOK' /\ ReleasesEnumerated(u)
<1>1. TypeOK /\ At(u, "idle") /\ enumData[u] \in Data /\ data[enumData[u]].mnRefCount >= 1
  BY MayGiveUp DEF EnumDataRelease, ThreadInv
<1>2. UserTyped' /\ DataTyped' /\ GivesUp(u, enumData[u], 1, "idle")
  BY <1>1, ReleasesMeans DEF EnumDataRelease, UserReleases
<1>3. enumData' \in [Users -> Slots \cup {None}] /\ EnumHas(u, None)
  BY <1>1, Stays, EnumMeans DEF EnumDataRelease
<1> QED
  BY <1>1, <1>2, <1>3, Stays, TypesOn DEF EnumDataRelease, ReleasesEnumerated

LEMMA UserFreesDoes ==
    ASSUME ThreadInv, NEW u \in Users, UserFrees(u)
    PROVE  TypeOK' /\ UserHasFreed(u)
<1>1. TypeOK /\ At(u, "free") /\ user[u].ptr \in Data /\ user[u] \in UserRecords
  BY Fields DEF UserFrees, ThreadInv, UserInv, At
<1>2. DataTyped' /\ handle' \in [Threads -> Nat] /\ Frees(user[u].ptr)
  BY <1>1, FreeMeans DEF UserFrees
<1>3. CASE user[u].next = "idle"
  <2>1. UserTyped' /\ UserReturns(u)
    BY <1>1, <1>3, Stays, ReturnMeans DEF UserFrees
  <2> QED
    BY <1>1, <1>2, <1>3, <2>1, Stays, TypesOn DEF UserFrees, UserHasFreed
<1>4. CASE user[u].next # "idle"
  <2> DEFINE r == [user[u] EXCEPT !.pc = user[u].next, !.next = "idle"]
  <2>1. user' = [user EXCEPT ![u] = r]
    BY <1>1, <1>4, Stays DEF UserFrees, UserTyped
  <2>2. r \in UserRecords
    BY <1>1, Labels DEF UserRecords
  <2>3. r.pc = user[u].next /\ r.ptr = user[u].ptr /\ r.next = "idle" /\ r.obj = user[u].obj
        /\ r.answer = user[u].answer
    BY <1>1 DEF UserRecords
  <2> HIDE DEF r
  <2>4. r = [pc |-> user[u].next, obj |-> user[u].obj, ptr |-> user[u].ptr, next |-> "idle",
             answer |-> user[u].answer]
    BY <2>2, <2>3 DEF UserRecords
  <2>5. UserTyped' /\ UserIs(u, user[u].next, user[u].obj, user[u].ptr, "idle", user[u].answer)
    BY <1>1, <2>1, <2>2, <2>4, Stays DEF UserTyped, UserIs
  <2> QED
    BY <1>1, <1>2, <1>4, <2>5, Stays, TypesOn DEF UserFrees, UserHasFreed
<1> QED
  BY <1>3, <1>4

LEMMA ThreadFreesDoes ==
    ASSUME ThreadInv, NEW n \in Threads, ThreadFrees(n)
    PROVE  TypeOK' /\ ThreadHasFreed(n)
<1>1. TypeOK /\ IsAt(n, "free") /\ thread[n].ptr \in Data
  BY DEF ThreadFrees, ThreadInv, LiveThreadInv, IsAt
<1>2. DataTyped' /\ handle' \in [Threads -> Nat] /\ Frees(thread[n].ptr)
  BY <1>1, FreeMeans DEF ThreadFrees
<1>3. ThreadTyped' /\ ThreadGoes(n, "exited")
  BY <1>1, Stays, GoThreadMeans, Labels DEF ThreadFrees
<1> QED
  BY <1>1, <1>2, <1>3, Stays, TypesOn DEF ThreadFrees, ThreadHasFreed

LEMMA ThreadReleasesDoes ==
    ASSUME ThreadInv, NEW n \in Threads, NEW l \in {"unlocked", "ended"}, ThreadReleases(n, l)
    PROVE  TypeOK' /\ ThreadGivesUp(n)
<1> DEFINE d == thread[n].ptr
           p == IF data[d].mnRefCount = 1 THEN "free" ELSE "exited"
<1>1. TypeOK /\ thread[n].pc \in {"unlocked", "ended"} /\ d \in Data
  BY DEF ThreadReleases, ThreadInv, LiveThreadInv, IsAt
<1>2. data[d].mnRefCount \in Nat /\ data[d].mnRefCount >= 1
  <2>1. Runs(n, d)
    BY <1>1 DEF Runs
  <2> QED
    BY <1>1, <2>1, Counted DEF Value, ThreadInv
<1>3. DataTyped' /\ CountIs(d, data[d].mnRefCount - 1)
  <2>1. data' = [data EXCEPT ![d].mnRefCount = data[d].mnRefCount - 1]
    BY <1>1, Stays DEF ThreadReleases, DataTyped
  <2>2. data[d].mnRefCount - 1 \in Nat
    BY <1>2
  <2> QED
    BY <1>1, <2>1, <2>2, Stays, CountMeans
<1>4. ThreadTyped' /\ ThreadGoes(n, p)
  <2>1. p \in ThreadLabels /\ GoThread(n, p)
    BY Labels DEF ThreadReleases
  <2> QED
    BY <1>1, <2>1, Stays, GoThreadMeans
<1> QED
  BY <1>1, <1>3, <1>4, Stays, TypesOn DEF ThreadReleases, ThreadGivesUp

LEMMA WaitForEndDoes ==
    ASSUME Careful, ThreadInv, NEW u \in Users, NEW o \in Users, WaitForEnd(u, o)
    PROVE  TypeOK' /\ CallsWait(u, o)
<1> DEFINE l == IF mpData[o] = None THEN "poll" ELSE "check"
<1>1. TypeOK
  BY DEF ThreadInv
<1>2. UserTyped' /\ UserIs(u, l, o, user[u].ptr, user[u].next, user[u].answer)
  <2>1. l \in UserLabels /\ user' = [user EXCEPT ![u] = [@ EXCEPT !.pc = l, !.obj = o]]
    BY Labels DEF WaitForEnd
  <2> QED
    BY <1>1, <2>1, ObjMeans, Stays
<1>3. TypeOK'
  BY <1>1, <1>2, Stays, TypesOn DEF WaitForEnd
<1> QED
  BY <1>2, <1>3 DEF WaitForEnd, CallsWait

LEMMA PollEndsDoes ==
    ASSUME Careful, ThreadInv, NEW u \in Users, PollEnds(u)
    PROVE  TypeOK' /\ Polled(u)
<1>1. TypeOK
  BY DEF ThreadInv
<1>2. UserTyped' /\ UserGoes(u, "check")
  BY <1>1, GoMeans, Stays, Labels DEF PollEnds
<1>3. TypeOK'
  BY <1>1, <1>2, Stays, TypesOn DEF PollEnds
<1> QED
  BY <1>2, <1>3 DEF PollEnds, Polled, Started

LEMMA PollTimesOutDoes ==
    ASSUME Careful, ThreadInv, NEW u \in Users, PollTimesOut(u)
    PROVE  TypeOK' /\ (Polled(u) \/ Leaves(u))
<1>1. TypeOK
  BY DEF ThreadInv
<1>2. CASE Of(u) = None
  <2>1. UserTyped' /\ UserReturns(u)
    BY <1>1, <1>2, ReturnMeans, Stays DEF PollTimesOut
  <2>2. TypeOK'
    BY <1>1, <2>1, Stays, TypesOn DEF PollTimesOut
  <2> QED
    BY <2>1, <2>2 DEF PollTimesOut, Leaves, At
<1>3. CASE Of(u) # None
  <2>1. UserTyped' /\ UserGoes(u, "check")
    BY <1>1, <1>3, GoMeans, Stays, Labels DEF PollTimesOut
  <2>2. TypeOK'
    BY <1>1, <2>1, Stays, TypesOn DEF PollTimesOut
  <2> QED
    BY <1>3, <2>1, <2>2 DEF PollTimesOut, Polled
<1> QED
  BY <1>2, <1>3

-----------------------------------------------------------------------------
(* The steps of POSIX and Kettle.                                          *)

LEMMA ConstructsDoes ==
    ASSUME ThreadInv, NEW u \in Users, BeginConstructs(u) \/ PCConstructs(u)
    PROVE  TypeOK' /\ Constructs(u)
<1> DEFINE d == user[u].ptr
           r == [Fresh EXCEPT !.used = TRUE, !.live = TRUE, !.mnRefCount = 3]
<1>1. TypeOK /\ platform # "cpp11" /\ At(u, "construct") /\ d \in Data
  BY DEF ThreadInv, UserInv, BeginConstructs, PCConstructs, Posix, PC, Building, At
<1>2. DataTyped' /\ data'[d] = r /\ DataStay(d)
  <2>1. r \in DataRecords
    BY NewFields
  <2>2. data' = [data EXCEPT ![d] = r]
    BY DEF BeginConstructs, PCConstructs
  <2> HIDE DEF r
  <2> QED
    BY <1>1, <2>1, <2>2, DataMeans, Stays
<1>3. mpData' \in [Users -> Data \cup {None}] /\ ObjectHas(u, d)
  BY <1>1, Stays, ObjectMeans DEF BeginConstructs, PCConstructs
<1>4. UserTyped' /\ UserGoes(u, "create")
  BY <1>1, GoMeans, Stays, Labels DEF BeginConstructs, PCConstructs
<1>5. UNCHANGED <<platform, thread, handle, enumData>>
  BY DEF BeginConstructs, PCConstructs
<1>6. TypeOK'
  BY <1>1, <1>2, <1>3, <1>4, <1>5, Stays, TypesOn
<1> QED
  BY <1>1, <1>2, <1>3, <1>4, <1>5, <1>6 DEF Constructs

\* The thread is made, its data names it.
LEMMA NamedMeans ==
    ASSUME DataTyped, NEW d \in Data, NEW n \in Threads,
           data' = [data EXCEPT ![d] = [@ EXCEPT !.mThreadId = n, !.mSysThreadId = n]]
    PROVE  /\ DataTyped' /\ DataStay(d) /\ SameCount(d) /\ SameStatus(d) /\ SamePost(d)
           /\ data'[d].mThreadId = n /\ data'[d].mSysThreadId = n
           /\ data'[d].used = data[d].used /\ data'[d].live = data[d].live
<1> DEFINE r == [data[d] EXCEPT !.mThreadId = n, !.mSysThreadId = n]
<1>1. data[d] \in DataRecords
  BY DEF DataTyped
<1>2. r \in DataRecords
  BY <1>1 DEF DataRecords
<1>3. /\ r.mThreadId = n /\ r.mSysThreadId = n /\ r.used = data[d].used /\ r.live = data[d].live
      /\ r.mnRefCount = data[d].mnRefCount /\ r.mnStatus = data[d].mnStatus
      /\ r.mStartedSemaphore = data[d].mStartedSemaphore
  BY <1>1 DEF DataRecords
<1>4. data' = [data EXCEPT ![d] = r]
  BY DEF DataTyped
<1> HIDE DEF r
<1>5. DataTyped' /\ DataStay(d) /\ data'[d] = r
  BY <1>2, <1>4, DataMeans
<1> QED
  BY <1>3, <1>5 DEF SameCount, SameStatus, SamePost

LEMMA CreatesDoes ==
    ASSUME ThreadInv, NEW u \in Users, BeginCreates(u) \/ KettleCreates(u) \/ PCCreates(u)
    PROVE  TypeOK' /\ \E n \in Threads, q \in {"suspended", "created"} : Creates(u, n, q)
<1> DEFINE d == user[u].ptr
<1>1. /\ TypeOK /\ platform \in {"unix", "kettle", "pc"} /\ At(u, "create") /\ d \in Data
  BY DEF ThreadInv, UserInv, BeginCreates, KettleCreates, PCCreates, PC, Kettle, Building, At
<1>2. UNCHANGED <<platform, mpData, handle, enumData>>
  BY DEF BeginCreates, KettleCreates, PCCreates
<1>3. CASE BeginCreates(u)
  <2>1. PICK n \in Threads :
          /\ Born(n)
          /\ thread' = [thread EXCEPT ![n] = [pc |-> "created", ptr |-> user[u].ptr, by |-> u]]
          /\ data' = [data EXCEPT ![user[u].ptr] = [@ EXCEPT !.mThreadId = n, !.mSysThreadId = n]]
    BY <1>3 DEF BeginCreates
  <2>2. ThreadTyped' /\ ThreadIs(n, "created", d, u)
    BY <1>1, <2>1, Stays, ThreadMeans, Labels
  <2>3. /\ DataTyped' /\ DataStay(d) /\ SameCount(d) /\ SameStatus(d) /\ SamePost(d)
        /\ data'[d].mThreadId = n /\ data'[d].mSysThreadId = n
        /\ data'[d].used = data[d].used /\ data'[d].live = data[d].live
    BY <1>1, <2>1, Stays, NamedMeans
  <2>4. UserTyped' /\ UserGoes(u, "created")
    BY <1>1, <1>3, GoMeans, Stays, Labels DEF BeginCreates
  <2>5. platform = "unix"
    BY <1>3 DEF BeginCreates
  <2>6. TypeOK'
    BY <1>1, <1>2, <2>2, <2>3, <2>4, Stays, TypesOn
  <2>7. Creates(u, n, "created")
    BY <1>1, <1>2, <2>1, <2>2, <2>3, <2>4, <2>5 DEF Creates, Born
  <2> QED
    BY <2>6, <2>7
<1>4. CASE PCCreates(u)
  <2>1. PICK n \in Threads :
          /\ Born(n)
          /\ thread' = [thread EXCEPT ![n] = [pc |-> "suspended", ptr |-> user[u].ptr, by |-> u]]
          /\ data' = [data EXCEPT ![user[u].ptr] = [@ EXCEPT !.mThreadId = n, !.mSysThreadId = n]]
    BY <1>4 DEF PCCreates
  <2>2. ThreadTyped' /\ ThreadIs(n, "suspended", d, u)
    BY <1>1, <2>1, Stays, ThreadMeans, Labels
  <2>3. /\ DataTyped' /\ DataStay(d) /\ SameCount(d) /\ SameStatus(d) /\ SamePost(d)
        /\ data'[d].mThreadId = n /\ data'[d].mSysThreadId = n
        /\ data'[d].used = data[d].used /\ data'[d].live = data[d].live
    BY <1>1, <2>1, Stays, NamedMeans
  <2>4. UserTyped' /\ UserGoes(u, "resume")
    BY <1>1, <1>4, GoMeans, Stays, Labels DEF PCCreates
  <2>5. platform = "pc"
    BY <1>4 DEF PCCreates, PC
  <2>6. TypeOK'
    BY <1>1, <1>2, <2>2, <2>3, <2>4, Stays, TypesOn
  <2>7. Creates(u, n, "suspended")
    BY <1>1, <1>2, <2>1, <2>2, <2>3, <2>4, <2>5 DEF Creates, Born
  <2> QED
    BY <2>6, <2>7
<1>5. CASE KettleCreates(u)
  <2>1. PICK n \in Threads :
          /\ Born(n)
          /\ thread' = [thread EXCEPT ![n] = [pc |-> "created", ptr |-> user[u].ptr, by |-> u]]
          /\ Set(user[u].ptr, "mSysThreadId", n)
    BY <1>5 DEF KettleCreates
  <2>2. ThreadTyped' /\ ThreadIs(n, "created", d, u)
    BY <1>1, <2>1, Stays, ThreadMeans, Labels
  <2>3. /\ DataTyped' /\ DataStay(d) /\ SameName(d) /\ SameCount(d) /\ SameStatus(d) /\ SamePost(d)
        /\ data'[d].mSysThreadId = n
        /\ data'[d].used = data[d].used /\ data'[d].live = data[d].live
    BY <1>1, <2>1, Stays, SetMeans
  <2>4. UserTyped' /\ UserGoes(u, "identify")
    BY <1>1, <1>5, GoMeans, Stays, Labels DEF KettleCreates
  <2>5. platform = "kettle"
    BY <1>5 DEF KettleCreates, Kettle
  <2>6. TypeOK'
    BY <1>1, <1>2, <2>2, <2>3, <2>4, Stays, TypesOn
  <2>7. Creates(u, n, "created")
    BY <1>1, <1>2, <2>1, <2>2, <2>3, <2>4, <2>5 DEF Creates, Born, SameName
  <2> QED
    BY <2>6, <2>7
<1> QED
  BY <1>3, <1>4, <1>5

LEMMA FailsDoes ==
    ASSUME ThreadInv, NEW u \in Users, BeginFails(u) \/ PCFails(u)
    PROVE  TypeOK' /\ CreateFails(u)
<1>1. /\ TypeOK /\ platform # "cpp11" /\ At(u, "create") /\ user[u].ptr \in Data
      /\ data[user[u].ptr].mnRefCount >= 3
  BY MayGiveUp DEF BeginFails, PCFails, ThreadInv, Posix, PC
<1>2. UserTyped' /\ DataTyped' /\ GivesUp(u, user[u].ptr, 3, "idle")
  BY <1>1, ReleasesMeans DEF BeginFails, PCFails
<1>3. mpData' \in [Users -> Data \cup {None}] /\ ObjectHas(u, None)
  BY <1>1, Stays, ObjectMeans DEF BeginFails, PCFails
<1> QED
  BY <1>1, <1>2, <1>3, Stays, TypesOn DEF BeginFails, PCFails, CreateFails

LEMMA ReturnsFromBeginDoes ==
    ASSUME ThreadInv, NEW u \in Users, BeginReturns(u) \/ PCBeginReturns(u)
    PROVE  TypeOK' /\ BeginEnds(u)
<1>1. /\ TypeOK /\ platform # "cpp11" /\ At(u, "created") /\ user[u].ptr \in Data
      /\ data[user[u].ptr].mnRefCount >= 1
  BY MayGiveUp DEF BeginReturns, PCBeginReturns, ThreadInv, Posix, PC
<1>2. UserTyped' /\ DataTyped' /\ GivesUp(u, user[u].ptr, 1, "idle")
  BY <1>1, ReleasesMeans DEF BeginReturns, PCBeginReturns, UserReleases
<1> QED
  BY <1>1, <1>2, Stays, TypesOn DEF BeginReturns, PCBeginReturns, BeginEnds

LEMMA GoesOnDoes ==
    ASSUME Careful, ThreadInv, NEW u \in Users, BeginGoesOn(u)
    PROVE  TypeOK' /\ Continues(u)
<1> DEFINE d == user[u].ptr
<1>1. /\ TypeOK /\ platform = "unix" /\ At(u, "created") /\ mpData[u] = d /\ d \in Data
      /\ user[u].next = "idle"
  BY DEF BeginGoesOn, ThreadInv, UserInv, At
<1>2. HasObject(u, d) /\ HasBegun(u, d)
  BY <1>1 DEF HasObject, HasBegun, At
<1>3. data[d].mnRefCount \in Nat /\ data[d].mnRefCount > 1
  <2>1. References(u, d) >= 2
    BY <1>2 DEF References, Value
  <2>2. data[d].mnRefCount \in Nat /\ data[d].mnRefCount >= References(u, d) /\ References(u, d) \in Nat
    BY <1>1, Counted, RefsAreNumbers DEF ThreadInv
  <2> QED
    BY <2>1, <2>2
<1>4. data[d].live
  BY <1>1, <1>2, LiveIfOwned DEF ThreadInv
<1>5. DataTyped' /\ CountIs(d, data[d].mnRefCount - 1)
  <2>1. data' = [data EXCEPT ![d].mnRefCount = data[d].mnRefCount - 1]
    BY <1>1, Stays DEF BeginGoesOn, UserReleases, UserReleasesSome, DataTyped
  <2>2. data[d].mnRefCount - 1 \in Nat
    BY <1>3
  <2> QED
    BY <1>1, <2>1, <2>2, Stays, CountMeans
<1>6. UserTyped' /\ UserGoes(u, "name")
  <2>0. UserReleasesSome(u, d, 1, "name") /\ data[d].mnRefCount # 1
    BY <1>1, <1>3 DEF BeginGoesOn, UserReleases
  <2>1. Go(u, "name")
    BY <2>0 DEF UserReleasesSome, Go
  <2> QED
    BY <1>1, <2>1, GoMeans, Stays, Labels
<1> QED
  BY <1>1, <1>3, <1>4, <1>5, <1>6, Stays, TypesOn DEF BeginGoesOn, Continues

LEMMA IdentifiesDoes ==
    ASSUME ThreadInv, NEW u \in Users, KettleIdentifies(u) \/ Cpp11Identifies(u)
    PROVE  TypeOK' /\ Identifies(u)
<1> DEFINE d == user[u].ptr
           l == IF platform = "cpp11" THEN "publish" ELSE "created"
<1>1. /\ TypeOK /\ At(u, "identify") /\ d \in Data /\ platform \in {"kettle", "cpp11"}
      /\ data[d].mSysThreadId \in Threads
  <2>1. At(u, "identify") /\ platform \in {"kettle", "cpp11"} /\ TypeOK
    BY DEF KettleIdentifies, Cpp11Identifies, Kettle, Cpp11, ThreadInv
  <2>2. d \in Data /\ data[d].mSysThreadId # None
    BY <2>1 DEF ThreadInv, UserInv, BuildInv, Building, At
  <2> QED
    BY <2>1, <2>2, Fields
<1>2. /\ DataTyped' /\ DataStay(d) /\ Life(d) /\ SameCount(d) /\ SameStatus(d) /\ SamePost(d)
      /\ data'[d].mThreadId = data[d].mSysThreadId
  BY <1>1, Stays, SetMeans DEF KettleIdentifies, Cpp11Identifies
<1>3. UserTyped' /\ UserGoes(u, l)
  <2>1. l \in UserLabels /\ Go(u, l)
    BY Labels DEF KettleIdentifies, Cpp11Identifies, Kettle, Cpp11
  <2> QED
    BY <1>1, <2>1, GoMeans, Stays
<1> QED
  BY <1>1, <1>2, <1>3, Stays, TypesOn DEF KettleIdentifies, Cpp11Identifies, Identifies

\* Steps of a thread that set at most one field of its data.
LEMMA ThreadProceeds ==
    ASSUME ThreadInv, NEW n \in Threads,
           \/ ThreadLocks(n) \/ ThreadPosts(n) \/ ThreadRuns(n) \/ ThreadEnds(n) \/ ThreadUnlocks(n)
           \/ PCThreadRuns(n) \/ PCThreadEnds(n)
           \/ Cpp11ThreadRuns(n) \/ Cpp11ThreadReturns(n) \/ Cpp11ThreadEnds(n)
    PROVE  TypeOK' /\ \E p \in ThreadLabels : Proceeds(n, p)
<1> DEFINE d == thread[n].ptr
<1>1. /\ TypeOK /\ d \in Data
      /\ thread[n].pc \in {"created", "locked", "posted", "running", "valued", "ended"}
  BY DEF ThreadInv, LiveThreadInv, IsAt, ThreadLocks, ThreadPosts, ThreadRuns, ThreadEnds, ThreadUnlocks,
     PCThreadRuns, PCThreadEnds, Cpp11ThreadRuns, Cpp11ThreadReturns, Cpp11ThreadEnds
<1>2. UNCHANGED <<platform, mpData, user, handle, enumData>>
  BY DEF ThreadLocks, ThreadPosts, ThreadRuns, ThreadEnds, ThreadUnlocks,
     PCThreadRuns, PCThreadEnds, Cpp11ThreadRuns, Cpp11ThreadReturns, Cpp11ThreadEnds
<1>3. ASSUME NEW p \in ThreadLabels, GoThread(n, p), DataTyped' PROVE TypeOK' /\ ThreadGoes(n, p)
  <2>1. ThreadTyped' /\ ThreadGoes(n, p)
    BY <1>1, <1>3, GoThreadMeans, Stays
  <2> QED
    BY <1>1, <1>2, <1>3, <2>1, Stays, TypesOn
<1>4. CASE ThreadLocks(n)
  <2>1. /\ DataTyped' /\ DataStay(d) /\ Life(d) /\ SameName(d) /\ SameCount(d) /\ SameStatus(d)
        /\ SamePost(d)
    BY <1>1, <1>4, Stays, SetMeans DEF ThreadLocks
  <2>2. "locked" \in ThreadLabels /\ GoThread(n, "locked")
    BY <1>4, Labels DEF ThreadLocks
  <2>3. TypeOK' /\ ThreadGoes(n, "locked")
    BY <2>1, <2>2, <1>3
  <2>4. Proceeds(n, "locked")
    BY <1>1, <1>2, <1>4, <2>1, <2>3 DEF Proceeds, ThreadLocks, IsAt, SameStatus
  <2> QED
    BY <2>2, <2>3, <2>4
<1>5. CASE ThreadPosts(n)
  <2>1. data[d].mStartedSemaphore = 0
    BY <1>1, <1>5 DEF ThreadInv, StartInv, ThreadPosts, IsAt
  <2>2. /\ DataTyped' /\ DataStay(d) /\ Life(d) /\ SameName(d) /\ SameCount(d) /\ SameStatus(d)
    BY <1>1, <1>5, <2>1, Stays, SetMeans DEF ThreadPosts
  <2>3. "posted" \in ThreadLabels /\ GoThread(n, "posted") /\ IsAt(n, "locked")
    BY <1>5, Labels DEF ThreadPosts
  <2>4. TypeOK' /\ ThreadGoes(n, "posted")
    BY <2>2, <2>3, <1>3
  <2>5. Proceeds(n, "posted")
    BY <1>1, <1>2, <2>2, <2>3, <2>4 DEF Proceeds, IsAt, SameStatus
  <2> QED
    BY <2>3, <2>4, <2>5
<1>6. CASE ThreadRuns(n) \/ PCThreadRuns(n) \/ Cpp11ThreadRuns(n)
  <2>1. /\ DataTyped' /\ DataStay(d) /\ Life(d) /\ SameName(d) /\ SameCount(d) /\ SamePost(d)
        /\ data'[d].mnStatus = "running"
    BY <1>1, <1>6, Stays, SetMeans, Labels DEF ThreadRuns, PCThreadRuns, Cpp11ThreadRuns
  <2>2. "running" \in ThreadLabels /\ GoThread(n, "running") /\ ~IsAt(n, "ended")
    BY <1>6, Labels DEF ThreadRuns, PCThreadRuns, Cpp11ThreadRuns, IsAt
  <2>3. TypeOK' /\ ThreadGoes(n, "running")
    BY <2>1, <2>2, <1>3
  <2>4. Proceeds(n, "running")
    BY <1>1, <1>2, <2>1, <2>2, <2>3 DEF Proceeds
  <2> QED
    BY <2>2, <2>3, <2>4
<1>7. CASE ThreadEnds(n) \/ PCThreadEnds(n) \/ Cpp11ThreadEnds(n)
  <2>1. /\ DataTyped' /\ DataStay(d) /\ Life(d) /\ SameName(d) /\ SameCount(d) /\ SamePost(d)
        /\ data'[d].mnStatus = "ended"
    BY <1>1, <1>7, Stays, SetMeans, Labels DEF ThreadEnds, PCThreadEnds, Cpp11ThreadEnds
  <2>2. "ended" \in ThreadLabels /\ GoThread(n, "ended") /\ ~IsAt(n, "ended")
    BY <1>7, Labels DEF ThreadEnds, PCThreadEnds, Cpp11ThreadEnds, IsAt
  <2>3. TypeOK' /\ ThreadGoes(n, "ended")
    BY <2>1, <2>2, <1>3
  <2>4. Proceeds(n, "ended")
    BY <1>1, <1>2, <2>1, <2>2, <2>3 DEF Proceeds
  <2> QED
    BY <2>2, <2>3, <2>4
<1>8. CASE ThreadUnlocks(n)
  <2>1. /\ DataTyped' /\ DataStay(d) /\ Life(d) /\ SameName(d) /\ SameCount(d) /\ SameStatus(d)
        /\ SamePost(d)
    BY <1>1, <1>8, Stays, SetMeans DEF ThreadUnlocks
  <2>2. "unlocked" \in ThreadLabels /\ GoThread(n, "unlocked")
    BY <1>8, Labels DEF ThreadUnlocks
  <2>3. TypeOK' /\ ThreadGoes(n, "unlocked")
    BY <2>1, <2>2, <1>3
  <2>4. Proceeds(n, "unlocked")
    BY <1>1, <1>2, <2>1, <2>3 DEF Proceeds, SameStatus
  <2> QED
    BY <2>2, <2>3, <2>4
<1>9. CASE Cpp11ThreadReturns(n)
  <2>1. /\ DataTyped' /\ DataStay(d) /\ Life(d) /\ SameName(d) /\ SameCount(d) /\ SameStatus(d)
        /\ SamePost(d)
    BY <1>1, <1>9, Stays, SetMeans DEF Cpp11ThreadReturns
  <2>2. "valued" \in ThreadLabels /\ GoThread(n, "valued") /\ ~IsAt(n, "ended")
    BY <1>9, Labels DEF Cpp11ThreadReturns, IsAt
  <2>3. TypeOK' /\ ThreadGoes(n, "valued")
    BY <2>1, <2>2, <1>3
  <2>4. Proceeds(n, "valued")
    BY <1>1, <1>2, <2>1, <2>2, <2>3 DEF Proceeds, SameStatus
  <2> QED
    BY <2>2, <2>3, <2>4
<1> QED
  BY <1>4, <1>5, <1>6, <1>7, <1>8, <1>9

LEMMA ResumesDoes ==
    ASSUME ThreadInv, NEW u \in Users, PCResumes(u)
    PROVE  TypeOK' /\ Resumes(u)
<1> DEFINE n == data[user[u].ptr].mSysThreadId
<1>1. TypeOK /\ At(u, "resume") /\ n \in Threads /\ platform = "pc" /\ IsAt(n, "suspended")
  <2>1. At(u, "resume") /\ TypeOK /\ platform = "pc"
    BY DEF PCResumes, PC, ThreadInv
  <2>2. user[u].ptr \in Data /\ n # None /\ IsAt(n, "suspended")
    BY <2>1 DEF ThreadInv, UserInv, BuildInv, Building, At
  <2> QED
    BY <2>1, <2>2, Fields
<1>2. ThreadTyped' /\ ThreadGoes(n, "created")
  BY <1>1, GoThreadMeans, Stays, Labels DEF PCResumes
<1>3. UserTyped' /\ UserGoes(u, "created")
  BY <1>1, GoMeans, Stays, Labels DEF PCResumes
<1> QED
  BY <1>1, <1>2, <1>3, Stays, TypesOn DEF PCResumes, Resumes

LEMMA Cpp11ConstructsDoes ==
    ASSUME ThreadInv, NEW u \in Users, Cpp11Constructs(u)
    PROVE  TypeOK' /\ \E n \in Threads : MakesThread(u, n)
<1> DEFINE d == user[u].ptr
<1>1. TypeOK /\ platform = "cpp11" /\ At(u, "construct") /\ d \in Data
  BY DEF ThreadInv, UserInv, Cpp11Constructs, Cpp11, Building, At
<1>2. PICK n \in Threads :
          /\ Born(n)
          /\ thread' = [thread EXCEPT ![n] = [pc |-> "created", ptr |-> user[u].ptr, by |-> u]]
          /\ data' = [data EXCEPT ![user[u].ptr] =
                 [Fresh EXCEPT !.used = TRUE, !.live = TRUE, !.mnRefCount = 2, !.mSysThreadId = n]]
  BY DEF Cpp11Constructs
<1>3. ThreadTyped' /\ ThreadIs(n, "created", d, u)
  BY <1>1, <1>2, Stays, ThreadMeans, Labels
<1> DEFINE r == [Fresh EXCEPT !.used = TRUE, !.live = TRUE, !.mnRefCount = 2, !.mSysThreadId = n]
<1>4. DataTyped' /\ data'[d] = r /\ DataStay(d)
  <2>1. r \in DataRecords
    BY NewFields
  <2>2. data' = [data EXCEPT ![d] = r]
    BY <1>2
  <2> HIDE DEF r
  <2> QED
    BY <1>1, <2>1, <2>2, DataMeans, Stays
<1>5. UserTyped' /\ UserGoes(u, "identify")
  BY <1>1, GoMeans, Stays, Labels DEF Cpp11Constructs
<1>6. UNCHANGED <<platform, mpData, handle, enumData>>
  BY DEF Cpp11Constructs
<1>7. TypeOK'
  BY <1>1, <1>3, <1>4, <1>5, <1>6, Stays, TypesOn
<1>8. MakesThread(u, n)
  BY <1>1, <1>2, <1>3, <1>4, <1>5, <1>6 DEF MakesThread, Born
<1> QED
  BY <1>7, <1>8

LEMMA PublishesDoes ==
    ASSUME ThreadInv, NEW u \in Users, Cpp11Publishes(u)
    PROVE  TypeOK' /\ Publishes(u)
<1>1. TypeOK /\ platform = "cpp11" /\ At(u, "publish") /\ user[u].ptr \in Data
  BY DEF ThreadInv, UserInv, Cpp11Publishes, Cpp11, Building, At
<1>2. mpData' \in [Users -> Data \cup {None}] /\ ObjectHas(u, user[u].ptr)
  BY <1>1, Stays, ObjectMeans DEF Cpp11Publishes
<1>3. UserTyped' /\ UserGoes(u, "created")
  BY <1>1, GoMeans, Stays, Labels DEF Cpp11Publishes
<1> QED
  BY <1>1, <1>2, <1>3, Stays, TypesOn DEF Cpp11Publishes, Publishes

\* The call is over.
LEMMA LeavesDoes ==
    ASSUME TypeOK, NEW u \in Users,
           \/ LockRunTimesOut(u) \/ WaitForEndReturns(u) \/ PCWaitTimesOut(u) \/ PCReturns(u)
           \/ Cpp11BeginReturns(u) \/ Cpp11WaitTimesOut(u) \/ Cpp11Returns(u) \/ BeginNames(u)
    PROVE  TypeOK' /\ Leaves(u)
<1> USE DEF LockRunTimesOut, WaitForEndReturns, PCWaitTimesOut, PCReturns, Cpp11BeginReturns,
            Cpp11WaitTimesOut, Cpp11Returns, BeginNames
<1>1. UserTyped' /\ UserReturns(u)
  BY ReturnMeans, Stays
<1>2. \/ user[u].pc \in (WaitLabels \cup {"poll"}) \ {"close", "zero"}
      \/ (platform = "cpp11" /\ At(u, "created")) \/ At(u, "name")
  BY DEF At, WaitLabels, Cpp11
<1>3. UNCHANGED <<platform, data, mpData, thread, handle, enumData>>
  OBVIOUS
<1> QED
  BY <1>1, <1>2, <1>3, Stays, TypesOn DEF Leaves

\* The data a waiting user looks at.
LEMMA WaitersHaveData ==
    ASSUME ThreadInv, NEW u \in Users, user[u].pc \in Waiting
    PROVE  /\ TypeOK /\ Of(u) \in Data /\ user[u].obj \in Users
           /\ data[Of(u)].live /\ data[Of(u)].mSysThreadId \in Threads
           /\ data[Of(u)].mThreadId \in Threads \cup {None}
<1>1. TypeOK /\ Of(u) \in Data /\ HasObject(user[u].obj, Of(u)) /\ user[u].obj \in Users
      /\ ~At(user[u].obj, "create")
  BY Fields DEF ThreadInv, WaitInv, At
<1>2. data[Of(u)].live
  BY <1>1, LiveIfOwned DEF ThreadInv
<1>3. data[Of(u)].mSysThreadId # None /\ ~External(Of(u))
  BY <1>1 DEF ThreadInv, ObjectInv
<1> QED
  BY <1>1, <1>2, <1>3, Fields DEF External

\* Steps of WaitForEnd that change nothing but their user.
LEMMA LooksDoes ==
    ASSUME ThreadInv, NEW u \in Users, user[u].pc \in WaitLabels \ {"close", "zero"}, NEW p \in WaitLabels, NEW a \in Answers,
           p \notin {"check", "zero", "unlockRun", "repost"}, GoWith(u, p, a) \/ (a = user[u].answer /\ Go(u, p)),
           UNCHANGED <<platform, data, mpData, thread, handle, enumData>>,
           p \in BeforeJoin => user[u].pc \in BeforeJoin, ~At(u, "repost"),
           p = "return" => platform = "pc" /\ At(u, "check") /\ TheData(u).mThreadId = None,
           p = "close" => platform = "pc" /\ IsAt(TheData(u).mSysThreadId, "exited")
    PROVE  TypeOK' /\ WaitsOn(u, p, a)
<1>1. TypeOK /\ p \in UserLabels
  BY DEF ThreadInv, UserLabels
<1>2. UserTyped' /\ UserIs(u, p, user[u].obj, user[u].ptr, user[u].next, a)
  BY <1>1, GoMeans, GoWithMeans, Stays DEF UserGoes
<1>3. TypeOK'
  BY <1>1, <1>2, Stays, TypesOn
<1>4. /\ \A d \in Data : Life(d) /\ SameName(d) /\ SameCount(d) /\ SameStatus(d)
      /\ \A d \in Data : SamePost(d)
      /\ DataStay(Of(u))
  BY DEF Life, SameName, SameCount, SameStatus, SamePost, DataStay
<1> QED
  BY <1>2, <1>3, <1>4 DEF WaitsOn

\* Those that change mRunMutex or mStartedSemaphore.
LEMMA TouchesDoes ==
    ASSUME ThreadInv, NEW u \in Users,
           StartedWait(u) \/ Repost(u) \/ LockRun(u) \/ UnlockRun(u)
    PROVE  TypeOK' /\ \E p \in UserLabels, a \in Answers : WaitsOn(u, p, a)
<1> DEFINE d == Of(u)
           rest == UNCHANGED <<platform, mpData, thread, handle, enumData>>
<1>1. user[u].pc \in {"startedWait", "repost", "lockRun", "unlockRun"}
  BY DEF StartedWait, Repost, LockRun, UnlockRun, At
<1>2. TypeOK /\ d \in Data /\ data[d].mStartedSemaphore \in 0 .. 1 /\ user[u].answer \in Answers
  <2>1. user[u].pc \in Waiting
    BY <1>1 DEF Waiting, WaitLabels
  <2> QED
    BY <2>1, WaitersHaveData, Fields
<1>3. ASSUME NEW p \in UserLabels, NEW a \in Answers, DataTyped', rest,
             GoWith(u, p, a) \/ (a = user[u].answer /\ Go(u, p))
      PROVE  TypeOK' /\ UserIs(u, p, user[u].obj, user[u].ptr, user[u].next, a)
  <2>1. UserTyped' /\ UserIs(u, p, user[u].obj, user[u].ptr, user[u].next, a)
    BY <1>2, <1>3, GoMeans, GoWithMeans, Stays DEF UserGoes
  <2> QED
    BY <1>2, <1>3, <2>1, Stays, TypesOn
<1>4. ASSUME DataStay(d), Life(d), SameName(d), SameCount(d), SameStatus(d)
      PROVE  /\ \A e \in Data : Life(e) /\ SameName(e) /\ SameCount(e) /\ SameStatus(e)
             /\ \A e \in Data : SamePost(e) \/ e = d
  BY <1>4 DEF DataStay, Life, SameName, SameCount, SameStatus, SamePost
<1>5. CASE StartedWait(u)
  <2>1. data[d].mStartedSemaphore > 0 /\ At(u, "startedWait") /\ rest
    BY <1>5 DEF StartedWait, TheData
  <2>2. data[d].mStartedSemaphore - 1 \in 0 .. 1
    BY <1>2, <2>1
  <2>3. /\ DataTyped' /\ DataStay(d) /\ Life(d) /\ SameName(d) /\ SameCount(d) /\ SameStatus(d)
        /\ data'[d].mStartedSemaphore = data[d].mStartedSemaphore - 1
    <3>1. Set(d, "mStartedSemaphore", data[d].mStartedSemaphore - 1)
      BY <1>5 DEF StartedWait, TheData
    <3> QED
      BY <1>2, <2>2, <3>1, SetMeans, Stays
  <2>4. "repost" \in UserLabels /\ "running" \in Answers /\ GoWith(u, "repost", "running")
    BY <1>5, Labels DEF StartedWait
  <2>5. TypeOK' /\ UserIs(u, "repost", user[u].obj, user[u].ptr, user[u].next, "running")
    BY <2>1, <2>3, <2>4, <1>3
  <2>6. WaitsOn(u, "repost", "running")
    BY <1>4, <2>1, <2>3, <2>5 DEF WaitsOn, WaitLabels, BeforeJoin, At, TheData
  <2> QED
    BY <2>4, <2>5, <2>6
<1>6. CASE Repost(u)
  <2>1. data[d].mStartedSemaphore = 0 /\ At(u, "repost") /\ rest
    BY <1>6 DEF Repost, TheData, ThreadInv, StartInv
  <2>2. /\ DataTyped' /\ DataStay(d) /\ Life(d) /\ SameName(d) /\ SameCount(d) /\ SameStatus(d)
    <3>1. Set(d, "mStartedSemaphore", 1)
      BY <1>6, <2>1 DEF Repost, TheData
    <3> QED
      BY <1>2, <3>1, SetMeans, Stays
  <2>3. "lockRun" \in UserLabels /\ Go(u, "lockRun")
    BY <1>6, Labels DEF Repost
  <2>4. TypeOK' /\ UserIs(u, "lockRun", user[u].obj, user[u].ptr, user[u].next, user[u].answer)
    BY <1>2, <2>1, <2>2, <2>3, <1>3
  <2>5. WaitsOn(u, "lockRun", user[u].answer)
    BY <1>4, <2>1, <2>2, <2>4 DEF WaitsOn, WaitLabels, BeforeJoin, At
  <2> QED
    BY <1>2, <2>3, <2>4, <2>5
<1>7. CASE LockRun(u)
  <2>1. At(u, "lockRun") /\ rest
    BY <1>7 DEF LockRun
  <2>2. /\ DataTyped' /\ DataStay(d) /\ Life(d) /\ SameName(d) /\ SameCount(d) /\ SameStatus(d)
        /\ SamePost(d)
    <3>1. Set(d, "mRunMutex", u)
      BY <1>7 DEF LockRun
    <3> QED
      BY <1>2, <3>1, SetMeans, Stays
  <2>3. "joinLocked" \in UserLabels /\ Go(u, "joinLocked")
    BY <1>7, Labels DEF LockRun
  <2>4. TypeOK' /\ UserIs(u, "joinLocked", user[u].obj, user[u].ptr, user[u].next, user[u].answer)
    BY <1>2, <2>1, <2>2, <2>3, <1>3
  <2>5. WaitsOn(u, "joinLocked", user[u].answer)
    BY <1>4, <2>1, <2>2, <2>4 DEF WaitsOn, WaitLabels, BeforeJoin, At
  <2> QED
    BY <1>2, <2>3, <2>4, <2>5
<1>8. CASE UnlockRun(u)
  <2>1. At(u, "unlockRun") /\ rest
    BY <1>8 DEF UnlockRun
  <2>2. /\ DataTyped' /\ DataStay(d) /\ Life(d) /\ SameName(d) /\ SameCount(d) /\ SameStatus(d)
        /\ SamePost(d)
    <3>1. Set(d, "mRunMutex", None)
      BY <1>8 DEF UnlockRun
    <3> QED
      BY <1>2, <3>1, SetMeans, Stays
  <2>3. "return" \in UserLabels /\ Go(u, "return")
    BY <1>8, Labels DEF UnlockRun
  <2>4. TypeOK' /\ UserIs(u, "return", user[u].obj, user[u].ptr, user[u].next, user[u].answer)
    BY <1>2, <2>1, <2>2, <2>3, <1>3
  <2>5. WaitsOn(u, "return", user[u].answer)
    BY <1>4, <2>1, <2>2, <2>4 DEF WaitsOn, WaitLabels, BeforeJoin, At
  <2> QED
    BY <1>2, <2>3, <2>4, <2>5
<1> QED
  BY <1>5, <1>6, <1>7, <1>8

LEMMA OnlyLooksDoes ==
    ASSUME ThreadInv, NEW u \in Users,
           ReadStatus(u) \/ StartedWaitTimesOut(u) \/ PCChecks(u) \/ PCWaits(u) \/ Cpp11Waits(u)
    PROVE  TypeOK' /\ \E p \in UserLabels, a \in Answers : WaitsOn(u, p, a)
<1>0. /\ user[u].pc \in WaitLabels \cap {"check", "startedWait", "waitHandle"}
      /\ user[u].answer \in Answers /\ WaitLabels \subseteq UserLabels
      /\ user[u].pc \in WaitLabels \ {"close", "zero"} /\ ~At(u, "repost")
      /\ UNCHANGED <<platform, data, mpData, thread, handle, enumData>>
  <2>1. user[u].answer \in Answers
    BY Fields DEF ThreadInv
  <2> QED
    BY <2>1 DEF ReadStatus, StartedWaitTimesOut, PCChecks, PCWaits, Cpp11Waits, At, WaitLabels, UserLabels
<1>1. CASE ReadStatus(u)
  <2>1. TheData(u).mnStatus \in Answers /\ At(u, "check")
    <3>1. Of(u) \in Data /\ TypeOK
      BY <1>0, WaitersHaveData DEF Waiting
    <3> QED
      BY <1>1, <3>1, Fields DEF TheData, ReadStatus
  <2>2. PICK p \in {"startedWait", "lockRun", "join"} : GoWith(u, p, TheData(u).mnStatus)
    BY <1>1, <2>1 DEF ReadStatus, Answers
  <2>3. /\ p \in WaitLabels /\ p \in BeforeJoin /\ user[u].pc \in BeforeJoin
        /\ p \notin {"check", "zero", "unlockRun", "repost", "return", "close"}
    BY <2>1 DEF WaitLabels, BeforeJoin, At
  <2>4. TypeOK' /\ WaitsOn(u, p, TheData(u).mnStatus)
    BY <1>0, <2>1, <2>2, <2>3, LooksDoes
  <2> QED
    BY <1>0, <2>1, <2>3, <2>4
<1>2. CASE StartedWaitTimesOut(u) \/ Cpp11Waits(u)
  <2>1. /\ "join" \in WaitLabels /\ "join" \in BeforeJoin /\ user[u].pc \in BeforeJoin /\ Go(u, "join")
    BY <1>2 DEF StartedWaitTimesOut, Cpp11Waits, WaitLabels, BeforeJoin, At
  <2>2. TypeOK' /\ WaitsOn(u, "join", user[u].answer)
    BY <1>0, <2>1, LooksDoes
  <2> QED
    BY <1>0, <2>1, <2>2
<1>3. CASE PCWaits(u)
  <2>1. /\ "close" \in WaitLabels /\ "close" \notin BeforeJoin /\ Go(u, "close")
        /\ platform = "pc" /\ IsAt(TheData(u).mSysThreadId, "exited")
    BY <1>3 DEF PCWaits, PC, WaitLabels, BeforeJoin
  <2>2. TypeOK' /\ WaitsOn(u, "close", user[u].answer)
    BY <1>0, <2>1, LooksDoes
  <2> QED
    BY <1>0, <2>1, <2>2
<1>4. CASE PCChecks(u) /\ TheData(u).mThreadId # None
  <2>1. /\ "waitHandle" \in WaitLabels /\ "waitHandle" \notin BeforeJoin /\ Go(u, "waitHandle")
    BY <1>4 DEF PCChecks, WaitLabels, BeforeJoin
  <2>2. TypeOK' /\ WaitsOn(u, "waitHandle", user[u].answer)
    BY <1>0, <2>1, LooksDoes
  <2> QED
    BY <1>0, <2>1, <2>2
<1>5. CASE PCChecks(u) /\ TheData(u).mThreadId = None
  <2>1. /\ "return" \in WaitLabels /\ "return" \notin BeforeJoin /\ GoWith(u, "return", "ended")
        /\ platform = "pc" /\ At(u, "check") /\ "ended" \in Answers
    BY <1>5 DEF PCChecks, PC, WaitLabels, BeforeJoin, Answers
  <2>2. TypeOK' /\ WaitsOn(u, "return", "ended")
    BY <1>0, <1>5, <2>1, LooksDoes
  <2> QED
    BY <1>0, <2>1, <2>2
<1> QED
  BY <1>1, <1>2, <1>3, <1>4, <1>5

LEMMA JoinsDoes ==
    ASSUME ThreadInv, NEW u \in Users, Join(u) \/ Cpp11Joins(u)
    PROVE  TypeOK' /\ \E n \in Threads : Joins(u, n)
<1> DEFINE d == Of(u)
<1>1. user[u].pc \in {"joinLocked", "join"} /\ user[u].pc \in Waiting
  BY DEF Join, Cpp11Joins, At, Waiting, WaitLabels
<1>2. /\ TypeOK /\ d \in Data /\ data[d].mSysThreadId \in Threads
      /\ data[d].mThreadId \in Threads => data[d].mThreadId = data[d].mSysThreadId
  BY <1>1, WaitersHaveData DEF ThreadInv, DataInv
<1>3. /\ Set(d, "mThreadId", None)
      /\ UNCHANGED <<platform, mpData, thread, enumData>>
  BY DEF Join, Cpp11Joins
<1>4. PICK n \in Threads : /\ data[d].mSysThreadId = n /\ IsAt(n, "exited")
                           /\ platform \in {"unix", "kettle"} \/ data[d].mThreadId = n
                           /\ handle' = [handle EXCEPT ![n] = @ + 1]
  BY <1>2 DEF Join, Cpp11Joins, TheData, Posix
<1>5. /\ DataTyped' /\ DataStay(d) /\ Life(d) /\ SameCount(d) /\ SameStatus(d) /\ SamePost(d)
      /\ data'[d].mThreadId = None
  BY <1>2, <1>3, SetMeans, Stays
<1>6. handle' \in [Threads -> Nat] /\ Released(n)
  BY <1>2, <1>4, HandleMeans, Stays
<1>7. PICK p \in {"unlockRun", "return"}, a \in Answers :
          UserTyped' /\ UserIs(u, p, user[u].obj, user[u].ptr, user[u].next, a)
  <2>1. "unlockRun" \in UserLabels /\ "return" \in UserLabels /\ "ended" \in Answers /\ user[u].answer \in Answers
    BY <1>2, Labels, Fields
  <2>2. GoWith(u, "unlockRun", "ended") \/ Go(u, "return") \/ GoWith(u, "return", "ended")
    BY DEF Join, Cpp11Joins
  <2>3. CASE GoWith(u, "unlockRun", "ended")
    BY <1>2, <2>1, <2>3, GoWithMeans, Stays
  <2>4. CASE Go(u, "return")
    BY <1>2, <2>1, <2>4, GoMeans, Stays DEF UserGoes
  <2>5. CASE GoWith(u, "return", "ended")
    BY <1>2, <2>1, <2>5, GoWithMeans, Stays
  <2> QED
    BY <2>2, <2>3, <2>4, <2>5
<1>8. TypeOK'
  BY <1>2, <1>3, <1>5, <1>6, <1>7, Stays, TypesOn
<1>9. Joins(u, n)
  BY <1>1, <1>2, <1>3, <1>4, <1>5, <1>6, <1>7, Apart DEF Joins, TheData
<1> QED
  BY <1>8, <1>9

LEMMA ClosesDoes ==
    ASSUME ThreadInv, NEW u \in Users, PCCloses(u)
    PROVE  TypeOK' /\ Closes(u)
<1> DEFINE l == IF At(u, "close") THEN "zero" ELSE "zeroForStatus"
<1>1. TypeOK
  BY DEF ThreadInv
<1>2. UserTyped' /\ UserGoes(u, l)
  <2>1. l \in UserLabels /\ Go(u, l)
    BY Labels DEF PCCloses
  <2> QED
    BY <1>1, <2>1, GoMeans, Stays
<1>3. handle' \in [Threads -> Nat] /\ Released(TheData(u).mThreadId)
  <2>1. CASE TheData(u).mThreadId = None
    BY <1>1, <2>1, HandleMeans, Stays, Apart DEF PCCloses
  <2>2. CASE TheData(u).mThreadId # None
    BY <1>1, <2>2, HandleMeans, Stays DEF PCCloses
  <2> QED
    BY <2>1, <2>2
<1>4. TypeOK'
  BY <1>1, <1>2, <1>3, Stays, TypesOn DEF PCCloses
<1> QED
  BY <1>2, <1>3, <1>4 DEF PCCloses, PC, Closes

LEMMA ZeroesDoes ==
    ASSUME ThreadInv, NEW u \in Users, PCZeroes(u)
    PROVE  TypeOK' /\ Zeroes(u)
<1> DEFINE d == Of(u)
           r == [data[d] EXCEPT !.mThreadId = None, !.mnStatus = "ended"]
<1>1. user[u].pc \in {"zero", "zeroForStatus"} /\ user[u].pc \in Waiting /\ platform = "pc"
  BY DEF PCZeroes, PC, Waiting, WaitLabels, StatusLabels
<1>2. TypeOK /\ d \in Data /\ d # None /\ data[d] \in DataRecords
  <2>1. TypeOK /\ d \in Data
    BY <1>1, WaitersHaveData
  <2> QED
    BY <2>1, Fields, Apart
<1>3. r \in DataRecords
  BY <1>2, Labels DEF DataRecords
<1>4. /\ r.used = data[d].used /\ r.live = data[d].live /\ r.mSysThreadId = data[d].mSysThreadId
      /\ r.mnRefCount = data[d].mnRefCount /\ r.mStartedSemaphore = data[d].mStartedSemaphore
      /\ r.mThreadId = None /\ r.mnStatus = "ended"
  BY <1>2 DEF DataRecords
<1>5. data' = [data EXCEPT ![d] = r]
  BY <1>2, Stays DEF PCZeroes, DataTyped
<1> HIDE DEF r
<1>6. DataTyped' /\ DataStay(d) /\ data'[d] = r
  BY <1>2, <1>3, <1>5, DataMeans, Stays
<1>7. /\ Life(d) /\ SameCount(d) /\ SamePost(d) /\ data'[d].mThreadId = None /\ data'[d].mnStatus = "ended"
  BY <1>4, <1>6 DEF Life, SameCount, SamePost
<1>8. /\ UserTyped'
      /\ IF At(u, "zero") THEN UserIs(u, "return", user[u].obj, user[u].ptr, user[u].next, "ended")
         ELSE UserReturns(u)
  <2>1. "return" \in UserLabels /\ "ended" \in Answers
    BY Labels
  <2>2. IF At(u, "zero") THEN GoWith(u, "return", "ended") ELSE Return(u)
    BY DEF PCZeroes
  <2> QED
    BY <1>2, <2>1, <2>2, GoWithMeans, ReturnMeans, Stays
<1>9. TypeOK'
  BY <1>2, <1>6, <1>8, Stays, TypesOn DEF PCZeroes
<1> QED
  BY <1>1, <1>2, <1>6, <1>7, <1>8, <1>9 DEF PCZeroes, Zeroes

LEMMA GetStatusDoes ==
    ASSUME Careful, ThreadInv, NEW u \in Users, NEW o \in Users, PCGetStatus(u, o)
    PROVE  TypeOK' /\ (Marks(o) \/ CallsStatus(u, o))
<1> DEFINE d == mpData[o]
<1>1. TypeOK /\ d \in Data /\ platform = "pc"
  BY Fields DEF ThreadInv, PCGetStatus, PC
<1>2. CASE data[d].mThreadId = None /\ Set(d, "mnStatus", "ended") /\ UNCHANGED user
  <2>1. /\ DataTyped' /\ DataStay(d) /\ Life(d) /\ SameName(d) /\ SameCount(d) /\ SamePost(d)
        /\ data'[d].mnStatus = "ended"
    BY <1>1, <1>2, SetMeans, Stays, Labels
  <2>2. TypeOK'
    BY <1>1, <1>2, <2>1, Stays, TypesOn DEF PCGetStatus
  <2>3. Marks(o)
    BY <1>1, <1>2, <2>1 DEF PCGetStatus, Marks
  <2> QED
    BY <2>2, <2>3
<1>3. CASE /\ data[d].mThreadId # None /\ IsAt(data[d].mThreadId, "exited")
           /\ user' = [user EXCEPT ![u] = [@ EXCEPT !.obj = o, !.pc = "closeForStatus"]]
           /\ UNCHANGED data
  <2>1. UserTyped' /\ UserIs(u, "closeForStatus", o, user[u].ptr, user[u].next, user[u].answer)
    <3> DEFINE r == [user[u] EXCEPT !.obj = o, !.pc = "closeForStatus"]
    <3>1. user' = [user EXCEPT ![u] = r]
      BY <1>1, <1>3, Stays DEF UserTyped
    <3>0. user[u] \in UserRecords /\ "closeForStatus" \in UserLabels
      BY <1>1, Fields, Labels
    <3>2. r \in UserRecords
      BY <3>0 DEF UserRecords
    <3>3. r.pc = "closeForStatus" /\ r.obj = o /\ r.ptr = user[u].ptr /\ r.next = user[u].next
          /\ r.answer = user[u].answer
      BY <3>0 DEF UserRecords
    <3> HIDE DEF r
    <3>4. r = [pc |-> "closeForStatus", obj |-> o, ptr |-> user[u].ptr, next |-> user[u].next,
               answer |-> user[u].answer]
      BY <3>2, <3>3 DEF UserRecords
    <3> QED
      BY <1>1, <3>1, <3>2, <3>4, Stays DEF UserTyped, UserIs
  <2>2. TypeOK'
    BY <1>1, <1>3, <2>1, Stays, TypesOn DEF PCGetStatus
  <2>3. CallsStatus(u, o)
    BY <1>1, <1>3, <2>1 DEF PCGetStatus, CallsStatus
  <2> QED
    BY <2>2, <2>3
<1> QED
  BY <1>2, <1>3 DEF PCGetStatus

\* The steps of the users, and those of threads.
UserDoes(u) ==
    \/ Begins(u) \/ Enumerates(u) \/ Polled(u) \/ Leaves(u) \/ Closes(u) \/ Zeroes(u)
    \/ Allocates(u) \/ Constructs(u) \/ CreateFails(u) \/ Resumes(u) \/ BeginEnds(u) \/ Continues(u) \/ Identifies(u)
    \/ Publishes(u) \/ ReleasesOld(u) \/ Destroys(u) \/ AddsRef(u) \/ ReleasesEnumerated(u) \/ UserHasFreed(u)
    \/ Marks(u)
    \/ \E o \in Users : CallsWait(u, o) \/ CallsStatus(u, o) \/ Assigns(u, o)
    \/ \E p \in UserLabels, a \in Answers : WaitsOn(u, p, a)
    \/ \E n \in Threads : Joins(u, n) \/ MakesThread(u, n)
    \/ \E n \in Threads, q \in {"suspended", "created"} : Creates(u, n, q)
ThreadDoes(n) ==
    \/ \E p \in ThreadLabels : Proceeds(n, p)
    \/ ThreadHasFreed(n) \/ ThreadGivesUp(n)
    \/ \E o \in Users : DestroysWithin(n, o)

LEMMA ThreadStepDoes ==
    ASSUME Careful, ThreadInv, NEW n \in Threads, ThreadStep(n) \/ DestroyWithin(n)
    PROVE  TypeOK' /\ ThreadDoes(n)
<1>1. CASE \/ ThreadLocks(n) \/ ThreadPosts(n) \/ ThreadRuns(n) \/ ThreadEnds(n) \/ ThreadUnlocks(n)
           \/ PCThreadRuns(n) \/ PCThreadEnds(n)
           \/ Cpp11ThreadRuns(n) \/ Cpp11ThreadReturns(n) \/ Cpp11ThreadEnds(n)
  BY <1>1, ThreadProceeds DEF ThreadDoes
<1>2. CASE ThreadReleases(n, "unlocked") \/ ThreadReleases(n, "ended")
  BY <1>2, ThreadReleasesDoes DEF ThreadDoes
<1>3. CASE ThreadFrees(n)
  BY <1>3, ThreadFreesDoes DEF ThreadDoes
<1>4. CASE DestroyWithin(n)
  BY <1>4, DestroyWithinDoes DEF ThreadDoes
<1> QED
  BY <1>1, <1>2, <1>3, <1>4 DEF ThreadStep, UnixThreadStep, KettleRuns, PCRuns, Cpp11Runs, ThreadExits

LEMMA UserStepDoes ==
    ASSUME Careful, ThreadInv, NEW u \in Users, UserStep(u) \/ Choice(u)
    PROVE  TypeOK' /\ \E v \in Users : UserDoes(v)
<1>0. TypeOK
  BY DEF ThreadInv
<1>1. CASE UserFrees(u) \/ BeginReleases(u) \/ BeginAllocates(u) \/ PollEnds(u) \/ EnumerateAddRefs(u)
  <2>1. TypeOK' /\ (UserHasFreed(u) \/ ReleasesOld(u) \/ Allocates(u) \/ Polled(u) \/ AddsRef(u))
    BY <1>0, <1>1, UserFreesDoes, BeginReleasesDoes, BeginAllocatesDoes, PollEndsDoes, EnumerateAddRefsDoes
  <2> QED
    BY <2>1 DEF UserDoes
<1>2. CASE Destroy(u) \/ EnumerateThreads(u) \/ EnumDataRelease(u) \/ PollTimesOut(u)
  <2>1. TypeOK' /\ (Destroys(u) \/ Enumerates(u) \/ ReleasesEnumerated(u) \/ Polled(u) \/ Leaves(u))
    BY <1>0, <1>2, DestroyDoes, EnumerateThreadsDoes, EnumDataReleaseDoes, PollTimesOutDoes
  <2> QED
    BY <2>1 DEF UserDoes
<1>3. CASE \E v \in Users : Assign(u, v) \/ WaitForEnd(u, v) \/ PCGetStatus(u, v)
  <2>1. PICK v \in Users : Assign(u, v) \/ WaitForEnd(u, v) \/ PCGetStatus(u, v)
    BY <1>3
  <2>2. TypeOK' /\ (Assigns(u, v) \/ CallsWait(u, v) \/ CallsStatus(u, v) \/ Marks(v))
    BY <2>1, AssignDoes, WaitForEndDoes, GetStatusDoes
  <2> QED
    BY <2>2 DEF UserDoes
<1>4. CASE Begin(u) \/ PCBegin(u) \/ Cpp11Begin(u) \/ PCBeginObject(u) \/ Cpp11BeginObject(u)
  <2>1. TypeOK' /\ Begins(u)
    <3>1. CASE Begin(u) \/ PCBegin(u)
      BY <1>0, <3>1, BeginFindsDoes DEF Begin, PCBegin, Posix, PC
    <3>2. CASE Cpp11Begin(u)
      BY <1>0, <3>2, BeginFindsDoes DEF Cpp11Begin, Cpp11
    <3>3. CASE PCBeginObject(u) \/ Cpp11BeginObject(u)
      BY <1>0, <3>3, BeginObjectDoes DEF PCBeginObject, Cpp11BeginObject
    <3> QED
      BY <1>4, <3>1, <3>2, <3>3
  <2> QED
    BY <2>1 DEF UserDoes
<1>5. CASE \/ BeginConstructs(u) \/ PCConstructs(u)
           \/ BeginFails(u) \/ PCFails(u) \/ BeginReturns(u) \/ PCBeginReturns(u)
           \/ KettleIdentifies(u) \/ Cpp11Identifies(u) \/ PCResumes(u) \/ Cpp11Publishes(u) \/ BeginGoesOn(u)
  <2>1. TypeOK' /\ (Constructs(u) \/ CreateFails(u) \/ BeginEnds(u) \/ Continues(u) \/ Identifies(u) \/ Resumes(u)
                     \/ Publishes(u))
    BY <1>5, ConstructsDoes, FailsDoes, ReturnsFromBeginDoes, GoesOnDoes, IdentifiesDoes, ResumesDoes, PublishesDoes
  <2> QED
    BY <2>1 DEF UserDoes
<1>6. CASE BeginCreates(u) \/ KettleCreates(u) \/ PCCreates(u)
  <2>1. TypeOK' /\ \E n \in Threads, q \in {"suspended", "created"} : Creates(u, n, q)
    BY <1>6, CreatesDoes
  <2> QED
    BY <2>1 DEF UserDoes
<1>7. CASE Cpp11Constructs(u) \/ Join(u) \/ Cpp11Joins(u)
  <2>1. TypeOK' /\ \E n \in Threads : Joins(u, n) \/ MakesThread(u, n)
    BY <1>7, Cpp11ConstructsDoes, JoinsDoes
  <2> QED
    BY <2>1 DEF UserDoes
<1>8. CASE \/ ReadStatus(u) \/ StartedWaitTimesOut(u) \/ PCChecks(u) \/ PCWaits(u) \/ Cpp11Waits(u)
           \/ StartedWait(u) \/ Repost(u) \/ LockRun(u) \/ UnlockRun(u)
  <2>1. TypeOK' /\ \E p \in UserLabels, a \in Answers : WaitsOn(u, p, a)
    BY <1>8, TouchesDoes, OnlyLooksDoes
  <2> QED
    BY <2>1 DEF UserDoes
<1>9. CASE \/ LockRunTimesOut(u) \/ WaitForEndReturns(u) \/ PCWaitTimesOut(u) \/ PCReturns(u)
           \/ Cpp11BeginReturns(u) \/ Cpp11WaitTimesOut(u) \/ Cpp11Returns(u) \/ BeginNames(u)
  <2>1. TypeOK' /\ Leaves(u)
    BY <1>0, <1>9, LeavesDoes
  <2> QED
    BY <2>1 DEF UserDoes
<1>10. CASE PCCloses(u) \/ PCZeroes(u)
  <2>1. TypeOK' /\ (Closes(u) \/ Zeroes(u))
    BY <1>10, ClosesDoes, ZeroesDoes
  <2> QED
    BY <2>1 DEF UserDoes
<1>11. \/ UserFrees(u) \/ BeginReleases(u) \/ BeginAllocates(u) \/ PollEnds(u) \/ EnumerateAddRefs(u)
       \/ Destroy(u) \/ EnumerateThreads(u) \/ EnumDataRelease(u) \/ PollTimesOut(u)
       \/ \E v \in Users : Assign(u, v) \/ WaitForEnd(u, v)
       \/ UnixUserStep(u) \/ KettleBegins(u) \/ KettleWaits(u) \/ PCUserStep(u) \/ Cpp11UserStep(u)
       \/ UnixChoice(u) \/ PCChoice(u) \/ Cpp11Choice(u)
  BY DEF UserStep, Choice
<1>12. CASE UnixUserStep(u) \/ KettleBegins(u) \/ KettleWaits(u)
  BY <1>12, <1>5, <1>6, <1>7, <1>8, <1>9 DEF UnixUserStep, KettleBegins, KettleWaits
<1>13. CASE PCUserStep(u) \/ Cpp11UserStep(u)
  BY <1>13, <1>5, <1>6, <1>7, <1>8, <1>9, <1>10 DEF PCUserStep, Cpp11UserStep
<1>14. CASE UnixChoice(u) \/ PCChoice(u) \/ Cpp11Choice(u)
  BY <1>14, <1>3, <1>4, <1>5, <1>8, <1>9 DEF UnixChoice, PCChoice, Cpp11Choice
<1> QED
  BY <1>1, <1>2, <1>3, <1>11, <1>12, <1>13, <1>14

LEMMA NextDoes ==
    ASSUME Careful, ThreadInv, [Next]_threadVars
    PROVE  /\ TypeOK'
           /\ \/ UNCHANGED threadVars
              \/ \E u \in Users : UserDoes(u)
              \/ \E n \in Threads : ThreadDoes(n)
<1>1. CASE UNCHANGED threadVars
  BY <1>1 DEF ThreadInv, TypeOK, threadVars
<1>2. CASE Next
  <2>1. CASE \E n \in Threads : ThreadStep(n) \/ DestroyWithin(n)
    BY <2>1, ThreadStepDoes
  <2>2. CASE \E u \in Users : UserStep(u) \/ Choice(u)
    BY <2>2, UserStepDoes
  <2> QED
    BY <1>2, <2>1, <2>2 DEF Next
<1> QED
  BY <1>1, <1>2

-----------------------------------------------------------------------------
(* What all steps have in common.                                          *)

\* A step of a user leaves the other users, their objects and results alone.
LEMMA UserStepsAreOfOne ==
    ASSUME TypeOK, NEW u \in Users, UserDoes(u)
    PROVE  OnlyUser(u)
<1>1. CASE \/ Begins(u) \/ Enumerates(u) \/ Polled(u) \/ Leaves(u) \/ Closes(u) \/ Zeroes(u)
           \/ Allocates(u) \/ Constructs(u) \/ CreateFails(u) \/ Resumes(u) \/ BeginEnds(u) \/ Continues(u) \/ Identifies(u)
  BY <1>1 DEF OnlyUser, Begins, Enumerates, Polled, Leaves, Closes, Zeroes, Allocates, Constructs, CreateFails,
     Resumes, BeginEnds, Continues, Identifies, UserReturns, UserGoes, UserIs, GivesUp, ObjectHas
<1>2. CASE \/ Publishes(u) \/ ReleasesOld(u) \/ Destroys(u) \/ AddsRef(u) \/ ReleasesEnumerated(u)
           \/ UserHasFreed(u) \/ Marks(u)
  BY <1>2 DEF OnlyUser, Publishes, ReleasesOld, Destroys, AddsRef, ReleasesEnumerated, UserHasFreed, Marks,
     UserReturns, UserGoes, UserIs, GivesUp, ObjectHas, EnumHas
<1>3. CASE \/ \E o \in Users : CallsWait(u, o) \/ CallsStatus(u, o) \/ Assigns(u, o)
           \/ \E p \in UserLabels, a \in Answers : WaitsOn(u, p, a)
           \/ \E n \in Threads : Joins(u, n) \/ MakesThread(u, n)
           \/ \E n \in Threads, q \in {"suspended", "created"} : Creates(u, n, q)
  BY <1>3 DEF OnlyUser, CallsWait, CallsStatus, Assigns, WaitsOn, Joins, MakesThread, Creates,
     UserReturns, UserGoes, UserIs, ObjectHas
<1> QED
  BY <1>1, <1>2, <1>3 DEF UserDoes

\* Threads are made and end; their data stays theirs.
ThreadsGoOn ==
    \A n \in Threads :
        /\ ~IsAt(n, "unborn") => thread'[n].ptr = thread[n].ptr /\ thread'[n].by = thread[n].by
                                 /\ thread'[n].pc # "unborn"
        /\ IsAt(n, "exited") => thread'[n].pc = "exited"

LEMMA ThreadsAlwaysGoOn ==
    ASSUME TypeOK
    PROVE  /\ \A u \in Users : UserDoes(u) => ThreadsGoOn
           /\ \A n \in Threads : ThreadDoes(n) => ThreadsGoOn
<1>1. UNCHANGED thread => ThreadsGoOn
  BY DEF ThreadsGoOn, IsAt
<1>2. ASSUME NEW u \in Users, UserDoes(u) PROVE ThreadsGoOn
  <2>1. CASE Resumes(u)
    BY <2>1 DEF Resumes, ThreadGoes, ThreadIs, ThreadsGoOn, IsAt
  <2>2. CASE \E n \in Threads : MakesThread(u, n)
    BY <2>2 DEF MakesThread, ThreadIs, ThreadsGoOn, IsAt
  <2>3. CASE \E n \in Threads, q \in {"suspended", "created"} : Creates(u, n, q)
    BY <2>3 DEF Creates, ThreadIs, ThreadsGoOn, IsAt
  <2>4. CASE \/ Begins(u) \/ Enumerates(u) \/ Polled(u) \/ Leaves(u) \/ Closes(u) \/ Zeroes(u)
             \/ Allocates(u) \/ Constructs(u) \/ CreateFails(u) \/ BeginEnds(u) \/ Continues(u) \/ Identifies(u)
             \/ Publishes(u) \/ ReleasesOld(u) \/ Destroys(u) \/ AddsRef(u) \/ ReleasesEnumerated(u)
             \/ UserHasFreed(u) \/ Marks(u)
             \/ \E o \in Users : CallsWait(u, o) \/ CallsStatus(u, o) \/ Assigns(u, o)
             \/ \E p \in UserLabels, a \in Answers : WaitsOn(u, p, a)
             \/ \E n \in Threads : Joins(u, n)
    BY <1>1, <2>4 DEF Begins, Enumerates, Polled, Leaves, Closes, Zeroes, Allocates, Constructs, CreateFails,
       BeginEnds, Continues, Identifies, Publishes, ReleasesOld, Destroys, AddsRef, ReleasesEnumerated, UserHasFreed, Marks,
       CallsWait, CallsStatus, Assigns, WaitsOn, Joins
  <2> QED
    BY <1>2, <2>1, <2>2, <2>3, <2>4 DEF UserDoes
<1>3. ASSUME NEW n \in Threads, ThreadDoes(n) PROVE ThreadsGoOn
  <2>1. CASE \E p \in ThreadLabels : Proceeds(n, p)
    BY <2>1 DEF Proceeds, ThreadGoes, ThreadIs, ThreadsGoOn, IsAt
  <2>2. CASE ThreadHasFreed(n) \/ ThreadGivesUp(n)
    BY <2>2 DEF ThreadHasFreed, ThreadGivesUp, ThreadGoes, ThreadIs, ThreadsGoOn, IsAt
  <2>3. CASE \E o \in Users : DestroysWithin(n, o)
    BY <1>1, <2>3 DEF DestroysWithin
  <2> QED
    BY <1>3, <2>1, <2>2, <2>3 DEF ThreadDoes
<1> QED
  BY <1>2, <1>3

\* An object has new data only from Begin or from another object.
LEMMA ObjectsGrow ==
    ASSUME ThreadInv, NEW o \in Users, NEW d \in Data, HasObject(o, d)'
    PROVE  /\ \A u \in Users : UserDoes(u) =>
                 \/ HasObject(o, d)
                 \/ o = u /\ d = user[u].ptr /\ (Constructs(u) \/ Publishes(u))
                 \/ o = u /\ \E v \in Users : Assigns(u, v) /\ d = mpData[v] /\ HasObject(v, d)
           /\ \A n \in Threads : ThreadDoes(n) => HasObject(o, d)
<1>0. TypeOK /\ UserInv
  BY DEF ThreadInv
<1>1. \A u \in Users : user[u].next = "idle" \/ (user[u].next = "allocate" /\ At(u, "free"))
  BY <1>0 DEF UserInv
<1>2. ASSUME NEW u \in Users, UserDoes(u), o # u PROVE HasObject(o, d)
  BY <1>0, <1>2, UserStepsAreOfOne DEF OnlyUser, HasObject
<1>3. ASSUME NEW u \in Users, UserDoes(u), o = u
      PROVE  \/ HasObject(u, d)
             \/ d = user[u].ptr /\ (Constructs(u) \/ Publishes(u))
             \/ \E v \in Users : Assigns(u, v) /\ d = mpData[v] /\ HasObject(v, d)
  <2>0. HasObject(u, d)'
    BY <1>3
  <2>1. CASE Begins(u) \/ Enumerates(u) \/ Polled(u) \/ Leaves(u) \/ Closes(u) \/ Zeroes(u)
    BY <1>1, <2>0, <2>1 DEF HasObject, Begins, Enumerates, Polled, Leaves, Closes, Zeroes,
       UserReturns, UserGoes, UserIs, At, WaitLabels
  <2>2. CASE Resumes(u)
    BY <1>1, <2>0, <2>2 DEF HasObject, Resumes, UserGoes, UserIs, At
  <2>15. CASE Allocates(u)
    <3>1. PICK e \in Data : UserIs(u, "construct", user[u].obj, e, user[u].next, user[u].answer)
      BY <2>15 DEF Allocates
    <3> QED
      BY <2>0, <3>1 DEF HasObject, UserIs
  <2>14. CASE Identifies(u)
    BY <1>1, <2>0, <2>14 DEF HasObject, Identifies, UserGoes, UserIs, At
  <2>16. CASE Continues(u)
    BY <1>1, <2>0, <2>16 DEF HasObject, Continues, UserGoes, UserIs, At
  <2>10. ASSUME At(u, "idle") \/ At(u, "created")
         PROVE  user[u].next = "idle"
    BY <1>1, <2>10 DEF At
  <2>11. CASE CreateFails(u) \/ Destroys(u)
    BY <2>0, <2>11, Apart DEF HasObject, CreateFails, Destroys, ObjectHas
  <2>12. CASE BeginEnds(u) \/ ReleasesEnumerated(u)
    <3>1. (At(u, "idle") \/ (At(u, "created") /\ platform # "cpp11")) /\ UNCHANGED <<platform, mpData>>
      BY <2>12 DEF BeginEnds, ReleasesEnumerated
    <3> QED
      BY <2>0, <2>10, <3>1 DEF HasObject, At
  <2>13. CASE ReleasesOld(u)
    <3>1. At(u, "release") /\ UNCHANGED <<platform, mpData>> /\ GivesUp(u, mpData[u], 1, "allocate")
      BY <2>13 DEF ReleasesOld
    <3>2. user'[u].pc = "allocate" \/ user'[u].next = "allocate"
      BY <3>1 DEF GivesUp, UserIs, UserGoes
    <3> QED
      BY <2>0, <3>2 DEF HasObject
  <2>3. CASE Constructs(u) \/ Publishes(u)
    BY <2>0, <2>3 DEF HasObject, Constructs, Publishes, ObjectHas
  <2>4. CASE AddsRef(u) \/ UserHasFreed(u) \/ Marks(u)
    BY <1>1, <2>0, <2>4 DEF HasObject, AddsRef, UserHasFreed, Marks, UserReturns, UserIs, At
  <2>5. CASE \E v \in Users : CallsWait(u, v) \/ CallsStatus(u, v)
    BY <1>1, <2>0, <2>5 DEF HasObject, CallsWait, CallsStatus, UserIs, At
  <2>6. ASSUME NEW v \in Users, Assigns(u, v) PROVE d = mpData[v] /\ HasObject(v, d)
    BY <1>1, <2>0, <2>6 DEF HasObject, Assigns, ObjectHas, At
  <2>7. CASE \E p \in UserLabels, a \in Answers : WaitsOn(u, p, a)
    BY <1>1, <2>0, <2>7 DEF HasObject, WaitsOn, UserIs, At, WaitLabels
  <2>8. CASE \E n \in Threads : Joins(u, n) \/ MakesThread(u, n)
    BY <1>1, <2>0, <2>8 DEF HasObject, Joins, MakesThread, UserGoes, UserIs, At
  <2>9. CASE \E n \in Threads, q \in {"suspended", "created"} : Creates(u, n, q)
    BY <1>1, <2>0, <2>9 DEF HasObject, Creates, UserGoes, UserIs, At
  <2> QED
    BY <1>3, <2>1, <2>2, <2>3, <2>4, <2>5, <2>6, <2>7, <2>8, <2>9, <2>11, <2>12, <2>13, <2>14, <2>15, <2>16 DEF UserDoes
<1>4. ASSUME NEW n \in Threads, ThreadDoes(n) PROVE HasObject(o, d)
  <2>1. CASE \E p \in ThreadLabels : Proceeds(n, p)
    BY <2>1 DEF HasObject, Proceeds
  <2>2. CASE ThreadHasFreed(n) \/ ThreadGivesUp(n)
    BY <2>2 DEF HasObject, ThreadHasFreed, ThreadGivesUp
  <2>3. CASE \E v \in Users : DestroysWithin(n, v)
    BY <2>3, Apart DEF HasObject, DestroysWithin, ObjectHas
  <2> QED
    BY <1>4, <2>1, <2>2, <2>3 DEF ThreadDoes
<1> QED
  BY <1>2, <1>3, <1>4

\* The object a call waits for keeps its data and its reference.
Settled(o, d) ==
    mpData[o] = d /\ HasObject(o, d) /\ user[o].pc \notin {"release", "create", "identify", "publish"}

LEMMA WaitedObjectsStay ==
    ASSUME ThreadInv, NEW w \in Users, user[w].pc \in Waiting,
           NEW o, o = user[w].obj, NEW d, d = Of(w)
    PROVE  /\ o \in Users /\ d \in Data /\ Settled(o, d)
           /\ \A u \in Users : UserDoes(u) => Settled(o, d)'
           /\ \A n \in Threads : ThreadDoes(n) => Settled(o, d)'
<1> DEFINE gone == {"release", "allocate", "construct", "create", "identify", "publish"}
<1>0. TypeOK /\ UserInv /\ BuildInv /\ o \in Users
  BY Fields DEF ThreadInv
<1>1. Settled(o, d) /\ d \in Data
  BY DEF Settled, ThreadInv, WaitInv, Of
<1>2. w \in Using(o)
  BY <1>0 DEF Using, Waiting
<1>3. user[o].next = "idle" /\ user[o].pc \notin gone
  BY <1>0, <1>1 DEF UserInv, Settled, HasObject
<1>4. ASSUME mpData'[o] = mpData[o], user'[o].pc \notin gone, user'[o].next # "allocate" PROVE Settled(o, d)'
  BY <1>1, <1>4 DEF Settled, HasObject
<1>5. ASSUME NEW u \in Users, UserDoes(u), u # o PROVE Settled(o, d)'
  <2>1. user'[o] = user[o] /\ mpData'[o] = mpData[o]
    BY <1>0, <1>5, UserStepsAreOfOne DEF OnlyUser
  <2> QED
    BY <1>3, <1>4, <2>1
<1>6. ASSUME UserDoes(o) PROVE Settled(o, d)'
  <2>1. ~Begins(o) /\ ~Destroys(o) /\ \A v \in Users : ~Assigns(o, v)
    BY <1>2 DEF Begins, Destroys, Assigns
  <2>2. /\ ~ReleasesOld(o) /\ ~Allocates(o) /\ ~Constructs(o) /\ ~CreateFails(o) /\ ~Identifies(o)
        /\ ~Publishes(o) /\ \A n \in Threads : ~MakesThread(o, n)
        /\ \A n \in Threads, q \in {"suspended", "created"} : ~Creates(o, n, q)
    BY <1>3 DEF ReleasesOld, Allocates, Constructs, CreateFails, Identifies, Publishes, MakesThread, Creates, At
  <2>3. CASE Polled(o) \/ Leaves(o) \/ AddsRef(o) \/ Continues(o)
    BY <1>3, <1>4, <2>3 DEF Polled, Leaves, AddsRef, Continues, UserReturns, UserGoes, UserIs
  <2>10. CASE Enumerates(o)
    <3>1. PICK e \in Slots : UserIs(o, "enumerate", user[o].obj, e, user[o].next, user[o].answer)
      BY <2>10 DEF Enumerates
    <3> QED
      BY <1>3, <1>4, <2>10, <3>1 DEF Enumerates, UserIs
  <2>9. CASE Closes(o) \/ Zeroes(o) \/ Resumes(o)
    BY <1>3, <1>4, <2>9 DEF Closes, Zeroes, Resumes, UserReturns, UserGoes, UserIs
  <2>4. CASE UserHasFreed(o) \/ Marks(o)
    BY <1>3, <1>4, <2>4 DEF UserHasFreed, Marks, UserReturns, UserIs
  <2>5. CASE BeginEnds(o) \/ ReleasesEnumerated(o)
    <3>1. PICK e \in {user[o].ptr, enumData[o]} : GivesUp(o, e, 1, "idle") /\ mpData' = mpData
      BY <2>5 DEF BeginEnds, ReleasesEnumerated
    <3>2. user'[o].pc \in {"free", "idle"} /\ user'[o].next = "idle"
      BY <3>1 DEF GivesUp, UserReturns, UserIs
    <3> QED
      BY <1>4, <3>1, <3>2
  <2>6. CASE \E v \in Users : CallsWait(o, v) \/ CallsStatus(o, v)
    BY <1>3, <1>4, <2>6 DEF CallsWait, CallsStatus, UserIs
  <2>7. CASE \E p \in UserLabels, a \in Answers : WaitsOn(o, p, a)
    BY <1>3, <1>4, <2>7 DEF WaitsOn, UserIs, WaitLabels
  <2>8. CASE \E n \in Threads : Joins(o, n)
    BY <1>3, <1>4, <2>8 DEF Joins, UserIs
  <2> QED
    BY <1>6, <2>1, <2>2, <2>3, <2>4, <2>5, <2>6, <2>7, <2>8, <2>9, <2>10 DEF UserDoes
<1>7. ASSUME NEW n \in Threads, ThreadDoes(n) PROVE Settled(o, d)'
  <2>1. CASE \E p \in ThreadLabels : Proceeds(n, p)
    BY <1>3, <1>4, <2>1 DEF Proceeds
  <2>2. CASE ThreadHasFreed(n) \/ ThreadGivesUp(n)
    BY <1>3, <1>4, <2>2 DEF ThreadHasFreed, ThreadGivesUp
  <2>3. CASE \E v \in Users : DestroysWithin(n, v)
    BY <1>0, <1>2, <1>3, <1>4, <2>3 DEF DestroysWithin, ObjectHas
  <2> QED
    BY <1>7, <2>1, <2>2, <2>3 DEF ThreadDoes
<1> QED
  BY <1>0, <1>1, <1>5, <1>6, <1>7

\* Who polls for an object finds it without data, or with data it keeps until
\* Begin takes it back.
Found(o) == mpData[o] # None => HasObject(o, mpData[o]) /\ ~At(o, "release")

LEMMA PolledObjectsStay ==
    ASSUME ThreadInv, NEW w \in Users, At(w, "poll"), NEW o, o = user[w].obj
    PROVE  /\ o \in Users /\ Found(o)
           /\ \A u \in Users : UserDoes(u) => Found(o)' /\ mpData'[o] \in {mpData[o], None, user[o].ptr}
                                /\ (mpData'[o] \in {mpData[o], None} \/ Constructs(o) \/ Publishes(o))
           /\ \A n \in Threads : ThreadDoes(n) => Found(o)' /\ mpData'[o] = mpData[o]
<1>0. TypeOK /\ UserInv /\ BuildInv /\ o \in Users
  BY Fields DEF ThreadInv
<1>1. Found(o)
  BY DEF Found, ThreadInv, WaitInv, Of
<1>2. w \in Polling(o) /\ (mpData[o] # None => w \in Using(o))
  BY <1>0 DEF Using, Polling
<1>3. /\ user[o].next = "idle" \/ (user[o].next = "allocate" /\ At(o, "free"))
      /\ mpData[o] # None =>
            /\ user[o].next = "idle"
            /\ user[o].pc \notin {"release", "allocate", "construct"}
            /\ platform = "cpp11" => user[o].pc \notin {"identify", "publish"}
  BY <1>0, <1>1 DEF UserInv, Found, HasObject, At
<1>4. ASSUME NEW u \in Users, UserDoes(u), u # o PROVE Found(o)' /\ mpData'[o] = mpData[o]
  <2>1. user'[o] = user[o] /\ mpData'[o] = mpData[o] /\ platform' = platform
    BY <1>0, <1>4, UserStepsAreOfOne DEF OnlyUser
  <2> QED
    BY <1>1, <2>1 DEF Found, HasObject, At
<1>5. ASSUME UserDoes(o)
      PROVE  /\ mpData'[o] \in {mpData[o], None, user[o].ptr}
             /\ mpData'[o] \in {mpData[o], None} \/ Constructs(o) \/ Publishes(o)
             /\ Found(o)'
  <2>1. \A v \in Users : ~Assigns(o, v)
    BY <1>2 DEF Assigns
  <2>2. ASSUME mpData'[o] = mpData[o], platform' = platform,
               mpData[o] # None => HasObject(o, mpData[o])' /\ user'[o].pc # "release"
        PROVE  Found(o)'
    BY <2>2 DEF Found, HasObject, At
  <2>3. CASE Begins(o)
    <3>1. mpData[o] = None
      BY <1>2, <2>3 DEF Begins
    <3> QED
      BY <2>2, <2>3, <3>1 DEF Begins
  <2>4. CASE Polled(o) \/ Leaves(o) \/ AddsRef(o)
    BY <1>3, <2>2, <2>4 DEF Polled, Leaves, AddsRef, UserReturns, UserGoes, UserIs, HasObject
  <2>25. CASE Continues(o)
    <3>1. UserIs(o, "name", user[o].obj, user[o].ptr, user[o].next, user[o].answer)
      BY <2>25 DEF Continues, UserGoes
    <3> QED
      BY <1>3, <2>2, <2>25, <3>1 DEF Continues, UserIs, HasObject
  <2>20. CASE Enumerates(o)
    <3>1. PICK e \in Slots : UserIs(o, "enumerate", user[o].obj, e, user[o].next, user[o].answer)
      BY <2>20 DEF Enumerates
    <3> QED
      BY <1>3, <2>2, <2>20, <3>1 DEF Enumerates, UserIs, HasObject
  <2>5. CASE Closes(o) \/ Zeroes(o) \/ Resumes(o)
    BY <1>3, <2>2, <2>5 DEF Closes, Zeroes, Resumes, UserReturns, UserGoes, UserIs, HasObject
  <2>6. CASE ReleasesOld(o) \/ Allocates(o) \/ \E n \in Threads : MakesThread(o, n)
    <3>1. mpData[o] = None
      BY <1>0, <1>3, <2>6, Apart DEF ReleasesOld, Allocates, MakesThread, At, UserInv
    <3> QED
      BY <2>2, <2>6, <3>1 DEF ReleasesOld, Allocates, MakesThread
  <2>7. CASE CreateFails(o) \/ Destroys(o)
    BY <1>0, <2>7 DEF CreateFails, Destroys, ObjectHas, Found
  <2>8. CASE Constructs(o)
    BY <1>0, <1>3, <2>8 DEF Constructs, ObjectHas, Found, HasObject, UserGoes, UserIs, At
  <2>9. CASE Publishes(o)
    BY <1>0, <1>3, <2>9 DEF Publishes, ObjectHas, Found, HasObject, UserGoes, UserIs, At
  <2>10. CASE BeginEnds(o) \/ ReleasesEnumerated(o)
    <3>1. PICK e \in {user[o].ptr, enumData[o]} : GivesUp(o, e, 1, "idle") /\ UNCHANGED <<platform, mpData>>
      BY <2>10 DEF BeginEnds, ReleasesEnumerated
    <3>2. user'[o].pc \in {"free", "idle"} /\ user'[o].next = "idle"
      BY <3>1 DEF GivesUp, UserReturns, UserIs
    <3> QED
      BY <2>2, <3>1, <3>2 DEF HasObject
  <2>11. CASE Identifies(o)
    BY <1>3, <2>2, <2>11 DEF Identifies, UserGoes, UserIs, HasObject, At
  <2>12. CASE UserHasFreed(o) \/ Marks(o)
    BY <1>3, <2>2, <2>12 DEF UserHasFreed, Marks, UserReturns, UserIs, HasObject
  <2>13. CASE \E v \in Users : CallsWait(o, v) \/ CallsStatus(o, v)
    BY <1>3, <2>2, <2>13 DEF CallsWait, CallsStatus, UserIs, HasObject
  <2>14. CASE \E p \in UserLabels, a \in Answers : WaitsOn(o, p, a)
    BY <1>3, <2>2, <2>14 DEF WaitsOn, UserIs, WaitLabels, HasObject
  <2>15. CASE \E n \in Threads : Joins(o, n)
    BY <1>3, <2>2, <2>15 DEF Joins, UserIs, HasObject
  <2>16. CASE \E n \in Threads, q \in {"suspended", "created"} : Creates(o, n, q)
    BY <1>3, <2>2, <2>16 DEF Creates, UserGoes, UserIs, HasObject
  <2>17. mpData'[o] \in {mpData[o], None} \/ Constructs(o) \/ Publishes(o)
    <3>1. CASE Begins(o) \/ Enumerates(o) \/ Polled(o) \/ Leaves(o) \/ Closes(o) \/ Zeroes(o)
               \/ Allocates(o) \/ CreateFails(o) \/ Resumes(o) \/ BeginEnds(o) \/ Continues(o) \/ Identifies(o)
               \/ ReleasesOld(o) \/ Destroys(o) \/ AddsRef(o) \/ ReleasesEnumerated(o) \/ UserHasFreed(o)
               \/ Marks(o)
      BY <3>1 DEF Begins, Enumerates, Polled, Leaves, Closes, Zeroes, Allocates, CreateFails, Resumes, BeginEnds, Continues,
         Identifies, ReleasesOld, Destroys, AddsRef, ReleasesEnumerated, UserHasFreed, Marks, ObjectHas
    <3>2. CASE \/ \E v \in Users : CallsWait(o, v) \/ CallsStatus(o, v)
               \/ \E p \in UserLabels, a \in Answers : WaitsOn(o, p, a)
               \/ \E n \in Threads : Joins(o, n) \/ MakesThread(o, n)
               \/ \E n \in Threads, q \in {"suspended", "created"} : Creates(o, n, q)
      BY <3>2 DEF CallsWait, CallsStatus, WaitsOn, Joins, MakesThread, Creates
    <3> QED
      BY <1>5, <2>1, <3>1, <3>2 DEF UserDoes
  <2>18. Constructs(o) \/ Publishes(o) => mpData'[o] = user[o].ptr
    BY DEF Constructs, Publishes, ObjectHas
  <2>19. Found(o)'
    BY <1>5, <2>1, <2>3, <2>4, <2>5, <2>6, <2>7, <2>8, <2>9, <2>10, <2>11, <2>12, <2>13, <2>14, <2>15, <2>16, <2>20, <2>25
       DEF UserDoes
  <2> QED
    BY <2>17, <2>18, <2>19
<1>6. ASSUME NEW n \in Threads, ThreadDoes(n) PROVE Found(o)' /\ mpData'[o] = mpData[o]
  <2>1. ASSUME UNCHANGED <<platform, user, mpData>> PROVE Found(o)' /\ mpData'[o] = mpData[o]
    BY <1>1, <2>1 DEF Found, HasObject, At
  <2>2. CASE \E p \in ThreadLabels : Proceeds(n, p)
    BY <2>1, <2>2 DEF Proceeds
  <2>3. CASE ThreadHasFreed(n) \/ ThreadGivesUp(n)
    BY <2>1, <2>3 DEF ThreadHasFreed, ThreadGivesUp
  <2>4. ASSUME NEW v \in Users, DestroysWithin(n, v) PROVE Found(o)' /\ mpData'[o] = mpData[o]
    <3>1. v # o
      <4>1. thread[n].ptr # None
        BY <2>4, Apart DEF ThreadInv, LiveThreadInv, DestroysWithin, IsAt
      <4> QED
        BY <1>2, <2>4, <4>1 DEF DestroysWithin
    <3>2. UNCHANGED <<platform, user>> /\ mpData'[o] = mpData[o]
      BY <1>0, <2>4, <3>1 DEF DestroysWithin, ObjectHas
    <3> QED
      BY <1>1, <3>2 DEF Found, HasObject, At
  <2> QED
    BY <1>6, <2>2, <2>3, <2>4 DEF ThreadDoes
<1> QED
  BY <1>0, <1>1, <1>4, <1>5, <1>6

\* What a step may do to data: nothing, or something to data that lives and
\* goes on to live, or the steps that make and free it.
Lives(d) == data[d].live /\ data[d].used /\ Life(d)
IsMade(u, d) ==
    \/ \E n \in Threads, q \in {"suspended", "created"} : Creates(u, n, q) /\ d = user[u].ptr
    \/ Identifies(u) /\ d = user[u].ptr
    \/ Begins(u) /\ ~data[d].used
          /\ data'[d] = [Fresh EXCEPT !.used = TRUE, !.live = TRUE, !.mThreadId = u,
                                      !.mnRefCount = IF platform = "cpp11" THEN 3 ELSE 2]
    \/ Allocates(u) /\ ~data[d].used /\ data'[d] = [data[d] EXCEPT !.used = TRUE] /\ user'[u].ptr = d
    \/ (Constructs(u) \/ \E n \in Threads : MakesThread(u, n)) /\ d = user[u].ptr
IsFreed(d) == data'[d] = Fresh /\ data[d].live /\ data[d].mnRefCount = 0

LEMMA DataMoves ==
    ASSUME ThreadInv, NEW d \in Data
    PROVE  /\ \A u \in Users : UserDoes(u) =>
                 \/ data'[d] = data[d]
                 \/ Lives(d) /\ (SameName(d) \/ data'[d].mThreadId = None)
                 \/ IsMade(u, d) \/ (IsFreed(d) /\ At(u, "free") /\ d = user[u].ptr)
           /\ \A n \in Threads : ThreadDoes(n) =>
                 \/ data'[d] = data[d]
                 \/ Lives(d) /\ SameName(d)
                 \/ IsFreed(d) /\ IsAt(n, "free") /\ d = thread[n].ptr
<1> USE DEF ThreadInv
<1>0. TypeOK /\ data[d].mnRefCount \in Nat /\ DataInv /\ CountInv
  BY Fields
<1>1. ASSUME NEW u \in Users, UserDoes(u)
      PROVE  \/ data'[d] = data[d]
             \/ Lives(d) /\ (SameName(d) \/ data'[d].mThreadId = None)
             \/ IsMade(u, d) \/ (IsFreed(d) /\ At(u, "free") /\ d = user[u].ptr)
  <2>1. CASE \E e \in Data, k \in Nat, l \in {"idle", "allocate"} :
                 GivesUp(u, e, k, l) /\ k # 0 /\ data[e].mnRefCount >= k
    <3>1. PICK e \in Data, k \in Nat, l \in {"idle", "allocate"} :
                 GivesUp(u, e, k, l) /\ k # 0 /\ data[e].mnRefCount >= k
      BY <2>1
    <3>2. CASE d = e
      <4>1. data[d].live /\ data[d].used
        BY <1>0, <3>1, <3>2, LiveIfCounted
      <4> QED
        BY <3>1, <3>2, <4>1 DEF GivesUp, CountIs, Lives
    <3>3. CASE d # e
      BY <3>1, <3>3 DEF GivesUp, CountIs, DataStay
    <3> QED
      BY <3>2, <3>3
  <2>2. CASE CreateFails(u) \/ BeginEnds(u) \/ ReleasesOld(u) \/ Destroys(u) \/ ReleasesEnumerated(u)
    <3>1. CASE CreateFails(u)
      <4>1. GivesUp(u, user[u].ptr, 3, "idle") /\ user[u].ptr \in Data /\ data[user[u].ptr].mnRefCount >= 3
        BY <3>1, MayGiveUp DEF CreateFails
      <4> QED
        BY <2>1, <4>1
    <3>2. CASE BeginEnds(u)
      <4>1. GivesUp(u, user[u].ptr, 1, "idle") /\ user[u].ptr \in Data /\ data[user[u].ptr].mnRefCount >= 1
        BY <3>2, MayGiveUp DEF BeginEnds
      <4> QED
        BY <2>1, <4>1
    <3>3. CASE ReleasesOld(u) \/ Destroys(u)
      <4>1. (GivesUp(u, mpData[u], 1, "allocate") \/ GivesUp(u, mpData[u], 1, "idle"))
            /\ mpData[u] \in Data /\ data[mpData[u]].mnRefCount >= 1
        BY <3>3, MayGiveUp DEF ReleasesOld, Destroys
      <4> QED
        BY <2>1, <4>1
    <3>4. CASE ReleasesEnumerated(u)
      <4>1. GivesUp(u, enumData[u], 1, "idle") /\ enumData[u] \in Data /\ data[enumData[u]].mnRefCount >= 1
        BY <3>4, MayGiveUp DEF ReleasesEnumerated
      <4> QED
        BY <2>1, <4>1
    <3> QED
      BY <2>2, <3>1, <3>2, <3>3, <3>4
  <2>3. CASE \/ Enumerates(u) \/ Polled(u) \/ Leaves(u) \/ Closes(u) \/ Resumes(u) \/ Publishes(u)
             \/ \E o \in Users : CallsWait(u, o) \/ CallsStatus(u, o)
    BY <2>3 DEF Enumerates, Polled, Leaves, Closes, Resumes, Publishes, CallsWait, CallsStatus
  <2>4. CASE Begins(u)
    BY <2>4 DEF Begins, DataStay, IsMade
  <2>5. CASE Allocates(u)
    <3>1. PICK e \in Data :
             /\ ~data[e].used /\ data'[e] = [data[e] EXCEPT !.used = TRUE] /\ DataStay(e)
             /\ UserIs(u, "construct", user[u].obj, e, user[u].next, user[u].answer)
      BY <2>5 DEF Allocates
    <3>2. user'[u].ptr = e
      BY <3>1 DEF UserIs
    <3> QED
      BY <2>5, <3>1, <3>2 DEF DataStay, IsMade
  <2>6. CASE Constructs(u) \/ \E n \in Threads : MakesThread(u, n)
    BY <2>6 DEF Constructs, MakesThread, DataStay, IsMade
  <2>7. CASE Identifies(u)
    BY <2>7 DEF Identifies, DataStay, IsMade
  <2>8. CASE \E n \in Threads, q \in {"suspended", "created"} : Creates(u, n, q)
    BY <2>8 DEF Creates, DataStay, IsMade
  <2>9. CASE AddsRef(u) \/ Continues(u)
    <3>1. data[user[u].ptr].live => data[user[u].ptr].used \/ d # user[u].ptr
      BY DEF DataInv
    <3> QED
      BY <2>9, <3>1 DEF AddsRef, Continues, CountIs, DataStay, Lives
  <2>10. CASE UserHasFreed(u)
    <3>1. data[user[u].ptr].live /\ data[user[u].ptr].mnRefCount = 0
      BY <2>10 DEF UserHasFreed, FreeInv
    <3> QED
      BY <2>10, <3>1 DEF UserHasFreed, Frees, DataStay, IsFreed
  <2>11. CASE \E v \in Users : Assigns(u, v)
    <3>1. PICK v \in Users : Assigns(u, v)
      BY <2>11
    <3>2. d \in {mpData[u], mpData[v]} => data[d].live /\ data[d].used
      <4>1. At(u, "idle") /\ At(v, "idle") /\ mpData[v] # None
        BY <3>1 DEF Assigns
      <4>2. d \in {mpData[u], mpData[v]} => data[d].mnRefCount >= 1
        BY <4>1, MayGiveUp, Apart
      <4> QED
        BY <1>0, <4>2, LiveIfCounted
    <3> QED
      BY <3>1, <3>2 DEF Assigns, Lives
  <2>12. CASE \E p \in UserLabels, a \in Answers : WaitsOn(u, p, a)
    <3>1. user[u].pc \in Waiting
      BY <2>12 DEF WaitsOn, Waiting
    <3>2. data[Of(u)].live /\ (d = Of(u) => data[d].used)
      BY <3>1, WaitersHaveData DEF DataInv
    <3> QED
      BY <2>12, <3>2 DEF WaitsOn, DataStay, Lives
  <2>13. CASE Zeroes(u) \/ \E n \in Threads : Joins(u, n)
    <3>1. user[u].pc \in Waiting
      BY <2>13 DEF Zeroes, Joins, Waiting, WaitLabels, StatusLabels
    <3>2. data[Of(u)].live /\ (d = Of(u) => data[d].used)
      BY <3>1, WaitersHaveData DEF DataInv
    <3>3. DataStay(Of(u)) /\ Life(Of(u)) /\ data'[Of(u)].mThreadId = None
      BY <2>13 DEF Zeroes, Joins
    <3> QED
      BY <3>2, <3>3 DEF DataStay, Lives
  <2>14. CASE Marks(u)
    <3>1. HasObject(u, mpData[u]) /\ mpData[u] \in Data
      BY <1>0, <2>14, Fields DEF Marks, HasObject, InBegin, BeginLabels
    <3>2. data[mpData[u]].live /\ data[mpData[u]].used
      BY <1>0, <3>1, LiveIfOwned
    <3> QED
      BY <2>14, <3>2 DEF Marks, DataStay, Lives
  <2> QED
    BY <1>1, <2>2, <2>3, <2>4, <2>5, <2>6, <2>7, <2>8, <2>9, <2>10, <2>11, <2>12, <2>13, <2>14 DEF UserDoes
<1>2. ASSUME NEW n \in Threads, ThreadDoes(n)
      PROVE  \/ data'[d] = data[d]
             \/ Lives(d) /\ SameName(d)
             \/ IsFreed(d) /\ IsAt(n, "free") /\ d = thread[n].ptr
  <2>1. ASSUME thread[n].pc \notin {"unborn", "free", "exited"}, d = thread[n].ptr
        PROVE  data[d].live /\ data[d].used
    BY <1>0, <2>1, LiveIfOwned DEF Runs
  <2>2. CASE \E p \in ThreadLabels : Proceeds(n, p)
    BY <2>1, <2>2 DEF Proceeds, DataStay, Lives
  <2>3. CASE ThreadGivesUp(n)
    BY <2>1, <2>3 DEF ThreadGivesUp, CountIs, DataStay, Lives
  <2>4. CASE ThreadHasFreed(n)
    <3>1. data[thread[n].ptr].live /\ data[thread[n].ptr].mnRefCount = 0
      BY <2>4 DEF ThreadHasFreed, FreeInv
    <3> QED
      BY <2>4, <3>1 DEF ThreadHasFreed, Frees, DataStay, IsFreed
  <2>5. CASE \E o \in Users : DestroysWithin(n, o)
    BY <2>1, <2>5 DEF DestroysWithin, CountIs, DataStay, Lives, IsAt
  <2> QED
    BY <1>2, <2>2, <2>3, <2>4, <2>5 DEF ThreadDoes
<1> QED
  BY <1>1, <1>2

-----------------------------------------------------------------------------
(* The count of references.                                                *)

\* A step of user u, and of thread n, changes the count as what they own.
LEMMA CountAfterUser ==
    ASSUME TypeOK, CountInv, NEW u \in Users, OnlyUser(u), UNCHANGED thread,
           \A d \in Data : data'[d].mnRefCount =
               data[d].mnRefCount - References(u, d) + References(u, d)' - CallersOwn(d) + CallersOwn(d)'
    PROVE  CountInv'
<1>1. ASSUME NEW d \in Data
      PROVE  data'[d].mnRefCount = UserRefs(d)' + ThreadRefs(d)' + CallersOwn(d)'
  <2>1. UserRefs(d)' = UserRefs(d) - References(u, d) + References(u, d)' /\ ThreadRefs(d)' = ThreadRefs(d)
    BY UserRefsMove, ThreadRefsStay
  <2>2. data[d].mnRefCount = UserRefs(d) + ThreadRefs(d) + CallersOwn(d)
    BY DEF CountInv
  <2>3. /\ UserRefs(d) \in Nat /\ ThreadRefs(d) \in Nat /\ CallersOwn(d) \in Nat /\ References(u, d) \in Nat
    BY RefsAreNumbers
  <2>4. References(u, d)' \in Nat /\ CallersOwn(d)' \in Nat
    BY DEF References, Value, CallersOwn
  <2> QED
    BY <2>1, <2>2, <2>3, <2>4
<1> QED
  BY <1>1 DEF CountInv

LEMMA CountAfterThread ==
    ASSUME TypeOK, CountInv, NEW n \in Threads, UNCHANGED <<platform, user, mpData, enumData>>,
           \A m \in Threads \ {n} : thread'[m] = thread[m],
           \A d \in Data : /\ data'[d].mnRefCount =
                                 data[d].mnRefCount - Value(Runs(n, d)) + Value(Runs(n, d)')
                           /\ External(d)' <=> External(d)
    PROVE  CountInv'
<1>1. ASSUME NEW d \in Data
      PROVE  data'[d].mnRefCount = UserRefs(d)' + ThreadRefs(d)' + CallersOwn(d)'
  <2>1. UserRefs(d)' = UserRefs(d) /\ ThreadRefs(d)' = ThreadRefs(d) - Value(Runs(n, d)) + Value(Runs(n, d)')
    BY UserRefsStay, ThreadRefsMove
  <2>2. data[d].mnRefCount = UserRefs(d) + ThreadRefs(d) + CallersOwn(d)
    BY DEF CountInv
  <2>3. /\ UserRefs(d) \in Nat /\ ThreadRefs(d) \in Nat /\ CallersOwn(d) \in Nat
    BY RefsAreNumbers
  <2>4. CallersOwn(d)' = CallersOwn(d)
    BY DEF CallersOwn
  <2>5. \A b : Value(b) \in Nat
    BY DEF Value
  <2> HIDE DEF Value
  <2> QED
    BY <2>1, <2>2, <2>3, <2>4, <2>5
<1> QED
  BY <1>1 DEF CountInv

\* Both at once.
LEMMA CountAfterBoth ==
    ASSUME TypeOK, CountInv, NEW u \in Users, OnlyUser(u), NEW n \in Threads,
           \A m \in Threads \ {n} : thread'[m] = thread[m],
           \A d \in Data : data'[d].mnRefCount =
               data[d].mnRefCount - References(u, d) + References(u, d)' - Value(Runs(n, d)) + Value(Runs(n, d)')
                   - CallersOwn(d) + CallersOwn(d)'
    PROVE  CountInv'
<1>1. ASSUME NEW d \in Data
      PROVE  data'[d].mnRefCount = UserRefs(d)' + ThreadRefs(d)' + CallersOwn(d)'
  <2>1. /\ UserRefs(d)' = UserRefs(d) - References(u, d) + References(u, d)'
        /\ ThreadRefs(d)' = ThreadRefs(d) - Value(Runs(n, d)) + Value(Runs(n, d)')
    BY UserRefsMove, ThreadRefsMove
  <2>2. data[d].mnRefCount = UserRefs(d) + ThreadRefs(d) + CallersOwn(d)
    BY DEF CountInv
  <2>3. /\ UserRefs(d) \in Nat /\ ThreadRefs(d) \in Nat /\ CallersOwn(d) \in Nat /\ References(u, d) \in Nat
    BY RefsAreNumbers
  <2>4. References(u, d)' \in Nat /\ CallersOwn(d)' \in Nat
    BY DEF References, Value, CallersOwn
  <2>5. \A b : Value(b) \in Nat
    BY DEF Value
  <2> HIDE DEF Value
  <2> QED
    BY <2>1, <2>2, <2>3, <2>4, <2>5
<1> QED
  BY <1>1 DEF CountInv

\* Nothing that is counted changes.
SameRefs(u) ==
    \A d \in Data : /\ HasObject(u, d)' <=> HasObject(u, d)
                    /\ HasBegun(u, d)' <=> HasBegun(u, d)
                    /\ HasCreation(u, d)' <=> HasCreation(u, d)
                    /\ HasEnumerated(u, d)' <=> HasEnumerated(u, d)

LEMMA CountStays ==
    ASSUME TypeOK, CountInv, platform' = platform, NEW u \in Users, OnlyUser(u), SameRefs(u),
           \A n \in Threads : thread'[n].ptr = thread[n].ptr /\
               (thread'[n].pc \in {"unborn", "free", "exited"} <=> thread[n].pc \in {"unborn", "free", "exited"}),
           \A d \in Data : SameCount(d) /\ (External(d)' <=> External(d))
    PROVE  CountInv'
<1>1. ASSUME NEW d \in Data
      PROVE  data'[d].mnRefCount = UserRefs(d)' + ThreadRefs(d)' + CallersOwn(d)'
  <2>1. UserRefs(d)' = UserRefs(d) - References(u, d) + References(u, d)'
    BY UserRefsMove
  <2>2. References(u, d)' = References(u, d)
    BY DEF SameRefs, References, Value
  <2>3. ThreadRefs(d)' = ThreadRefs(d)
    <3>1. Running(d)' = Running(d)
      BY DEF Running
    <3> QED
      BY <3>1 DEF ThreadRefs
  <2>4. CallersOwn(d)' = CallersOwn(d)
    BY DEF CallersOwn
  <2>5. data[d].mnRefCount = UserRefs(d) + ThreadRefs(d) + CallersOwn(d)
    BY DEF CountInv
  <2>6. /\ UserRefs(d) \in Nat /\ References(u, d) \in Nat
    BY RefsAreNumbers
  <2> QED
    BY <2>1, <2>2, <2>3, <2>4, <2>5, <2>6 DEF SameCount
<1> QED
  BY <1>1 DEF CountInv

LEMMA CountAfterGivingUp ==
    ASSUME TypeOK, CountInv, NEW u \in Users, OnlyUser(u), UNCHANGED thread, NEW e \in Data, NEW k \in Nat, NEW l,
           GivesUp(u, e, k, l),
           \A d \in Data : References(u, d)' = References(u, d) - (IF d = e THEN k ELSE 0)
    PROVE  CountInv'
<1>1. platform' = platform /\ CountIs(e, data[e].mnRefCount - k)
  BY DEF OnlyUser, GivesUp
<1>2. ASSUME NEW d \in Data
      PROVE  data'[d].mnRefCount =
               data[d].mnRefCount - References(u, d) + References(u, d)' - CallersOwn(d) + CallersOwn(d)'
  <2>1. References(u, d) \in Nat /\ CallersOwn(d) \in Nat /\ data[d].mnRefCount \in Nat
    BY RefsAreNumbers, Fields
  <2>2. CallersOwn(d)' = CallersOwn(d)
    <3>1. data'[d].mThreadId = data[d].mThreadId
      BY <1>1 DEF CountIs, DataStay, SameName
    <3> QED
      BY <1>1, <3>1 DEF CallersOwn, External
  <2>3. data'[d].mnRefCount = data[d].mnRefCount - (IF d = e THEN k ELSE 0)
    BY <1>1, <2>1 DEF CountIs, DataStay
  <2> QED
    BY <2>1, <2>2, <2>3
<1> QED
  BY <1>2, CountAfterUser

\* Steps of a user that change no reference.
LEMMA CountKeeps ==
    ASSUME ThreadInv, NEW u \in Users, OnlyUser(u),
           \/ Begins(u) /\ UNCHANGED data
           \/ Enumerates(u) \/ Polled(u) \/ Leaves(u) \/ Closes(u) \/ Zeroes(u) \/ Allocates(u) \/ Resumes(u)
           \/ Identifies(u) \/ Marks(u)
           \/ \E o \in Users : CallsWait(u, o) \/ CallsStatus(u, o)
           \/ \E p \in UserLabels, a \in Answers : WaitsOn(u, p, a)
           \/ \E n \in Threads : Joins(u, n)
    PROVE  CountInv'
<1>0. TypeOK /\ CountInv /\ platform' = platform
  BY DEF ThreadInv, OnlyUser
<1>1. user[u].next = "idle" \/ (user[u].next = "allocate" /\ At(u, "free"))
  BY DEF ThreadInv, UserInv
<1>2. SameRefs(u)
  <2> USE DEF SameRefs, HasObject, HasBegun, HasCreation, HasEnumerated
  <2>1. CASE Begins(u)
    BY <1>0, <1>1, <2>1, Apart DEF Begins, UserGoes, UserIs, At
  <2>2. CASE Enumerates(u)
    <3>1. PICK e \in Slots : UserIs(u, "enumerate", user[u].obj, e, user[u].next, user[u].answer)
      BY <2>2 DEF Enumerates
    <3> QED
      BY <1>0, <1>1, <2>2, <3>1 DEF Enumerates, UserIs, At
  <2>3. CASE Polled(u)
    BY <1>0, <1>1, <2>3 DEF Polled, UserGoes, UserIs, At
  <2>4. CASE Leaves(u)
    BY <1>0, <1>1, <2>4 DEF Leaves, UserReturns, UserIs, At, WaitLabels
  <2>5. CASE Closes(u)
    BY <1>0, <1>1, <2>5 DEF Closes, UserGoes, UserIs, At
  <2>6. CASE Zeroes(u)
    BY <1>0, <1>1, <2>6 DEF Zeroes, UserReturns, UserIs, At
  <2>7. CASE Allocates(u)
    <3>1. PICK e \in Data : UserIs(u, "construct", user[u].obj, e, user[u].next, user[u].answer)
      BY <2>7 DEF Allocates
    <3> QED
      BY <1>0, <1>1, <2>7, <3>1 DEF Allocates, UserIs, At
  <2>8. CASE Resumes(u)
    BY <1>0, <1>1, <2>8 DEF Resumes, UserGoes, UserIs, At
  <2>9. CASE Identifies(u)
    BY <1>0, <1>1, <2>9 DEF Identifies, UserGoes, UserIs, At
  <2>11. CASE Marks(u)
    BY <1>0, <2>11 DEF Marks, At
  <2>12. CASE \E o \in Users : CallsWait(u, o) \/ CallsStatus(u, o)
    BY <1>0, <1>1, <2>12 DEF CallsWait, CallsStatus, UserIs, At
  <2>13. CASE \E p \in UserLabels, a \in Answers : WaitsOn(u, p, a)
    BY <1>0, <1>1, <2>13 DEF WaitsOn, UserIs, At, WaitLabels
  <2>14. CASE \E n \in Threads : Joins(u, n)
    BY <1>0, <1>1, <2>14 DEF Joins, UserIs, At
  <2> QED
    BY <2>1, <2>2, <2>3, <2>4, <2>5, <2>6, <2>7, <2>8, <2>9, <2>11, <2>12, <2>13, <2>14
<1>3. \A n \in Threads : thread'[n].ptr = thread[n].ptr /\
          (thread'[n].pc \in {"unborn", "free", "exited"} <=> thread[n].pc \in {"unborn", "free", "exited"})
  <2>1. CASE Resumes(u)
    BY <2>1 DEF Resumes, ThreadGoes, ThreadIs, IsAt
  <2>2. CASE UNCHANGED thread
    BY <2>2
  <2> QED
    BY <2>1, <2>2 DEF Begins, Enumerates, Polled, Leaves, Closes, Zeroes, Allocates, Identifies, Marks,
       CallsWait, CallsStatus, WaitsOn, Joins
<1>4. ASSUME NEW d \in Data PROVE SameCount(d) /\ (External(d)' <=> External(d))
  <2> USE DEF SameCount, External
  <2>1. CASE UNCHANGED data
    BY <2>1
  <2>2. CASE Zeroes(u) \/ \E n \in Threads : Joins(u, n)
    <3>1. user[u].pc \in Waiting
      BY <2>2 DEF Zeroes, Joins, Waiting, WaitLabels, StatusLabels
    <3>2. data[Of(u)].mThreadId \in Threads \cup {None}
      BY <3>1, WaitersHaveData
    <3>3. DataStay(Of(u)) /\ SameCount(Of(u)) /\ data'[Of(u)].mThreadId = None
      BY <2>2 DEF Zeroes, Joins
    <3> QED
      BY <3>2, <3>3, Apart DEF DataStay
  <2>3. CASE Allocates(u)
    <3>1. PICK e \in Data : ~data[e].used /\ data'[e] = [data[e] EXCEPT !.used = TRUE] /\ DataStay(e)
      BY <2>3 DEF Allocates
    <3>2. data[e] \in DataRecords
      BY <1>0, Fields
    <3>3. data'[e].mnRefCount = data[e].mnRefCount /\ data'[e].mThreadId = data[e].mThreadId
      BY <3>1, <3>2 DEF DataRecords
    <3> QED
      BY <3>1, <3>3 DEF DataStay
  <2>4. CASE Identifies(u)
    <3>1. user[u].ptr \in Data /\ data[user[u].ptr].mThreadId = None
      BY <2>4 DEF Identifies, ThreadInv, UserInv, BuildInv, Building, At
    <3>2. data[user[u].ptr].mSysThreadId \notin Users
      BY <1>0, <3>1, Fields, Apart
    <3> QED
      BY <2>4, <3>1, <3>2, Apart DEF Identifies, DataStay
  <2>5. CASE Marks(u)
    BY <2>5 DEF Marks, DataStay, SameName
  <2>6. CASE \E p \in UserLabels, a \in Answers : WaitsOn(u, p, a)
    BY <2>6 DEF WaitsOn, SameName
  <2> QED
    BY <2>1, <2>2, <2>3, <2>4, <2>5, <2>6 DEF Begins, Enumerates, Polled, Leaves, Closes, Resumes,
       CallsWait, CallsStatus
<1> QED
  BY <1>0, <1>2, <1>3, <1>4, CountStays

\* Steps that give references up, or pass them on.
LEMMA CountAfterRelease ==
    ASSUME ThreadInv, NEW u \in Users, OnlyUser(u),
           CreateFails(u) \/ BeginEnds(u) \/ ReleasesOld(u) \/ Destroys(u) \/ ReleasesEnumerated(u)
    PROVE  CountInv'
<1>0. TypeOK /\ CountInv /\ platform' = platform
  BY DEF ThreadInv, OnlyUser
<1>1. user[u].next = "idle" \/ (user[u].next = "allocate" /\ At(u, "free"))
  BY DEF ThreadInv, UserInv
<1>2. UNCHANGED thread
  BY DEF CreateFails, BeginEnds, ReleasesOld, Destroys, ReleasesEnumerated
<1>3. ASSUME NEW e, NEW k, NEW l, GivesUp(u, e, k, l), l # "idle" => l = "allocate"
      PROVE  /\ user'[u].pc \in {"free", l}
             /\ user'[u].next \in {l, "idle", user[u].next}
             /\ user'[u].pc = "free" => user'[u].next = l
             /\ user'[u].pc = "idle" => user'[u].next = "idle"
  <2>1. \/ UserIs(u, "free", user[u].obj, e, l, user[u].answer)
        \/ UserReturns(u) /\ l = "idle"
        \/ UserGoes(u, l)
    BY <1>3 DEF GivesUp
  <2>2. l = "idle" => \/ UserIs(u, "free", user[u].obj, e, l, user[u].answer)
                      \/ UserReturns(u)
    BY <1>3 DEF GivesUp
  <2> QED
    BY <1>3, <2>1, <2>2 DEF UserReturns, UserGoes, UserIs
<1> USE DEF References, Value, HasObject, HasBegun, HasCreation, HasEnumerated
<1>4. CASE CreateFails(u)
  <2> DEFINE e == user[u].ptr
  <2>1. /\ e \in Data /\ At(u, "create") /\ GivesUp(u, e, 3, "idle") /\ mpData'[u] = None /\ enumData' = enumData
        /\ mpData[u] = e
    BY <1>4, MayGiveUp DEF CreateFails, ObjectHas, ThreadInv, BuildInv
  <2>2. user'[u].pc \in {"free", "idle"}
    BY <1>3, <2>1
  <2>3. \A d \in Data : References(u, d)' = References(u, d) - (IF d = e THEN 3 ELSE 0)
    BY <1>0, <1>1, <2>1, <2>2, Apart DEF At
  <2> QED
    BY <1>0, <1>2, <2>1, <2>3, CountAfterGivingUp
<1>5. CASE BeginEnds(u)
  <2> DEFINE e == user[u].ptr
  <2>1. /\ e \in Data /\ At(u, "created") /\ GivesUp(u, e, 1, "idle") /\ mpData' = mpData /\ enumData' = enumData
        /\ platform # "cpp11"
    BY <1>5, MayGiveUp DEF BeginEnds
  <2>2. user'[u].pc \in {"free", "idle"} /\ user'[u].next = "idle"
    BY <1>3, <2>1
  <2>3. \A d \in Data : References(u, d)' = References(u, d) - (IF d = e THEN 1 ELSE 0)
    BY <1>0, <1>1, <2>1, <2>2 DEF At
  <2> QED
    BY <1>0, <1>2, <2>1, <2>3, CountAfterGivingUp
<1>6. CASE ReleasesOld(u)
  <2> DEFINE e == mpData[u]
  <2>1. /\ e \in Data /\ At(u, "release") /\ GivesUp(u, e, 1, "allocate") /\ mpData' = mpData /\ enumData' = enumData
    BY <1>6, MayGiveUp DEF ReleasesOld
  <2>2. user'[u].pc \in {"free", "allocate"} /\ (user'[u].pc = "free" => user'[u].next = "allocate")
    BY <1>3, <2>1
  <2>3. \A d \in Data : References(u, d)' = References(u, d) - (IF d = e THEN 1 ELSE 0)
    BY <1>0, <1>1, <2>1, <2>2 DEF At
  <2> QED
    BY <1>0, <1>2, <2>1, <2>3, CountAfterGivingUp
<1>7. CASE Destroys(u)
  <2> DEFINE e == mpData[u]
  <2>1. /\ e \in Data /\ At(u, "idle") /\ GivesUp(u, e, 1, "idle") /\ mpData'[u] = None /\ enumData' = enumData
    BY <1>7, MayGiveUp DEF Destroys, ObjectHas
  <2>2. user'[u].pc \in {"free", "idle"}
    BY <1>3, <2>1
  <2>3. \A d \in Data : References(u, d)' = References(u, d) - (IF d = e THEN 1 ELSE 0)
    BY <1>0, <1>1, <2>1, <2>2, Apart DEF At
  <2> QED
    BY <1>0, <1>2, <2>1, <2>3, CountAfterGivingUp
<1>8. CASE ReleasesEnumerated(u)
  <2> DEFINE e == enumData[u]
  <2>1. /\ e \in Data /\ At(u, "idle") /\ GivesUp(u, e, 1, "idle") /\ mpData' = mpData /\ enumData'[u] = None
    BY <1>8, MayGiveUp DEF ReleasesEnumerated, EnumHas
  <2>2. user'[u].pc \in {"free", "idle"} /\ user'[u].next = "idle"
    BY <1>3, <2>1
  <2>3. \A d \in Data : References(u, d)' = References(u, d) - (IF d = e THEN 1 ELSE 0)
    BY <1>0, <1>1, <2>1, <2>2, Apart DEF At
  <2> QED
    BY <1>0, <1>2, <2>1, <2>3, CountAfterGivingUp
<1> QED
  BY <1>4, <1>5, <1>6, <1>7, <1>8

\* Data that nobody has: nothing counts before.
LEMMA NothingOwned ==
    ASSUME ThreadInv, NEW d \in Data, data[d].mnRefCount = 0
    PROVE  /\ \A u \in Users : References(u, d) = 0
           /\ \A n \in Threads : Value(Runs(n, d)) = 0
           /\ CallersOwn(d) = 0
<1> QED
  BY NobodyOwns DEF References, Value, CallersOwn, ThreadInv

LEMMA CountAfterBegin ==
    ASSUME ThreadInv, NEW u \in Users, OnlyUser(u), Begins(u), ~UNCHANGED data
    PROVE  CountInv'
<1>0. TypeOK /\ CountInv /\ DataInv /\ platform' = platform /\ UNCHANGED thread
  BY DEF ThreadInv, OnlyUser, Begins
<1>1. user[u].next = "idle" /\ At(u, "idle")
  BY DEF ThreadInv, UserInv, Begins, At
<1> DEFINE k == IF platform = "cpp11" THEN 3 ELSE 2
<1>2. PICK e \in Data :
         /\ ~data[e].used
         /\ data'[e] = [Fresh EXCEPT !.used = TRUE, !.live = TRUE, !.mThreadId = u, !.mnRefCount = k]
         /\ DataStay(e)
  BY DEF Begins
<1>3. data[e].mnRefCount = 0
  BY <1>0, <1>2, LiveIfCounted
<1>4. data'[e].mnRefCount = k /\ data'[e].mThreadId = u
  <2>1. k \in Nat
    OBVIOUS
  <2> HIDE DEF k
  <2>2. LET r == [Fresh EXCEPT !.used = TRUE, !.live = TRUE, !.mThreadId = u, !.mnRefCount = k] IN
        r.mnRefCount = k /\ r.mThreadId = u
    BY FreshFields DEF DataRecords
  <2> QED
    BY <1>2, <2>2
<1>5. ASSUME NEW d \in Data PROVE References(u, d)' = References(u, d)
  <2>1. mpData' = mpData /\ enumData' = enumData /\ user'[u].next = "idle"
        /\ user'[u].pc = IF mpData[u] = None THEN "allocate" ELSE "release"
    BY <1>1 DEF Begins, UserGoes, UserIs
  <2> QED
    BY <1>0, <1>1, <2>1, Apart DEF References, Value, HasObject, HasBegun, HasCreation, HasEnumerated, At
<1>6. ASSUME NEW d \in Data
      PROVE  data'[d].mnRefCount =
               data[d].mnRefCount - References(u, d) + References(u, d)' - CallersOwn(d) + CallersOwn(d)'
  <2>1. References(u, d) \in Nat /\ CallersOwn(d) \in Nat /\ data[d].mnRefCount \in Nat
    BY <1>0, RefsAreNumbers, Fields
  <2>2. CASE d = e
    <3>1. CallersOwn(d) = 0 /\ CallersOwn(d)' = k
      BY <1>0, <1>3, <1>4, <2>2, NothingOwned DEF CallersOwn, External
    <3> QED
      BY <1>3, <1>4, <1>5, <2>1, <2>2, <3>1
  <2>3. CASE d # e
    <3>1. data'[d] = data[d]
      BY <1>2, <2>3 DEF DataStay
    <3>2. CallersOwn(d)' = CallersOwn(d)
      BY <1>0, <3>1 DEF CallersOwn, External
    <3> QED
      BY <1>5, <2>1, <3>1, <3>2
  <2> QED
    BY <2>2, <2>3
<1> QED
  BY <1>0, <1>6, CountAfterUser

LEMMA CountAfterConstruct ==
    ASSUME ThreadInv, NEW u \in Users, OnlyUser(u), Constructs(u)
    PROVE  CountInv'
<1> DEFINE e == user[u].ptr
<1>0. TypeOK /\ CountInv /\ DataInv /\ platform' = platform /\ UNCHANGED <<thread, enumData>>
  BY DEF ThreadInv, OnlyUser, Constructs
<1>1. /\ At(u, "construct") /\ platform # "cpp11" /\ e \in Data /\ ~data[e].live
      /\ user[u].next = "idle"
  BY DEF ThreadInv, UserInv, BuildInv, Building, Constructs, At
<1>2. data[e].mnRefCount = 0
  BY <1>0, <1>1, LiveIfCounted
<1>3. data'[e].mnRefCount = 3 /\ data'[e].mThreadId = None
  <2>1. LET r == [Fresh EXCEPT !.used = TRUE, !.live = TRUE, !.mnRefCount = 3] IN
        r.mnRefCount = 3 /\ r.mThreadId = None
    BY NewFields
  <2> QED
    BY <2>1 DEF Constructs
<1>4. /\ mpData'[u] = e /\ user'[u].ptr = e /\ user'[u].next = "idle" /\ user'[u].pc = "create"
  BY <1>1 DEF Constructs, ObjectHas, UserGoes, UserIs
<1>5. ASSUME NEW d \in Data
      PROVE  data'[d].mnRefCount =
               data[d].mnRefCount - References(u, d) + References(u, d)' - CallersOwn(d) + CallersOwn(d)'
  <2>1. References(u, d) \in Nat /\ CallersOwn(d) \in Nat /\ data[d].mnRefCount \in Nat
    BY <1>0, RefsAreNumbers, Fields
  <2>2. References(u, d)' = References(u, d) + (IF d = e THEN 3 ELSE 0)
    <3> USE DEF References, Value, HasObject, HasBegun, HasCreation, HasEnumerated
    <3>1. CASE d = e
      <4>1. References(u, d) = 0
        BY <1>2, <3>1, NothingOwned
      <4>2. enumData[u] # e
        BY <1>0, <1>1, <1>2, NobodyOwns
      <4> QED
        BY <1>0, <1>1, <1>4, <3>1, <4>1, <4>2 DEF At
    <3>2. CASE d # e
      BY <1>0, <1>1, <1>4, <3>2 DEF At
    <3> QED
      BY <3>1, <3>2
  <2>3. CASE d = e
    <3>1. CallersOwn(d) = 0 /\ CallersOwn(d)' = 0
      BY <1>0, <1>1, <1>2, <1>3, <2>3, NothingOwned, Apart DEF CallersOwn, External
    <3> QED
      BY <1>2, <1>3, <2>1, <2>2, <2>3, <3>1
  <2>4. CASE d # e
    <3>1. data'[d] = data[d]
      BY <2>4 DEF Constructs, DataStay
    <3>2. CallersOwn(d)' = CallersOwn(d)
      BY <1>0, <3>1 DEF CallersOwn, External
    <3> QED
      BY <2>1, <2>2, <2>4, <3>1, <3>2
  <2> QED
    BY <2>3, <2>4
<1> QED
  BY <1>0, <1>5, CountAfterUser

LEMMA CountAfterCreate ==
    ASSUME ThreadInv, NEW u \in Users, OnlyUser(u), NEW n \in Threads, NEW q \in {"suspended", "created"},
           Creates(u, n, q)
    PROVE  CountInv'
<1> DEFINE e == user[u].ptr
<1>0. TypeOK /\ CountInv /\ DataInv /\ platform' = platform /\ UNCHANGED <<mpData, enumData>>
  BY DEF ThreadInv, OnlyUser, Creates
<1>1. /\ At(u, "create") /\ platform \in {"unix", "kettle", "pc"} /\ e \in Data /\ mpData[u] = e
      /\ user[u].next = "idle" /\ data[e].mThreadId = None /\ IsAt(n, "unborn")
  BY Fields DEF ThreadInv, UserInv, BuildInv, Building, Creates, At
<1>2. data'[e].mnRefCount = data[e].mnRefCount /\ data'[e].mThreadId \in {n, None}
  BY <1>1 DEF Creates, SameCount
<1>3. /\ user'[u].ptr = e /\ user'[u].next = "idle" /\ user'[u].pc \in {"created", "identify", "resume"}
  BY <1>1 DEF Creates, UserGoes, UserIs
<1>4. thread'[n].ptr = e /\ thread'[n].pc \in {"suspended", "created"}
      /\ \A m \in Threads \ {n} : thread'[m] = thread[m]
  BY DEF Creates, ThreadIs
<1>5. ASSUME NEW d \in Data
      PROVE  data'[d].mnRefCount =
               data[d].mnRefCount - References(u, d) + References(u, d)' - Value(Runs(n, d)) + Value(Runs(n, d)')
                   - CallersOwn(d) + CallersOwn(d)'
  <2>1. References(u, d) \in Nat /\ CallersOwn(d) \in Nat /\ data[d].mnRefCount \in Nat
    BY <1>0, RefsAreNumbers, Fields
  <2>2. References(u, d)' = References(u, d) - (IF d = e THEN 1 ELSE 0)
    BY <1>0, <1>1, <1>3 DEF References, Value, HasObject, HasBegun, HasCreation, HasEnumerated, At
  <2>3. Value(Runs(n, d)) = 0 /\ Value(Runs(n, d)') = IF d = e THEN 1 ELSE 0
    BY <1>1, <1>4 DEF Value, Runs, IsAt
  <2>4. CallersOwn(d)' = CallersOwn(d) /\ data'[d].mnRefCount = data[d].mnRefCount
    <3>1. CASE d = e
      BY <1>0, <1>1, <1>2, <3>1, Apart DEF CallersOwn, External
    <3>2. CASE d # e
      <4>1. data'[d] = data[d]
        BY <3>2 DEF Creates, DataStay
      <4> QED
        BY <1>0, <4>1 DEF CallersOwn, External
    <3> QED
      BY <3>1, <3>2
  <2> QED
    BY <2>1, <2>2, <2>3, <2>4
<1> QED
  BY <1>0, <1>4, <1>5, CountAfterBoth

LEMMA CountAfterMaking ==
    ASSUME ThreadInv, NEW u \in Users, OnlyUser(u), NEW n \in Threads, MakesThread(u, n)
    PROVE  CountInv'
<1> DEFINE e == user[u].ptr
<1>0. TypeOK /\ CountInv /\ DataInv /\ platform' = platform /\ UNCHANGED <<mpData, enumData>>
  BY DEF ThreadInv, OnlyUser, MakesThread
<1>1. /\ At(u, "construct") /\ platform = "cpp11" /\ e \in Data /\ ~data[e].live
      /\ user[u].next = "idle" /\ IsAt(n, "unborn")
  BY DEF ThreadInv, UserInv, BuildInv, Building, MakesThread, At
<1>2. data[e].mnRefCount = 0
  BY <1>0, <1>1, LiveIfCounted
<1>3. data'[e].mnRefCount = 2 /\ data'[e].mThreadId = None
  <2>1. LET r == [Fresh EXCEPT !.used = TRUE, !.live = TRUE, !.mnRefCount = 2, !.mSysThreadId = n] IN
        r.mnRefCount = 2 /\ r.mThreadId = None
    BY FreshFields DEF DataRecords
  <2> QED
    BY <2>1 DEF MakesThread
<1>4. /\ user'[u].ptr = e /\ user'[u].next = "idle" /\ user'[u].pc = "identify"
  BY <1>1 DEF MakesThread, UserGoes, UserIs
<1>5. thread'[n].ptr = e /\ thread'[n].pc = "created"
      /\ \A m \in Threads \ {n} : thread'[m] = thread[m]
  BY DEF MakesThread, ThreadIs
<1>6. ASSUME NEW d \in Data
      PROVE  data'[d].mnRefCount =
               data[d].mnRefCount - References(u, d) + References(u, d)' - Value(Runs(n, d)) + Value(Runs(n, d)')
                   - CallersOwn(d) + CallersOwn(d)'
  <2>1. References(u, d) \in Nat /\ CallersOwn(d) \in Nat /\ data[d].mnRefCount \in Nat
    BY <1>0, RefsAreNumbers, Fields
  <2>2. References(u, d)' = References(u, d) + (IF d = e THEN 1 ELSE 0)
    BY <1>0, <1>1, <1>4 DEF References, Value, HasObject, HasBegun, HasCreation, HasEnumerated, At
  <2>3. Value(Runs(n, d)) = 0 /\ Value(Runs(n, d)') = IF d = e THEN 1 ELSE 0
    BY <1>1, <1>5 DEF Value, Runs, IsAt
  <2>4. CASE d = e
    <3>1. CallersOwn(d) = 0 /\ CallersOwn(d)' = 0
      BY <1>0, <1>1, <1>2, <1>3, <2>4, NothingOwned, Apart DEF CallersOwn, External
    <3> QED
      BY <1>2, <1>3, <2>1, <2>2, <2>3, <2>4, <3>1
  <2>5. CASE d # e
    <3>1. data'[d] = data[d]
      BY <2>5 DEF MakesThread, DataStay
    <3>2. CallersOwn(d)' = CallersOwn(d)
      BY <1>0, <3>1 DEF CallersOwn, External
    <3> QED
      BY <2>1, <2>2, <2>3, <2>5, <3>1, <3>2
  <2> QED
    BY <2>4, <2>5
<1> QED
  BY <1>0, <1>5, <1>6, CountAfterBoth

LEMMA CountAfterPublish ==
    ASSUME ThreadInv, NEW u \in Users, OnlyUser(u), Publishes(u)
    PROVE  CountInv'
<1> DEFINE e == user[u].ptr
<1>0. TypeOK /\ CountInv /\ platform' = platform /\ UNCHANGED <<data, thread, enumData>>
  BY DEF ThreadInv, OnlyUser, Publishes
<1>1. At(u, "publish") /\ platform = "cpp11" /\ user[u].next = "idle"
  BY DEF ThreadInv, UserInv, Publishes, At
<1>2. /\ mpData'[u] = e /\ user'[u].ptr = e /\ user'[u].next = "idle" /\ user'[u].pc = "created"
  BY <1>1 DEF Publishes, ObjectHas, UserGoes, UserIs
<1>3. ASSUME NEW d \in Data
      PROVE  data'[d].mnRefCount =
               data[d].mnRefCount - References(u, d) + References(u, d)' - CallersOwn(d) + CallersOwn(d)'
  <2>1. References(u, d) \in Nat /\ CallersOwn(d) \in Nat /\ data[d].mnRefCount \in Nat
    BY <1>0, RefsAreNumbers, Fields
  <2>2. References(u, d)' = References(u, d)
    BY <1>0, <1>1, <1>2 DEF References, Value, HasObject, HasBegun, HasCreation, HasEnumerated, At
  <2>3. CallersOwn(d)' = CallersOwn(d)
    BY <1>0 DEF CallersOwn, External
  <2> QED
    BY <1>0, <2>1, <2>2, <2>3
<1> QED
  BY <1>0, <1>3, CountAfterUser

LEMMA CountAfterAssign ==
    ASSUME ThreadInv, NEW u \in Users, OnlyUser(u), NEW v \in Users, Assigns(u, v)
    PROVE  CountInv'
<1>0. TypeOK /\ CountInv /\ platform' = platform /\ UNCHANGED <<thread, enumData>>
  BY DEF ThreadInv, OnlyUser, Assigns
<1>1. At(u, "idle") /\ user[u].next = "idle" /\ mpData[u] # mpData[v] /\ mpData'[u] = mpData[v]
  BY DEF ThreadInv, UserInv, Assigns, At, ObjectHas
<1>2. user'[u].pc \in {"idle", "free"} /\ user'[u].next = "idle"
  BY <1>1 DEF Assigns, UserIs, At
<1>3. ASSUME NEW d \in Data
      PROVE  data'[d].mnRefCount =
               data[d].mnRefCount - References(u, d) + References(u, d)' - CallersOwn(d) + CallersOwn(d)'
  <2>1. References(u, d) \in Nat /\ CallersOwn(d) \in Nat /\ data[d].mnRefCount \in Nat
    BY <1>0, RefsAreNumbers, Fields
  <2>2. References(u, d)' = References(u, d) + Value(d = mpData[v]) - Value(d = mpData[u])
    BY <1>0, <1>1, <1>2 DEF References, Value, HasObject, HasBegun, HasCreation, HasEnumerated, At
  <2>3. CallersOwn(d)' = CallersOwn(d)
    BY <1>0 DEF CallersOwn, External, Assigns, SameName
  <2>4. data'[d].mnRefCount = data[d].mnRefCount + Value(d = mpData[v]) - Value(d = mpData[u])
    BY DEF Assigns
  <2>5. Value(d = mpData[v]) \in Nat /\ Value(d = mpData[u]) \in Nat
    BY DEF Value
  <2> QED
    BY <2>1, <2>2, <2>3, <2>4, <2>5
<1> QED
  BY <1>0, <1>3, CountAfterUser

LEMMA CountAfterDestroysWithin ==
    ASSUME ThreadInv, NEW n \in Threads, NEW o \in Users, DestroysWithin(n, o)
    PROVE  CountInv'
<1> DEFINE e == mpData[o]
<1>0. TypeOK /\ CountInv /\ platform' = platform /\ UNCHANGED <<user, thread, enumData>>
  BY DEF ThreadInv, DestroysWithin
<1>1. OnlyUser(o)
  BY DEF OnlyUser, DestroysWithin, ObjectHas
<1>2. /\ user[o].next = "idle" /\ user[o].pc \in {"idle", "created", "identify"}
      /\ platform = "cpp11" => user[o].pc = "idle"
      /\ mpData'[o] = None
  BY DEF ThreadInv, UserInv, DestroysWithin, At, ObjectHas
<1>3. e \in Data /\ CountIs(e, data[e].mnRefCount - 1)
  <2>1. thread[n].ptr \in Data
    BY DEF ThreadInv, LiveThreadInv, DestroysWithin, IsAt
  <2> QED
    BY <2>1 DEF DestroysWithin
<1>4. ASSUME NEW d \in Data
      PROVE  data'[d].mnRefCount =
               data[d].mnRefCount - References(o, d) + References(o, d)' - CallersOwn(d) + CallersOwn(d)'
  <2>1. References(o, d) \in Nat /\ CallersOwn(d) \in Nat /\ data[d].mnRefCount \in Nat
    BY <1>0, RefsAreNumbers, Fields
  <2>2. References(o, d)' = References(o, d) - (IF d = e THEN 1 ELSE 0)
    BY <1>0, <1>2, Apart DEF References, Value, HasObject, HasBegun, HasCreation, HasEnumerated, At
  <2>3. CallersOwn(d)' = CallersOwn(d) /\ data'[d].mnRefCount = data[d].mnRefCount - (IF d = e THEN 1 ELSE 0)
    <3>1. CASE d = e
      BY <1>0, <1>3, <3>1 DEF CallersOwn, External, CountIs, SameName
    <3>2. CASE d # e
      <4>1. data'[d] = data[d]
        BY <1>3, <3>2 DEF CountIs, DataStay
      <4> QED
        BY <1>0, <2>1, <3>2, <4>1 DEF CallersOwn, External
    <3> QED
      BY <3>1, <3>2
  <2> QED
    BY <2>1, <2>2, <2>3
<1> QED
  BY <1>0, <1>1, <1>4, CountAfterUser

LEMMA CountAfterAdding ==
    ASSUME ThreadInv, NEW u \in Users, OnlyUser(u), AddsRef(u)
    PROVE  CountInv'
<1> DEFINE e == user[u].ptr
<1>0. TypeOK /\ CountInv /\ platform' = platform /\ UNCHANGED <<thread, mpData>>
  BY DEF ThreadInv, OnlyUser, AddsRef
<1>1. /\ At(u, "enumerate") /\ user[u].next = "idle" /\ enumData[u] = None /\ e \in Slots /\ e \in Data
      /\ CountIs(e, data[e].mnRefCount + 1) /\ enumData'[u] = e
  BY Apart DEF ThreadInv, UserInv, AddsRef, At, EnumHas
<1>2. user'[u].pc = "idle" /\ user'[u].next = "idle"
  BY DEF AddsRef, UserReturns, UserIs
<1>3. ASSUME NEW d \in Data
      PROVE  data'[d].mnRefCount =
               data[d].mnRefCount - References(u, d) + References(u, d)' - CallersOwn(d) + CallersOwn(d)'
  <2>1. References(u, d) \in Nat /\ CallersOwn(d) \in Nat /\ data[d].mnRefCount \in Nat
    BY <1>0, RefsAreNumbers, Fields
  <2>2. References(u, d)' = References(u, d) + (IF d = e THEN 1 ELSE 0)
    BY <1>0, <1>1, <1>2, Apart DEF References, Value, HasObject, HasBegun, HasCreation, HasEnumerated, At
  <2>3. CallersOwn(d)' = CallersOwn(d) /\ data'[d].mnRefCount = data[d].mnRefCount + (IF d = e THEN 1 ELSE 0)
    <3>1. CASE d = e
      BY <1>0, <1>1, <3>1 DEF CallersOwn, External, CountIs, SameName
    <3>2. CASE d # e
      <4>1. data'[d] = data[d]
        BY <1>1, <3>2 DEF CountIs, DataStay
      <4> QED
        BY <1>0, <2>1, <3>2, <4>1 DEF CallersOwn, External
    <3> QED
      BY <3>1, <3>2
  <2> QED
    BY <2>1, <2>2, <2>3
<1> QED
  BY <1>0, <1>3, CountAfterUser

LEMMA CountAfterContinuing ==
    ASSUME ThreadInv, NEW u \in Users, OnlyUser(u), Continues(u)
    PROVE  CountInv'
<1> DEFINE e == user[u].ptr
<1>0. TypeOK /\ CountInv /\ platform' = platform /\ UNCHANGED <<thread, mpData, enumData>>
  BY DEF ThreadInv, OnlyUser, Continues
<1>1. /\ At(u, "created") /\ user[u].next = "idle" /\ mpData[u] = e /\ e \in Data /\ platform = "unix"
      /\ CountIs(e, data[e].mnRefCount - 1)
  BY DEF ThreadInv, UserInv, Continues, At
<1>2. user'[u].pc = "name" /\ user'[u].next = "idle" /\ user'[u].ptr = e
  BY <1>1 DEF Continues, UserGoes, UserIs
<1>3. ASSUME NEW d \in Data
      PROVE  data'[d].mnRefCount =
               data[d].mnRefCount - References(u, d) + References(u, d)' - CallersOwn(d) + CallersOwn(d)'
  <2>1. References(u, d) \in Nat /\ CallersOwn(d) \in Nat /\ data[d].mnRefCount \in Nat
    BY <1>0, RefsAreNumbers, Fields
  <2>2. References(u, d)' = References(u, d) - (IF d = e THEN 1 ELSE 0)
    BY <1>0, <1>1, <1>2, Apart DEF References, Value, HasObject, HasBegun, HasCreation, HasEnumerated, At
  <2>3. CallersOwn(d)' = CallersOwn(d) /\ data'[d].mnRefCount = data[d].mnRefCount - (IF d = e THEN 1 ELSE 0)
    <3>1. CASE d = e
      BY <1>0, <1>1, <3>1 DEF CallersOwn, External, CountIs, SameName
    <3>2. CASE d # e
      <4>1. data'[d] = data[d]
        BY <1>1, <3>2 DEF CountIs, DataStay
      <4> QED
        BY <1>0, <2>1, <3>2, <4>1 DEF CallersOwn, External
    <3> QED
      BY <3>1, <3>2
  <2> QED
    BY <2>1, <2>2, <2>3
<1> QED
  BY <1>0, <1>3, CountAfterUser

LEMMA CountAfterFree ==
    ASSUME ThreadInv, NEW u \in Users, OnlyUser(u), UserHasFreed(u)
    PROVE  CountInv'
<1> DEFINE e == user[u].ptr
<1>0. TypeOK /\ CountInv /\ platform' = platform /\ UNCHANGED <<thread, mpData, enumData>>
  BY DEF ThreadInv, OnlyUser, UserHasFreed
<1>1. /\ At(u, "free") /\ user[u].next \in {"idle", "allocate"} /\ e \in Data /\ data[e].mnRefCount = 0
      /\ data'[e] = Fresh /\ DataStay(e)
  BY DEF ThreadInv, UserInv, FreeInv, UserHasFreed, At, Frees
<1>2. \/ user'[u].pc = "idle" /\ user'[u].next = "idle" /\ user[u].next = "idle"
      \/ user'[u].pc = "allocate" /\ user'[u].next = "idle" /\ user[u].next = "allocate"
  BY <1>1 DEF UserHasFreed, UserReturns, UserIs
<1>3. ASSUME NEW d \in Data
      PROVE  data'[d].mnRefCount =
               data[d].mnRefCount - References(u, d) + References(u, d)' - CallersOwn(d) + CallersOwn(d)'
  <2>1. References(u, d) \in Nat /\ CallersOwn(d) \in Nat /\ data[d].mnRefCount \in Nat
    BY <1>0, RefsAreNumbers, Fields
  <2>2. References(u, d)' = References(u, d)
    BY <1>0, <1>1, <1>2 DEF References, Value, HasObject, HasBegun, HasCreation, HasEnumerated, At
  <2>3. CallersOwn(d)' = CallersOwn(d) /\ data'[d].mnRefCount = data[d].mnRefCount
    <3>1. CASE d = e
      BY <1>0, <1>1, <3>1, NothingOwned, FreshFields, Apart DEF CallersOwn, External
    <3>2. CASE d # e
      <4>1. data'[d] = data[d]
        BY <1>1, <3>2 DEF DataStay
      <4> QED
        BY <1>0, <2>1, <3>2, <4>1 DEF CallersOwn, External
    <3> QED
      BY <3>1, <3>2
  <2> QED
    BY <2>1, <2>2, <2>3
<1> QED
  BY <1>0, <1>3, CountAfterUser

LEMMA CountAfterThreadStep ==
    ASSUME ThreadInv, NEW n \in Threads, ThreadDoes(n)
    PROVE  CountInv'
<1> DEFINE e == thread[n].ptr
<1>0. TypeOK /\ CountInv /\ DataInv
  BY DEF ThreadInv
<1>1. ~IsAt(n, "unborn") => e \in Data
  BY DEF ThreadInv, LiveThreadInv
<1>2. CASE \E p \in ThreadLabels : Proceeds(n, p)
  <2>1. PICK p : Proceeds(n, p)
    BY <1>2
  <2>2. ASSUME NEW d \in Data
        PROVE  /\ data'[d].mnRefCount = data[d].mnRefCount - Value(Runs(n, d)) + Value(Runs(n, d)')
               /\ External(d)' <=> External(d)
    <3>1. data'[d].mnRefCount = data[d].mnRefCount /\ data'[d].mThreadId = data[d].mThreadId
      BY <2>1 DEF Proceeds, DataStay, SameName, SameCount
    <3>2. Runs(n, d)' <=> Runs(n, d)
      BY <2>1 DEF Runs, Proceeds, ThreadGoes, ThreadIs
    <3>3. data[d].mnRefCount \in Nat
      BY <1>0, Fields
    <3> QED
      BY <3>1, <3>2, <3>3 DEF Value, External
  <2> QED
    BY <1>0, <2>1, <2>2, CountAfterThread DEF Proceeds, ThreadGoes, ThreadIs
<1>3. CASE ThreadHasFreed(n)
  <2>1. /\ IsAt(n, "free") /\ e \in Data /\ data[e].mnRefCount = 0 /\ data'[e] = Fresh /\ DataStay(e)
        /\ thread'[n].pc = "exited"
    BY <1>1, <1>3 DEF ThreadInv, FreeInv, ThreadHasFreed, IsAt, Frees, ThreadGoes, ThreadIs
  <2>2. ASSUME NEW d \in Data
        PROVE  /\ data'[d].mnRefCount = data[d].mnRefCount - Value(Runs(n, d)) + Value(Runs(n, d)')
               /\ External(d)' <=> External(d)
    <3>1. ~Runs(n, d) /\ ~Runs(n, d)'
      BY <2>1 DEF Runs, IsAt
    <3>2. data'[d].mnRefCount = data[d].mnRefCount /\ (External(d)' <=> External(d))
      <4>1. CASE d = e
        BY <1>0, <2>1, <4>1, NobodyOwns, FreshFields, Apart DEF External
      <4>2. CASE d # e
        BY <2>1, <4>2 DEF DataStay, External
      <4> QED
        BY <4>1, <4>2
    <3>3. data[d].mnRefCount \in Nat
      BY <1>0, Fields
    <3> QED
      BY <3>1, <3>2, <3>3 DEF Value
  <2> QED
    BY <1>0, <1>3, <2>2, CountAfterThread DEF ThreadHasFreed, ThreadGoes, ThreadIs
<1>4. CASE ThreadGivesUp(n)
  <2>1. /\ thread[n].pc \in {"unlocked", "ended"} /\ e \in Data /\ CountIs(e, data[e].mnRefCount - 1)
        /\ thread'[n].pc \in {"free", "exited"}
    BY <1>1, <1>4 DEF ThreadGivesUp, IsAt, ThreadGoes, ThreadIs
  <2>2. ASSUME NEW d \in Data
        PROVE  /\ data'[d].mnRefCount = data[d].mnRefCount - Value(Runs(n, d)) + Value(Runs(n, d)')
               /\ External(d)' <=> External(d)
    <3>1. (Runs(n, d) <=> d = e) /\ ~Runs(n, d)'
      BY <2>1 DEF Runs, IsAt
    <3>2. /\ data'[d].mnRefCount = IF d = e THEN data[d].mnRefCount - 1 ELSE data[d].mnRefCount
          /\ External(d)' <=> External(d)
      <4>1. CASE d = e
        BY <2>1, <4>1 DEF CountIs, SameName, External
      <4>2. CASE d # e
        BY <2>1, <4>2 DEF CountIs, DataStay, External
      <4> QED
        BY <4>1, <4>2
    <3>3. data[d].mnRefCount \in Nat
      BY <1>0, Fields
    <3> QED
      BY <3>1, <3>2, <3>3 DEF Value
  <2> QED
    BY <1>0, <1>4, <2>2, CountAfterThread DEF ThreadGivesUp, ThreadGoes, ThreadIs
<1>5. CASE \E o \in Users : DestroysWithin(n, o)
  BY <1>5, CountAfterDestroysWithin
<1> QED
  BY <1>2, <1>3, <1>4, <1>5 DEF ThreadDoes

\* The reference count stays exact.
LEMMA CountGoesOn ==
    ASSUME ThreadInv
    PROVE  /\ \A u \in Users : UserDoes(u) => CountInv'
           /\ \A n \in Threads : ThreadDoes(n) => CountInv'
<1>1. ASSUME NEW u \in Users, UserDoes(u) PROVE CountInv'
  <2>0. OnlyUser(u)
    BY <1>1, UserStepsAreOfOne DEF ThreadInv
  <2>1. CASE \/ Begins(u) \/ Enumerates(u) \/ Polled(u) \/ Leaves(u) \/ Closes(u) \/ Zeroes(u)
             \/ Allocates(u) \/ Resumes(u) \/ Identifies(u) \/ Marks(u)
             \/ \E o \in Users : CallsWait(u, o) \/ CallsStatus(u, o)
             \/ \E p \in UserLabels, a \in Answers : WaitsOn(u, p, a)
             \/ \E n \in Threads : Joins(u, n)
    BY <2>0, <2>1, CountKeeps, CountAfterBegin
  <2>2. CASE CreateFails(u) \/ BeginEnds(u) \/ ReleasesOld(u) \/ Destroys(u) \/ ReleasesEnumerated(u)
    BY <2>0, <2>2, CountAfterRelease
  <2>3. CASE \/ Constructs(u) \/ Publishes(u) \/ AddsRef(u) \/ Continues(u) \/ UserHasFreed(u)
             \/ \E v \in Users : Assigns(u, v)
             \/ \E n \in Threads : MakesThread(u, n)
             \/ \E n \in Threads, q \in {"suspended", "created"} : Creates(u, n, q)
    BY <2>0, <2>3, CountAfterConstruct, CountAfterPublish, CountAfterAdding, CountAfterContinuing, CountAfterFree, CountAfterAssign,
       CountAfterMaking, CountAfterCreate
  <2> QED
    BY <1>1, <2>1, <2>2, <2>3 DEF UserDoes
<1> QED
  BY <1>1, CountAfterThreadStep

-----------------------------------------------------------------------------
(* What data says of itself.                                               *)

DataIsSound(d) ==
    /\ data[d].live => data[d].used
    /\ ~data[d].live => data[d] = [Fresh EXCEPT !.used = data[d].used]
    /\ data[d].mThreadId \in Threads => data[d].mThreadId = data[d].mSysThreadId
    /\ data[d].mSysThreadId # None =>
          /\ thread[data[d].mSysThreadId].pc # "unborn"
          /\ thread[data[d].mSysThreadId].ptr = d
          /\ data[d].mThreadId \notin Users

\* New data, made by Begin, is sound.
LEMMA MadeDataIsSound ==
    ASSUME ThreadInv, NEW d \in Data, NEW u \in Users, ThreadsGoOn, IsMade(u, d)
    PROVE  DataIsSound(d)'
<1> USE DEF ThreadInv
<1>0. TypeOK /\ DataInv /\ data[d] \in DataRecords /\ data[d].mSysThreadId \in Threads \cup {None}
  BY Fields
<1>1. CASE \E n \in Threads, q \in {"suspended", "created"} : Creates(u, n, q) /\ d = user[u].ptr
  <2>1. PICK n \in Threads, q \in {"suspended", "created"} : Creates(u, n, q) /\ d = user[u].ptr
    BY <1>1
  <2>2. At(u, "create") /\ HasCreation(u, d) /\ data[d].mThreadId = None
    BY <2>1 DEF Creates, HasCreation, BuildInv
  <2>3. data[d].live /\ data[d].used
    BY <1>0, <2>2, LiveIfOwned
  <2>4. /\ data'[d].live /\ data'[d].used /\ data'[d].mSysThreadId = n /\ data'[d].mThreadId \in {None, n}
    BY <2>1, <2>2, <2>3 DEF Creates
  <2>5. ThreadIs(n, q, d, u)
    BY <2>1 DEF Creates
  <2>6. thread'[n].pc # "unborn" /\ thread'[n].ptr = d
    BY <2>5 DEF ThreadIs
  <2> QED
    BY <2>4, <2>6, Apart DEF DataIsSound
<1>2. CASE Identifies(u) /\ d = user[u].ptr
  <2>1. At(u, "identify") /\ HasBegun(u, d) /\ data[d].mSysThreadId # None
    BY <1>2 DEF Identifies, HasBegun, BuildInv, At
  <2>2. data[d].live /\ data[d].used
    BY <1>0, <2>1, LiveIfOwned
  <2>3. /\ data'[d].live /\ data'[d].used /\ data'[d].mSysThreadId = data[d].mSysThreadId
        /\ data'[d].mThreadId = data[d].mSysThreadId /\ thread' = thread
    BY <1>2, <2>2 DEF Identifies, Life
  <2>4. data[d].mSysThreadId \in Threads
    BY <1>0, <2>1
  <2>5. thread[data[d].mSysThreadId].pc # "unborn" /\ thread[data[d].mSysThreadId].ptr = d
    BY <1>0, <2>1 DEF DataInv
  <2> QED
    BY <2>3, <2>4, <2>5, Apart DEF DataIsSound
<1>3. CASE Begins(u) /\ ~data[d].used
             /\ data'[d] = [Fresh EXCEPT !.used = TRUE, !.live = TRUE, !.mThreadId = u,
                                      !.mnRefCount = IF platform = "cpp11" THEN 3 ELSE 2]
  <2>1. /\ data'[d].live = TRUE /\ data'[d].used = TRUE /\ data'[d].mThreadId = u /\ data'[d].mSysThreadId = None
    BY <1>3, FreshFields DEF DataRecords
  <2> QED
    BY <2>1, Apart DEF DataIsSound
<1>4. CASE Allocates(u) /\ ~data[d].used /\ data'[d] = [data[d] EXCEPT !.used = TRUE]
  <2>1. ~data[d].live /\ data[d] = [Fresh EXCEPT !.used = data[d].used]
    BY <1>0, <1>4 DEF DataInv
  <2>3. data'[d] = [Fresh EXCEPT !.used = TRUE]
    <3>1. [[Fresh EXCEPT !.used = data[d].used] EXCEPT !.used = TRUE] = [Fresh EXCEPT !.used = TRUE]
      BY DEF Fresh
    <3> QED
      BY <1>4, <2>1, <3>1
  <2>2. /\ data'[d].live = FALSE /\ data'[d].used = TRUE /\ data'[d] = [Fresh EXCEPT !.used = TRUE]
        /\ data'[d].mThreadId = None /\ data'[d].mSysThreadId = None
    BY <2>3, FreshFields DEF DataRecords
  <2> QED
    BY <2>2, Apart DEF DataIsSound
<1>5. CASE Constructs(u) /\ d = user[u].ptr
  <2>1. data'[d] = [Fresh EXCEPT !.used = TRUE, !.live = TRUE, !.mnRefCount = 3]
    BY <1>5 DEF Constructs
  <2>2. data'[d].live = TRUE /\ data'[d].used = TRUE /\ data'[d].mThreadId = None /\ data'[d].mSysThreadId = None
    BY <2>1, FreshFields DEF DataRecords
  <2> QED
    BY <2>2, Apart DEF DataIsSound
<1>6. CASE \E n \in Threads : MakesThread(u, n) /\ d = user[u].ptr
  <2>1. PICK n \in Threads : MakesThread(u, n) /\ d = user[u].ptr
    BY <1>6
  <2>2. /\ data'[d] = [Fresh EXCEPT !.used = TRUE, !.live = TRUE, !.mnRefCount = 2, !.mSysThreadId = n]
        /\ thread'[n].pc # "unborn" /\ thread'[n].ptr = d
    BY <2>1 DEF MakesThread, ThreadIs
  <2>3. data'[d].live = TRUE /\ data'[d].used = TRUE /\ data'[d].mThreadId = None /\ data'[d].mSysThreadId = n
    BY <2>2, FreshFields DEF DataRecords
  <2> QED
    BY <2>2, <2>3, Apart DEF DataIsSound
<1> QED
  BY <1>1, <1>2, <1>3, <1>4, <1>5, <1>6 DEF IsMade

LEMMA KeptDataIsSound ==
    ASSUME ThreadInv, NEW d \in Data, ThreadsGoOn,
           \/ data'[d] = data[d]
           \/ Lives(d) /\ (SameName(d) \/ data'[d].mThreadId = None)
           \/ IsFreed(d)
    PROVE  DataIsSound(d)'
<1> USE DEF ThreadInv
<1>0. TypeOK /\ DataInv /\ data[d].mSysThreadId \in Threads \cup {None}
  BY Fields
<1>1. data[d].mSysThreadId # None =>
          /\ thread'[data[d].mSysThreadId].pc # "unborn" /\ thread'[data[d].mSysThreadId].ptr = d
          /\ data[d].mThreadId \notin Users
  BY <1>0 DEF DataInv, ThreadsGoOn, IsAt
<1>2. CASE data'[d] = data[d]
  BY <1>0, <1>1, <1>2 DEF DataIsSound, DataInv
<1>3. CASE Lives(d) /\ (SameName(d) \/ data'[d].mThreadId = None)
  BY <1>0, <1>1, <1>3, Apart DEF DataIsSound, DataInv, Lives, Life, SameName
<1>4. CASE IsFreed(d)
  <2>1. data'[d] = Fresh /\ Fresh = [Fresh EXCEPT !.used = Fresh.used]
    BY <1>4 DEF IsFreed, Fresh
  <2> QED
    BY <2>1, FreshFields, Apart DEF DataIsSound
<1> QED
  BY <1>2, <1>3, <1>4

LEMMA DataGoesOn ==
    ASSUME ThreadInv
    PROVE  /\ \A u \in Users : UserDoes(u) => DataInv'
           /\ \A n \in Threads : ThreadDoes(n) => DataInv'
<1>0. DataInv' <=> \A d \in Data : DataIsSound(d)'
  BY DEF DataInv, DataIsSound
<1>1. ASSUME NEW u \in Users, UserDoes(u), NEW d \in Data PROVE DataIsSound(d)'
  BY <1>1, ThreadsAlwaysGoOn, DataMoves, MadeDataIsSound, KeptDataIsSound DEF ThreadInv
<1>2. ASSUME NEW n \in Threads, ThreadDoes(n), NEW d \in Data PROVE DataIsSound(d)'
  BY <1>2, ThreadsAlwaysGoOn, DataMoves, KeptDataIsSound DEF ThreadInv
<1> QED
  BY <1>0, <1>1, <1>2

-----------------------------------------------------------------------------
(* Data without references is freed by one user or thread.                 *)

Agents == Users \cup Threads
Dying(d) == data[d].live /\ data[d].mnRefCount = 0
IsFreer(a, d) ==
    \/ a \in Users /\ At(a, "free") /\ user[a].ptr = d
    \/ a \in Threads /\ IsAt(a, "free") /\ thread[a].ptr = d
FreedOnce(d) ==
    /\ \A a \in Agents : IsFreer(a, d) => Dying(d)
    /\ \A a, b \in Agents : IsFreer(a, d) /\ IsFreer(b, d) => a = b
    /\ Dying(d) => \E a \in Agents : IsFreer(a, d)

LEMMA FreeingIsOnce ==
    ASSUME UserInv, LiveThreadInv
    PROVE  FreeInv <=> \A d \in Data : FreedOnce(d)
<1>1. /\ \A u \in Users : At(u, "free") => user[u].ptr \in Data
      /\ \A n \in Threads : IsAt(n, "free") => thread[n].ptr \in Data
  BY DEF UserInv, LiveThreadInv, At, IsAt
<1>2. ASSUME FreeInv, NEW d \in Data PROVE FreedOnce(d)
  <2>1. ASSUME NEW a \in Agents, IsFreer(a, d) PROVE Dying(d)
    BY <1>2, <2>1 DEF FreeInv, IsFreer, Dying
  <2>2. ASSUME NEW a \in Agents, NEW b \in Agents, IsFreer(a, d), IsFreer(b, d) PROVE a = b
    <3>1. CASE a \in Users /\ At(a, "free") /\ user[a].ptr = d /\ b \in Users /\ At(b, "free") /\ user[b].ptr = d
      BY <1>2, <3>1 DEF FreeInv
    <3>2. CASE a \in Threads /\ IsAt(a, "free") /\ thread[a].ptr = d /\ b \in Threads /\ IsAt(b, "free") /\ thread[b].ptr = d
      <4>1. data[d].mSysThreadId = a /\ data[d].mSysThreadId = b
        BY <3>2 DEF LiveThreadInv, IsAt
      <4> QED
        BY <4>1
    <3>3. ASSUME NEW u \in Users, NEW n \in Threads, At(u, "free"), IsAt(n, "free"), user[u].ptr = d, thread[n].ptr = d
          PROVE  FALSE
      BY <1>2, <3>3 DEF FreeInv
    <3> QED
      BY <2>2, <3>1, <3>2, <3>3 DEF IsFreer
  <2>3. ASSUME Dying(d) PROVE \E a \in Agents : IsFreer(a, d)
    <3>1. CASE \E u \in Users : At(u, "free") /\ user[u].ptr = d
      BY <3>1 DEF IsFreer, Agents
    <3>2. CASE \E n \in Threads : IsAt(n, "free") /\ thread[n].ptr = d
      BY <3>2 DEF IsFreer, Agents
    <3> QED
      BY <1>2, <2>3, <3>1, <3>2 DEF FreeInv, Dying
  <2> QED
    BY <2>1, <2>2, <2>3 DEF FreedOnce
<1>3. ASSUME \A d \in Data : FreedOnce(d) PROVE FreeInv
  <2>1. \A u \in Users : At(u, "free") => IsFreer(u, user[u].ptr) /\ FreedOnce(user[u].ptr) /\ u \in Agents
    BY <1>1, <1>3 DEF IsFreer, Agents
  <2>2. \A n \in Threads : IsAt(n, "free") => IsFreer(n, thread[n].ptr) /\ FreedOnce(thread[n].ptr) /\ n \in Agents
    BY <1>1, <1>3 DEF IsFreer, Agents
  <2>3. ASSUME NEW d \in Data, data[d].live, data[d].mnRefCount = 0
        PROVE  \/ \E u \in Users : At(u, "free") /\ user[u].ptr = d
               \/ \E n \in Threads : IsAt(n, "free") /\ thread[n].ptr = d
    BY <1>3, <2>3 DEF FreedOnce, Dying, IsFreer
  <2>4. \A u \in Users : At(u, "free") => data[user[u].ptr].live /\ data[user[u].ptr].mnRefCount = 0
    BY <2>1 DEF FreedOnce, Dying
  <2>5. \A n \in Threads : IsAt(n, "free") => data[thread[n].ptr].live /\ data[thread[n].ptr].mnRefCount = 0
    BY <2>2 DEF FreedOnce, Dying
  <2>6. \A u, v \in Users : At(u, "free") /\ At(v, "free") /\ user[u].ptr = user[v].ptr => u = v
    BY <2>1 DEF FreedOnce
  <2>7. \A u \in Users, n \in Threads : At(u, "free") /\ IsAt(n, "free") => user[u].ptr # thread[n].ptr
    BY <2>1, <2>2, Apart DEF FreedOnce
  <2> QED
    BY <2>3, <2>4, <2>5, <2>6, <2>7 DEF FreeInv
<1> QED
  BY <1>2, <1>3

\* One user or thread begins or ends to free.
LEMMA FreedOnceGoesOn ==
    ASSUME NEW d \in Data, FreedOnce(d), NEW a \in Agents,
           \A b \in Agents \ {a} : IsFreer(b, d)' <=> IsFreer(b, d),
           \/ (IsFreer(a, d)' <=> IsFreer(a, d)) /\ (Dying(d)' <=> Dying(d))
           \/ (IsFreer(a, d) <=> Dying(d)) /\ (IsFreer(a, d)' <=> Dying(d)')
    PROVE  FreedOnce(d)'
<1>1. CASE (IsFreer(a, d)' <=> IsFreer(a, d)) /\ (Dying(d)' <=> Dying(d))
  <2>1. \A b \in Agents : IsFreer(b, d)' <=> IsFreer(b, d)
    BY <1>1
  <2> QED
    BY <1>1, <2>1 DEF FreedOnce
<1>2. CASE (IsFreer(a, d) <=> Dying(d)) /\ (IsFreer(a, d)' <=> Dying(d)')
  <2>1. \A b \in Agents \ {a} : ~IsFreer(b, d) /\ ~IsFreer(b, d)'
    BY <1>2 DEF FreedOnce
  <2> QED
    BY <1>2, <2>1 DEF FreedOnce
<1> QED
  BY <1>1, <1>2

\* A user that gives references up frees what has none any more.
LEMMA GivingUpFrees ==
    ASSUME TypeOK, NEW u \in Users, ~At(u, "free"), NEW e \in Data, NEW k \in Nat, k # 0, NEW l \in {"idle", "allocate"},
           data[e].mnRefCount >= k, data[e].live, GivesUp(u, e, k, l), NEW d \in Data
    PROVE  \/ (IsFreer(u, d)' <=> IsFreer(u, d)) /\ (Dying(d)' <=> Dying(d))
           \/ (IsFreer(u, d) <=> Dying(d)) /\ (IsFreer(u, d)' <=> Dying(d)')
<1>0. u \notin Threads /\ data[e].mnRefCount \in Nat
  BY Apart, Fields
<1>1. data'[e].live /\ data'[e].mnRefCount = data[e].mnRefCount - k /\ DataStay(e)
  BY DEF GivesUp, CountIs, Life
<1>2. \/ data[e].mnRefCount = k /\ user'[u].pc = "free" /\ user'[u].ptr = e
      \/ data[e].mnRefCount # k /\ user'[u].pc # "free"
  BY DEF GivesUp, UserIs, UserReturns, UserGoes
<1>3. CASE d = e
  <2>1. ~IsFreer(u, d) /\ ~Dying(d)
    BY <1>0, <1>3 DEF IsFreer, Dying
  <2>2. IsFreer(u, d)' <=> Dying(d)'
    BY <1>0, <1>1, <1>2, <1>3 DEF IsFreer, Dying, At
  <2> QED
    BY <2>1, <2>2
<1>4. CASE d # e
  <2>1. ~IsFreer(u, d) /\ ~IsFreer(u, d)'
    BY <1>0, <1>2, <1>4 DEF IsFreer, At
  <2>2. Dying(d)' <=> Dying(d)
    BY <1>1, <1>4 DEF Dying, DataStay
  <2> QED
    BY <2>1, <2>2
<1> QED
  BY <1>3, <1>4

\* Only the user or thread of the step begins or ends to free.
LEMMA OthersFreeOn ==
    ASSUME TypeOK, NEW d \in Data
    PROVE  /\ \A u \in Users : UserDoes(u) => \A b \in Agents \ {u} : IsFreer(b, d)' <=> IsFreer(b, d)
           /\ \A n \in Threads, o \in Users : DestroysWithin(n, o) => \A b \in Agents : IsFreer(b, d)' <=> IsFreer(b, d)
           /\ \A n \in Threads : ThreadDoes(n) => \A b \in Agents \ {n} : IsFreer(b, d)' <=> IsFreer(b, d)
<1>1. ASSUME NEW u \in Users, UserDoes(u), NEW n \in Threads
      PROVE  (IsAt(n, "free") /\ thread[n].ptr = d)' <=> (IsAt(n, "free") /\ thread[n].ptr = d)
  <2>1. CASE Resumes(u)
    BY <2>1 DEF Resumes, ThreadGoes, ThreadIs, IsAt
  <2>2. CASE \E m \in Threads : MakesThread(u, m)
    BY <2>2 DEF MakesThread, ThreadIs, IsAt
  <2>3. CASE \E m \in Threads, q \in {"suspended", "created"} : Creates(u, m, q)
    BY <2>3 DEF Creates, ThreadIs, IsAt
  <2>4. CASE UNCHANGED thread
    BY <2>4 DEF IsAt
  <2> QED
    BY <1>1, <2>1, <2>2, <2>3, <2>4 DEF UserDoes, Begins, Enumerates, Polled, Leaves, Closes, Zeroes, Allocates,
       Constructs, CreateFails, BeginEnds, Continues, Identifies, Publishes, ReleasesOld, Destroys, AddsRef, ReleasesEnumerated,
       UserHasFreed, Marks, CallsWait, CallsStatus, Assigns, WaitsOn, Joins
<1>2. ASSUME NEW u \in Users, UserDoes(u), NEW v \in Users \ {u} PROVE user'[v] = user[v]
  BY <1>2, UserStepsAreOfOne DEF OnlyUser
<1>3. ASSUME NEW u \in Users, UserDoes(u), NEW b \in Agents \ {u} PROVE IsFreer(b, d)' <=> IsFreer(b, d)
  BY <1>1, <1>2, <1>3, Apart DEF IsFreer, At, Agents
<1>4. ASSUME NEW n \in Threads, NEW o \in Users, DestroysWithin(n, o), NEW b \in Agents
      PROVE  IsFreer(b, d)' <=> IsFreer(b, d)
  BY <1>4 DEF DestroysWithin, IsFreer, At, IsAt
<1>5. ASSUME NEW n \in Threads, ThreadDoes(n) PROVE user' = user /\ \A m \in Threads \ {n} : thread'[m] = thread[m]
  BY <1>5 DEF ThreadDoes, Proceeds, ThreadHasFreed, ThreadGivesUp, DestroysWithin, ThreadGoes, ThreadIs
<1>6. ASSUME NEW n \in Threads, ThreadDoes(n), NEW b \in Agents \ {n} PROVE IsFreer(b, d)' <=> IsFreer(b, d)
  BY <1>5, <1>6, Apart DEF IsFreer, At, IsAt, Agents
<1> QED
  BY <1>3, <1>4, <1>6

\* What u's or n's step does to the freeing of d.
FreesRightly(a, d) ==
    \/ (IsFreer(a, d)' <=> IsFreer(a, d)) /\ (Dying(d)' <=> Dying(d))
    \/ (IsFreer(a, d) <=> Dying(d)) /\ (IsFreer(a, d)' <=> Dying(d)')

LEMMA UserFreesRightly ==
    ASSUME ThreadInv, NEW d \in Data, NEW u \in Users, UserDoes(u)
    PROVE  FreesRightly(u, d)
<1> USE DEF ThreadInv
<1>0. TypeOK /\ CountInv /\ DataInv /\ u \notin Threads /\ data[d].mnRefCount \in Nat
  BY Apart, Fields
<1>1. ASSUME ~At(u, "free"), user'[u].pc # "free", Dying(d)' <=> Dying(d) PROVE FreesRightly(u, d)
  BY <1>0, <1>1 DEF FreesRightly, IsFreer, At
<1>2. ASSUME NEW e \in Data, NEW k \in Nat, k # 0, NEW l \in {"idle", "allocate"}, ~At(u, "free"),
             data[e].mnRefCount >= k, GivesUp(u, e, k, l)
      PROVE  FreesRightly(u, d)
  <2>1. data[e].live
    BY <1>0, <1>2, LiveIfCounted
  <2> QED
    BY <1>0, <1>2, <2>1, GivingUpFrees DEF FreesRightly
<1>3. CASE CreateFails(u) \/ BeginEnds(u) \/ ReleasesOld(u) \/ Destroys(u) \/ ReleasesEnumerated(u)
  <2>1. CASE CreateFails(u)
    <3>1. /\ GivesUp(u, user[u].ptr, 3, "idle") /\ user[u].ptr \in Data /\ data[user[u].ptr].mnRefCount >= 3
          /\ ~At(u, "free")
      BY <2>1, MayGiveUp DEF CreateFails, At
    <3> QED
      BY <1>2, <3>1
  <2>2. CASE BeginEnds(u)
    <3>1. /\ GivesUp(u, user[u].ptr, 1, "idle") /\ user[u].ptr \in Data /\ data[user[u].ptr].mnRefCount >= 1
          /\ ~At(u, "free")
      BY <2>2, MayGiveUp DEF BeginEnds, At
    <3> QED
      BY <1>2, <3>1
  <2>3. CASE ReleasesOld(u) \/ Destroys(u)
    <3>1. /\ GivesUp(u, mpData[u], 1, "allocate") \/ GivesUp(u, mpData[u], 1, "idle")
          /\ mpData[u] \in Data /\ data[mpData[u]].mnRefCount >= 1
          /\ ~At(u, "free")
      BY <2>3, MayGiveUp DEF ReleasesOld, Destroys, At
    <3> QED
      BY <1>2, <3>1
  <2>4. CASE ReleasesEnumerated(u)
    <3>1. /\ GivesUp(u, enumData[u], 1, "idle") /\ enumData[u] \in Data /\ data[enumData[u]].mnRefCount >= 1
          /\ ~At(u, "free")
      BY <2>4, MayGiveUp DEF ReleasesEnumerated, At
    <3> QED
      BY <1>2, <3>1
  <2> QED
    BY <1>3, <2>1, <2>2, <2>3, <2>4
<1>4. ASSUME UNCHANGED data \/ (SameCount(d) /\ data'[d].live = data[d].live) PROVE Dying(d)' <=> Dying(d)
  BY <1>4 DEF Dying, SameCount
<1>5. CASE Begins(u)
  <2>1. ~At(u, "free") /\ user'[u].pc # "free"
    BY <1>5 DEF Begins, At, UserGoes, UserIs
  <2>2. CASE UNCHANGED data
    BY <1>1, <1>4, <2>1, <2>2
  <2>3. CASE ~UNCHANGED data
    <3> DEFINE k == IF platform = "cpp11" THEN 3 ELSE 2
    <3>1. PICK e \in Data :
             /\ ~data[e].used
             /\ data'[e] = [Fresh EXCEPT !.used = TRUE, !.live = TRUE, !.mThreadId = u, !.mnRefCount = k]
             /\ DataStay(e)
      BY <1>5, <2>3 DEF Begins
    <3>2. data'[e].mnRefCount = k /\ k # 0
      <4>1. k # 0
        OBVIOUS
      <4> HIDE DEF k
      <4>2. [Fresh EXCEPT !.used = TRUE, !.live = TRUE, !.mThreadId = u, !.mnRefCount = k].mnRefCount = k
        BY FreshFields DEF DataRecords
      <4> QED
        BY <3>1, <4>1, <4>2
    <3>3. ~data[e].live
      BY <3>1 DEF DataInv
    <3>4. Dying(d)' <=> Dying(d)
      BY <3>1, <3>2, <3>3 DEF Dying, DataStay
    <3> QED
      BY <1>1, <2>1, <3>4
  <2> QED
    BY <2>2, <2>3
<1>6. CASE Enumerates(u) \/ Allocates(u)
  <2>1. CASE Enumerates(u)
    <3>1. PICK e \in Slots : UserIs(u, "enumerate", user[u].obj, e, user[u].next, user[u].answer)
      BY <2>1 DEF Enumerates
    <3>2. ~At(u, "free") /\ user'[u].pc # "free" /\ UNCHANGED data
      BY <2>1, <3>1 DEF Enumerates, At, UserIs
    <3> QED
      BY <1>1, <1>4, <3>2
  <2>2. CASE Allocates(u)
    <3>1. PICK e \in Data : /\ UserIs(u, "construct", user[u].obj, e, user[u].next, user[u].answer)
                            /\ ~data[e].used /\ data'[e] = [data[e] EXCEPT !.used = TRUE] /\ DataStay(e)
      BY <2>2 DEF Allocates
    <3>2. data[e] \in DataRecords
      BY <1>0, Fields
    <3>3. SameCount(d) /\ data'[d].live = data[d].live
      BY <3>1, <3>2 DEF DataRecords, DataStay, SameCount
    <3>4. ~At(u, "free") /\ user'[u].pc # "free"
      BY <2>2, <3>1 DEF Allocates, At, UserIs
    <3> QED
      BY <1>1, <1>4, <3>3, <3>4
  <2> QED
    BY <1>6, <2>1, <2>2
<1>7. CASE Polled(u) \/ Leaves(u) \/ Closes(u) \/ Resumes(u) \/ Publishes(u)
           \/ \E o \in Users : CallsWait(u, o) \/ CallsStatus(u, o)
  <2>1. ~At(u, "free") /\ user'[u].pc # "free" /\ UNCHANGED data
    <3>1. CASE Polled(u) \/ Closes(u)
      BY <3>1 DEF Polled, Closes, At, UserGoes, UserIs
    <3>2. CASE Leaves(u)
      BY <3>2 DEF Leaves, At, UserReturns, UserIs, WaitLabels
    <3>3. CASE Resumes(u) \/ Publishes(u)
      BY <3>3 DEF Resumes, Publishes, At, UserGoes, UserIs
    <3>4. CASE \E o \in Users : CallsWait(u, o) \/ CallsStatus(u, o)
      BY <3>4 DEF CallsWait, CallsStatus, At, UserIs
    <3> QED
      BY <1>7, <3>1, <3>2, <3>3, <3>4
  <2> QED
    BY <1>1, <1>4, <2>1
<1>8. CASE Zeroes(u) \/ \E n \in Threads : Joins(u, n)
  <2>1. ~At(u, "free") /\ user'[u].pc # "free"
    <3>1. CASE Zeroes(u)
      BY <3>1 DEF Zeroes, At, UserReturns, UserIs
    <3>2. CASE \E n \in Threads : Joins(u, n)
      BY <3>2 DEF Joins, At, UserIs
    <3> QED
      BY <1>8, <3>1, <3>2
  <2>2. DataStay(Of(u)) /\ Life(Of(u)) /\ SameCount(Of(u))
    BY <1>8 DEF Zeroes, Joins
  <2>3. SameCount(d) /\ data'[d].live = data[d].live
    BY <2>2 DEF DataStay, Life, SameCount
  <2> QED
    BY <1>1, <1>4, <2>1, <2>3
<1>9. CASE \E p \in UserLabels, a \in Answers : WaitsOn(u, p, a)
  <2>1. /\ ~At(u, "free") /\ user'[u].pc # "free" /\ SameCount(d) /\ data'[d].live = data[d].live
    BY <1>9 DEF WaitsOn, At, UserIs, WaitLabels, Life
  <2> QED
    BY <1>1, <1>4, <2>1
<1>10. CASE Identifies(u)
  <2>1. /\ ~At(u, "free") /\ user'[u].pc # "free" /\ SameCount(d) /\ data'[d].live = data[d].live
    BY <1>10 DEF Identifies, At, UserGoes, UserIs, Life, DataStay, SameCount
  <2> QED
    BY <1>1, <1>4, <2>1
<1>11. CASE Marks(u)
  <2>1. SameCount(d) /\ data'[d].live = data[d].live /\ UNCHANGED user
    BY <1>11 DEF Marks, Life, DataStay, SameCount
  <2> QED
    BY <1>0, <1>4, <2>1 DEF FreesRightly, IsFreer, At
<1>12. CASE \E n \in Threads, q \in {"suspended", "created"} : Creates(u, n, q)
  <2>1. PICK n \in Threads, q \in {"suspended", "created"} : Creates(u, n, q)
    BY <1>12
  <2>2. ~At(u, "free") /\ user'[u].pc # "free" /\ SameCount(d) /\ data'[d].live = data[d].live
    BY <2>1 DEF Creates, At, UserGoes, UserIs, DataStay, SameCount
  <2> QED
    BY <1>1, <1>4, <2>2
<1>13. CASE Constructs(u) \/ \E n \in Threads : MakesThread(u, n)
  <2>1. At(u, "construct") /\ ~data[user[u].ptr].live
    BY <1>13 DEF Constructs, MakesThread, BuildInv
  <2>2. ~At(u, "free") /\ user'[u].pc # "free" /\ DataStay(user[u].ptr)
    <3>1. CASE Constructs(u)
      BY <3>1 DEF Constructs, At, UserGoes, UserIs
    <3>2. CASE \E n \in Threads : MakesThread(u, n)
      BY <3>2 DEF MakesThread, At, UserGoes, UserIs
    <3> QED
      BY <1>13, <3>1, <3>2
  <2>3. data'[user[u].ptr].mnRefCount # 0
    <3>1. [Fresh EXCEPT !.used = TRUE, !.live = TRUE, !.mnRefCount = 3].mnRefCount # 0
      BY FreshFields DEF DataRecords
    <3>2. \A n \in Threads :
            [Fresh EXCEPT !.used = TRUE, !.live = TRUE, !.mnRefCount = 2, !.mSysThreadId = n].mnRefCount # 0
      BY FreshFields DEF DataRecords
    <3> QED
      BY <1>13, <3>1, <3>2 DEF Constructs, MakesThread
  <2>4. Dying(d)' <=> Dying(d)
    BY <2>1, <2>2, <2>3 DEF Dying, DataStay
  <2> QED
    BY <1>1, <2>2, <2>4
<1>17. CASE Continues(u)
  <2>1. ~At(u, "free") /\ user'[u].pc # "free" /\ CountIs(user[u].ptr, data[user[u].ptr].mnRefCount - 1)
        /\ data[user[u].ptr].mnRefCount > 1
    BY <1>17 DEF Continues, At, UserGoes, UserIs
  <2>2. Dying(d)' <=> Dying(d)
    BY <1>0, <2>1, Fields DEF Dying, CountIs, Life, DataStay
  <2> QED
    BY <1>1, <2>1, <2>2
<1>14. CASE AddsRef(u)
  <2>1. ~At(u, "free") /\ user'[u].pc # "free" /\ CountIs(user[u].ptr, data[user[u].ptr].mnRefCount + 1)
        /\ data[user[u].ptr].mnRefCount > 0
    BY <1>14 DEF AddsRef, At, UserReturns, UserIs
  <2>2. Dying(d)' <=> Dying(d)
    BY <1>0, <2>1 DEF Dying, CountIs, Life, DataStay
  <2> QED
    BY <1>1, <2>1, <2>2
<1>15. CASE UserHasFreed(u)
  <2>1. At(u, "free") /\ Dying(user[u].ptr) /\ user'[u].pc # "free" /\ data'[user[u].ptr] = Fresh
        /\ DataStay(user[u].ptr)
    BY <1>15 DEF UserHasFreed, FreeInv, UserInv, Dying, At, UserReturns, UserIs, Frees
  <2>2. CASE d = user[u].ptr
    <3>1. IsFreer(u, d) /\ Dying(d) /\ ~IsFreer(u, d)' /\ ~Dying(d)'
      BY <1>0, <2>1, <2>2, FreshFields DEF IsFreer, At, Dying
    <3> QED
      BY <3>1 DEF FreesRightly
  <2>3. CASE d # user[u].ptr
    <3>1. ~IsFreer(u, d) /\ ~IsFreer(u, d)' /\ (Dying(d) <=> Dying(d)')
      BY <1>0, <2>1, <2>3 DEF IsFreer, At, Dying, DataStay
    <3> QED
      BY <3>1 DEF FreesRightly
  <2> QED
    BY <2>2, <2>3
<1>16. CASE \E v \in Users : Assigns(u, v)
  <2>1. PICK v \in Users : Assigns(u, v)
    BY <1>16
  <2>2. /\ At(u, "idle") /\ At(v, "idle") /\ mpData[v] # None /\ mpData[u] # mpData[v]
        /\ data'[d].live = data[d].live
        /\ data'[d].mnRefCount = data[d].mnRefCount + Value(d = mpData[v]) - Value(d = mpData[u])
    BY <2>1 DEF Assigns, Life
  <2>3. /\ d = mpData[v] => data[d].mnRefCount >= 1
        /\ d = mpData[u] => data[d].mnRefCount >= 1 /\ data[d].live
    BY <1>0, <2>2, MayGiveUp, LiveIfCounted, Apart
  <2>4. IF mpData[u] # None /\ data[mpData[u]].mnRefCount = 1 THEN user'[u].pc = "free" /\ user'[u].ptr = mpData[u]
        ELSE user' = user
    BY <2>1 DEF Assigns, UserIs
  <2>5. CASE d = mpData[v]
    <3>1. ~IsFreer(u, d) /\ ~IsFreer(u, d)' /\ ~Dying(d) /\ ~Dying(d)'
      BY <1>0, <2>2, <2>3, <2>4, <2>5 DEF IsFreer, At, Dying, Value
    <3> QED
      BY <3>1 DEF FreesRightly
  <2>6. CASE d = mpData[u]
    <3>1. ~IsFreer(u, d) /\ ~Dying(d)
      BY <1>0, <2>2, <2>3, <2>6 DEF IsFreer, At, Dying
    <3>2. IsFreer(u, d)' <=> Dying(d)'
      BY <1>0, <2>2, <2>3, <2>4, <2>6, Apart DEF IsFreer, At, Dying, Value
    <3> QED
      BY <3>1, <3>2 DEF FreesRightly
  <2>7. CASE d \notin {mpData[u], mpData[v]}
    <3>1. ~IsFreer(u, d) /\ ~IsFreer(u, d)' /\ (Dying(d) <=> Dying(d)')
      BY <1>0, <2>2, <2>4, <2>7 DEF IsFreer, At, Dying, Value
    <3> QED
      BY <3>1 DEF FreesRightly
  <2> QED
    BY <2>5, <2>6, <2>7
<1> QED
  BY <1>3, <1>5, <1>6, <1>7, <1>8, <1>9, <1>10, <1>11, <1>12, <1>13, <1>14, <1>15, <1>16, <1>17 DEF UserDoes

LEMMA ThreadFreesRightly ==
    ASSUME ThreadInv, NEW d \in Data, NEW n \in Threads, ThreadDoes(n)
    PROVE  FreesRightly(n, d)
<1> USE DEF ThreadInv
<1>0. TypeOK /\ CountInv /\ DataInv /\ n \notin Users /\ data[d].mnRefCount \in Nat
  BY Apart, Fields
<1>1. CASE \E p \in ThreadLabels : Proceeds(n, p)
  <2>1. /\ ~IsAt(n, "free") /\ thread'[n].pc # "free"
        /\ data'[d].live = data[d].live /\ data'[d].mnRefCount = data[d].mnRefCount
    BY <1>1 DEF Proceeds, IsAt, ThreadGoes, ThreadIs, DataStay, Life, SameCount
  <2> QED
    BY <1>0, <2>1 DEF FreesRightly, IsFreer, Dying, IsAt
<1>2. CASE ThreadHasFreed(n)
  <2>1. IsAt(n, "free") /\ Dying(thread[n].ptr) /\ thread'[n].pc # "free" /\ data'[thread[n].ptr] = Fresh
        /\ DataStay(thread[n].ptr)
    BY <1>2 DEF ThreadHasFreed, FreeInv, Dying, IsAt, ThreadGoes, ThreadIs, Frees
  <2>2. CASE d = thread[n].ptr
    <3>1. IsFreer(n, d) /\ Dying(d) /\ ~IsFreer(n, d)' /\ ~Dying(d)'
      BY <1>0, <2>1, <2>2, FreshFields DEF IsFreer, IsAt, Dying
    <3> QED
      BY <3>1 DEF FreesRightly
  <2>3. CASE d # thread[n].ptr
    <3>1. ~IsFreer(n, d) /\ ~IsFreer(n, d)' /\ (Dying(d) <=> Dying(d)')
      BY <1>0, <2>1, <2>3 DEF IsFreer, IsAt, Dying, DataStay
    <3> QED
      BY <3>1 DEF FreesRightly
  <2> QED
    BY <2>2, <2>3
<1>3. CASE ThreadGivesUp(n)
  <2> DEFINE e == thread[n].ptr
  <2>1. /\ e \in Data /\ Runs(n, e) /\ CountIs(e, data[e].mnRefCount - 1) /\ ~IsAt(n, "free")
        /\ thread'[n].ptr = e /\ (thread'[n].pc = "free" <=> data[e].mnRefCount = 1)
    BY <1>3 DEF ThreadGivesUp, LiveThreadInv, IsAt, Runs, ThreadGoes, ThreadIs
  <2>2. data[e].live /\ data[e].mnRefCount > 0
    BY <1>0, <2>1, LiveIfOwned
  <2>3. CASE d = e
    <3>1. ~IsFreer(n, d) /\ ~Dying(d)
      BY <1>0, <2>1, <2>2, <2>3 DEF IsFreer, Dying
    <3>2. Dying(d)' <=> data[d].mnRefCount = 1
      <4>1. data'[d].live /\ data'[d].mnRefCount = data[d].mnRefCount - 1
        BY <2>1, <2>2, <2>3 DEF CountIs, Life
      <4> QED
        BY <1>0, <4>1 DEF Dying
    <3>3. IsFreer(n, d)' <=> data[d].mnRefCount = 1
      BY <1>0, <2>1, <2>3 DEF IsFreer, IsAt
    <3> QED
      BY <3>1, <3>2, <3>3 DEF FreesRightly
  <2>4. CASE d # e
    <3>1. ~IsFreer(n, d) /\ ~IsFreer(n, d)' /\ (Dying(d) <=> Dying(d)')
      BY <1>0, <2>1, <2>4 DEF IsFreer, IsAt, Dying, CountIs, DataStay
    <3> QED
      BY <3>1 DEF FreesRightly
  <2> QED
    BY <2>3, <2>4
<1>4. CASE \E o \in Users : DestroysWithin(n, o)
  <2>1. PICK o \in Users : DestroysWithin(n, o)
    BY <1>4
  <2> DEFINE e == thread[n].ptr
  <2>2. /\ e \in Data /\ Runs(n, e) /\ CountIs(e, data[e].mnRefCount - 1) /\ UNCHANGED thread
        /\ ~IsAt(n, "free") /\ mpData[o] = e
    BY <2>1 DEF DestroysWithin, LiveThreadInv, IsAt, Runs
  <2>3. HasObject(o, e)
    <3>1. user[o].next = "idle" /\ user[o].pc \in {"idle", "created", "identify"}
          /\ (platform = "cpp11" => user[o].pc = "idle")
      BY <2>1 DEF UserInv, DestroysWithin, At
    <3> QED
      BY <2>2, <3>1 DEF HasObject
  <2>4. data[e].mnRefCount >= 2 /\ data[e].mnRefCount \in Nat
    <3>1. data[e].mnRefCount >= References(o, e) + Value(Runs(n, e)) /\ data[e].mnRefCount \in Nat
      BY <1>0, <2>2, Counted
    <3>2. References(o, e) >= 1 /\ References(o, e) \in Nat /\ Value(Runs(n, e)) = 1
      BY <2>2, <2>3 DEF References, Value
    <3> QED
      BY <3>1, <3>2
  <2>5. Dying(d) <=> Dying(d)'
    BY <2>2, <2>4 DEF Dying, CountIs, DataStay, Life
  <2> QED
    BY <1>0, <2>2, <2>5 DEF FreesRightly, IsFreer, IsAt
<1> QED
  BY <1>1, <1>2, <1>3, <1>4 DEF ThreadDoes

AllFreedOnce == \A d \in Data : FreedOnce(d)

LEMMA FreeingIsOnceStill == (UserInv /\ LiveThreadInv)' => (FreeInv' <=> AllFreedOnce')
<1>1. UserInv /\ LiveThreadInv => (FreeInv <=> AllFreedOnce)
  BY FreeingIsOnce DEF AllFreedOnce
<1> QED
  BY <1>1, PTL

LEMMA FreeGoesOn ==
    ASSUME ThreadInv, UserInv', LiveThreadInv'
    PROVE  /\ \A u \in Users : UserDoes(u) => FreeInv'
           /\ \A n \in Threads : ThreadDoes(n) => FreeInv'
<1>0. TypeOK /\ \A d \in Data : FreedOnce(d)
  BY FreeingIsOnce DEF ThreadInv
<1>1. (\A d \in Data : FreedOnce(d)') => FreeInv'
  BY FreeingIsOnceStill DEF AllFreedOnce
<1>2. ASSUME NEW u \in Users, UserDoes(u), NEW d \in Data PROVE FreedOnce(d)'
  <2>1. \A b \in Agents \ {u} : IsFreer(b, d)' <=> IsFreer(b, d)
    BY <1>0, <1>2, OthersFreeOn
  <2>2. FreesRightly(u, d) /\ u \in Agents
    BY <1>2, UserFreesRightly DEF Agents
  <2> QED
    BY <1>0, <2>1, <2>2, FreedOnceGoesOn DEF FreesRightly
<1>3. ASSUME NEW n \in Threads, ThreadDoes(n), NEW d \in Data PROVE FreedOnce(d)'
  <2>1. \A b \in Agents \ {n} : IsFreer(b, d)' <=> IsFreer(b, d)
    BY <1>0, <1>3, OthersFreeOn
  <2>2. FreesRightly(n, d) /\ n \in Agents
    BY <1>3, ThreadFreesRightly DEF Agents
  <2> QED
    BY <1>0, <2>1, <2>2, FreedOnceGoesOn DEF FreesRightly
<1> QED
  BY <1>1, <1>2, <1>3

-----------------------------------------------------------------------------
(* Where users are.                                                        *)

UserIsSound(u) ==
    /\ At(u, "idle") => user[u] = Idle(u)
    /\ user[u].pc \notin Waiting \cup {"poll"} => user[u].obj = u
    /\ user[u].next # "idle" => user[u].next = "allocate" /\ At(u, "free")
    /\ user[u].pc \in Building \cup {"created", "name", "free"} => user[u].ptr \in Data
    /\ At(u, "enumerate") => user[u].ptr \in Slots /\ enumData[u] = None
    /\ At(u, "release") => mpData[u] \in Data
    /\ user[u].pc \in {"close", "zero"} \cup StatusLabels => platform = "pc"

LEMMA SoundWhere ==
    ASSUME NEW u \in Users, NEW p, NEW o, NEW x, NEW k, NEW a, UserIs(u, p, o, x, k, a),
           p # "idle",
           p \in Waiting \cup {"poll"} \/ o = u,
           k = "idle" \/ (k = "allocate" /\ p = "free"),
           p \in Building \cup {"created", "name", "free"} => x \in Data,
           p = "enumerate" => x \in Slots /\ enumData'[u] = None,
           p = "release" => mpData'[u] \in Data,
           p \in {"close", "zero"} \cup StatusLabels => platform' = "pc"
    PROVE  UserIsSound(u)'
<1>1. user'[u].pc = p /\ user'[u].obj = o /\ user'[u].ptr = x /\ user'[u].next = k /\ user'[u].answer = a
  BY DEF UserIs
<1> QED
  BY <1>1 DEF UserIsSound, At

LEMMA SoundReturned ==
    ASSUME NEW u \in Users, UserReturns(u)
    PROVE  UserIsSound(u)'
<1> QED
  BY DEF UserReturns, UserIs, UserIsSound, At, Idle, Waiting, WaitLabels, StatusLabels, Building

\* A user that gives up references returns, goes on or frees.
LEMMA SoundGivenUp ==
    ASSUME ThreadInv, NEW u \in Users, ~At(u, "free"), user[u].obj = u, NEW e \in Data, NEW k, NEW l \in {"idle", "allocate"},
           GivesUp(u, e, k, l)
    PROVE  UserIsSound(u)'
<1>1. user[u].next = "idle"
  BY DEF ThreadInv, UserInv
<1>2. \/ UserIs(u, "free", u, e, l, user[u].answer)
      \/ UserReturns(u)
      \/ UserIs(u, "allocate", u, user[u].ptr, "idle", user[u].answer)
  BY <1>1 DEF GivesUp, UserGoes
<1>3. CASE UserIs(u, "free", u, e, l, user[u].answer)
  BY <1>3, SoundWhere DEF StatusLabels
<1>4. CASE UserReturns(u)
  BY <1>4, SoundReturned
<1>5. CASE UserIs(u, "allocate", u, user[u].ptr, "idle", user[u].answer)
  BY <1>5, SoundWhere DEF StatusLabels, Building
<1> QED
  BY <1>2, <1>3, <1>4, <1>5

LEMMA UserSoundGoesOn ==
    ASSUME ThreadInv, NEW u \in Users, UserDoes(u)
    PROVE  UserIsSound(u)'
<1> USE DEF ThreadInv
<1>0. /\ TypeOK /\ platform' = platform
      /\ At(u, "idle") => user[u].obj = u /\ user[u].next = "idle"
      /\ user[u].pc \notin Waiting \cup {"poll"} => user[u].obj = u
      /\ ~At(u, "free") => user[u].next = "idle"
      /\ user[u].next \in {"idle", "allocate"}
      /\ user[u].pc \in Building \cup {"created", "name", "free"} => user[u].ptr \in Data
      /\ user[u].pc \in {"close", "zero"} \cup StatusLabels => platform = "pc"
      /\ At(u, "enumerate") => user[u].ptr \in Slots
  <2>1. platform' = platform
    BY UserStepsAreOfOne DEF OnlyUser
  <2>2. At(u, "idle") => user[u].obj = u /\ user[u].next = "idle"
    <3>1. At(u, "idle") => user[u] = Idle(u)
      BY DEF UserInv
    <3>2. Idle(u).obj = u /\ Idle(u).next = "idle"
      BY DEF Idle
    <3> QED
      BY <3>1, <3>2
  <2>3. /\ user[u].pc \notin Waiting \cup {"poll"} => user[u].obj = u
        /\ user[u].next = "idle" \/ (user[u].next = "allocate" /\ At(u, "free"))
        /\ user[u].pc \in Building \cup {"created", "name", "free"} => user[u].ptr \in Data
        /\ user[u].pc \in {"close", "zero"} \cup StatusLabels => platform = "pc"
        /\ At(u, "enumerate") => user[u].ptr \in Slots
    BY DEF UserInv
  <2> QED
    BY <2>1, <2>2, <2>3
<1>1. CASE CreateFails(u) \/ BeginEnds(u) \/ ReleasesOld(u) \/ Destroys(u) \/ ReleasesEnumerated(u)
  <2>1. user[u].pc \in {"create", "created", "release", "idle"}
    BY <1>1 DEF CreateFails, BeginEnds, ReleasesOld, Destroys, ReleasesEnumerated, At
  <2>2. ~At(u, "free") /\ user[u].obj = u
    BY <1>0, <2>1 DEF At, Waiting, WaitLabels, StatusLabels
  <2>3. \E e \in Data, k \in {1, 3}, l \in {"idle", "allocate"} : GivesUp(u, e, k, l)
    BY <1>1, MayGiveUp DEF CreateFails, BeginEnds, ReleasesOld, Destroys, ReleasesEnumerated
  <2> QED
    BY <2>2, <2>3, SoundGivenUp
<1>2. CASE Leaves(u) \/ AddsRef(u)
  BY <1>2, SoundReturned DEF Leaves, AddsRef
<1>17. CASE Continues(u)
  <2>1. UserIs(u, "name", u, user[u].ptr, "idle", user[u].answer) /\ user[u].ptr \in Data
    BY <1>0, <1>17 DEF Continues, UserGoes, At, Waiting, WaitLabels, StatusLabels
  <2> QED
    BY <2>1, SoundWhere DEF StatusLabels
<1>3. CASE Begins(u)
  <2>1. At(u, "idle") /\ UserGoes(u, IF mpData[u] = None THEN "allocate" ELSE "release") /\ mpData' = mpData
    BY <1>3 DEF Begins
  <2>2. mpData[u] # None => mpData'[u] \in Data
    BY <1>0, <2>1, Fields
  <2>3. CASE mpData[u] = None
    <3>1. UserIs(u, "allocate", u, user[u].ptr, "idle", user[u].answer)
      BY <1>0, <2>1, <2>3 DEF UserGoes
    <3> QED
      BY <3>1, SoundWhere DEF StatusLabels, Building
  <2>4. CASE mpData[u] # None
    <3>1. UserIs(u, "release", u, user[u].ptr, "idle", user[u].answer)
      BY <1>0, <2>1, <2>4 DEF UserGoes
    <3> QED
      BY <2>2, <2>4, <3>1, SoundWhere DEF StatusLabels, Building
  <2> QED
    BY <2>3, <2>4
<1>4. CASE Enumerates(u)
  <2>1. PICK d \in Slots : UserIs(u, "enumerate", u, d, "idle", user[u].answer)
    BY <1>0, <1>4 DEF Enumerates
  <2>2. enumData'[u] = None
    BY <1>4 DEF Enumerates
  <2> QED
    BY <2>1, <2>2, SoundWhere DEF StatusLabels, Building
<1>5. CASE Allocates(u)
  <2>1. user[u].obj = u /\ user[u].next = "idle"
    BY <1>0, <1>5 DEF Allocates, At, Waiting, WaitLabels, StatusLabels
  <2>2. PICK d \in Data : UserIs(u, "construct", u, d, "idle", user[u].answer)
    BY <1>5, <2>1 DEF Allocates
  <2> QED
    BY <2>2, SoundWhere DEF StatusLabels
<1>6. CASE Polled(u)
  <2>1. UserIs(u, "check", user[u].obj, user[u].ptr, "idle", user[u].answer)
    BY <1>0, <1>6 DEF Polled, UserGoes, At
  <2> QED
    BY <2>1, SoundWhere DEF Waiting, WaitLabels, StatusLabels, Building
<1>7. CASE Closes(u)
  <2>1. /\ platform = "pc" /\ user[u].next = "idle"
        /\ UserGoes(u, IF At(u, "close") THEN "zero" ELSE "zeroForStatus")
    BY <1>0, <1>7 DEF Closes, At
  <2>2. \E p \in {"zero", "zeroForStatus"} : UserIs(u, p, user[u].obj, user[u].ptr, "idle", user[u].answer)
    BY <2>1 DEF UserGoes
  <2> QED
    BY <1>0, <2>1, <2>2, SoundWhere DEF Waiting, WaitLabels, StatusLabels, Building
<1>8. CASE Zeroes(u)
  <2>1. user[u].next = "idle"
    BY <1>0, <1>8 DEF Zeroes, At
  <2>2. CASE UserReturns(u)
    BY <2>2, SoundReturned
  <2>3. CASE UserIs(u, "return", user[u].obj, user[u].ptr, user[u].next, "ended")
    BY <2>1, <2>3, SoundWhere DEF Waiting, WaitLabels, StatusLabels, Building
  <2> QED
    BY <1>8, <2>2, <2>3 DEF Zeroes
<1>9. CASE Constructs(u) \/ Resumes(u) \/ Identifies(u) \/ Publishes(u)
           \/ (\E n \in Threads : MakesThread(u, n))
           \/ (\E n \in Threads, q \in {"suspended", "created"} : Creates(u, n, q))
  <2>1. /\ user[u].pc \in Building
        /\ \E p \in {"create", "created", "publish", "identify", "resume"} : UserGoes(u, p)
    BY <1>9 DEF Constructs, Resumes, Identifies, Publishes, MakesThread, Creates, At, Building
  <2>2. user[u].next = "idle" /\ user[u].obj = u /\ user[u].ptr \in Data
    BY <1>0, <2>1 DEF At, Building, Waiting, WaitLabels, StatusLabels
  <2>3. \E p \in {"create", "created", "publish", "identify", "resume"} :
            UserIs(u, p, u, user[u].ptr, "idle", user[u].answer)
    BY <2>1, <2>2 DEF UserGoes
  <2> QED
    BY <2>2, <2>3, SoundWhere DEF StatusLabels
<1>10. CASE UserHasFreed(u)
  <2>1. user[u].obj = u /\ user[u].ptr \in Data
    BY <1>0, <1>10 DEF UserHasFreed, At, Waiting, WaitLabels, StatusLabels
  <2>2. CASE user[u].next = "idle"
    BY <1>10, <2>2, SoundReturned DEF UserHasFreed
  <2>3. CASE user[u].next = "allocate"
    <3>1. UserIs(u, "allocate", u, user[u].ptr, "idle", user[u].answer)
      BY <1>10, <2>1, <2>3 DEF UserHasFreed
    <3> QED
      BY <3>1, SoundWhere DEF StatusLabels, Building
  <2> QED
    BY <1>0, <2>2, <2>3
<1>11. CASE Marks(u)
  BY <1>11 DEF Marks, UserInv, UserIsSound, At
<1>12. CASE \E o \in Users : CallsWait(u, o) \/ CallsStatus(u, o)
  <2>1. PICK o \in Users : CallsWait(u, o) \/ CallsStatus(u, o)
    BY <1>12
  <2>2. \/ \E p \in {"poll", "check"} : UserIs(u, p, o, user[u].ptr, "idle", user[u].answer)
        \/ platform = "pc" /\ UserIs(u, "closeForStatus", o, user[u].ptr, "idle", user[u].answer)
    BY <1>0, <2>1 DEF CallsWait, CallsStatus
  <2> QED
    BY <1>0, <2>2, SoundWhere DEF Waiting, WaitLabels, StatusLabels, Building
<1>13. CASE \E v \in Users : Assigns(u, v)
  <2>1. PICK v \in Users : Assigns(u, v)
    BY <1>13
  <2>2. At(u, "idle") /\ enumData' = enumData /\ mpData[u] \in Data \cup {None}
    BY <1>0, <2>1, Fields DEF Assigns
  <2>3. CASE UNCHANGED user
    BY <1>0, <2>2, <2>3 DEF UserInv, UserIsSound, At, Waiting, WaitLabels, StatusLabels, Building
  <2>4. CASE mpData[u] # None /\ UserIs(u, "free", user[u].obj, mpData[u], user[u].next, user[u].answer)
    <3>1. UserIs(u, "free", u, mpData[u], "idle", user[u].answer) /\ mpData[u] \in Data
      BY <1>0, <2>2, <2>4
    <3> QED
      BY <3>1, SoundWhere DEF StatusLabels
  <2> QED
    BY <2>1, <2>3, <2>4 DEF Assigns
<1>14. CASE \E p \in UserLabels, a \in Answers : WaitsOn(u, p, a)
  <2>1. PICK p \in UserLabels, a \in Answers : WaitsOn(u, p, a)
    BY <1>14
  <2>2. /\ p \in WaitLabels /\ p # "zero" /\ (p = "close" => platform = "pc")
        /\ UserIs(u, p, user[u].obj, user[u].ptr, "idle", a)
    BY <1>0, <2>1 DEF WaitsOn, At, WaitLabels
  <2> QED
    BY <1>0, <2>2, SoundWhere DEF Waiting, WaitLabels, StatusLabels, Building
<1>15. CASE \E n \in Threads : Joins(u, n)
  <2>1. PICK p \in {"unlockRun", "return"}, a \in Answers :
             UserIs(u, p, user[u].obj, user[u].ptr, user[u].next, a)
    BY <1>15 DEF Joins
  <2>2. user[u].next = "idle"
    BY <1>0, <1>15 DEF Joins, At
  <2> QED
    BY <2>1, <2>2, SoundWhere DEF Waiting, WaitLabels, StatusLabels, Building
<1>16. UserDoes(u)
  OBVIOUS
<1> QED
  BY <1>1, <1>2, <1>3, <1>4, <1>5, <1>6, <1>7, <1>8, <1>9, <1>10, <1>11, <1>12, <1>13, <1>14, <1>15, <1>16, <1>17 DEF UserDoes

LEMMA UsersGoOn ==
    ASSUME ThreadInv
    PROVE  /\ \A u \in Users : UserDoes(u) => UserInv'
           /\ \A n \in Threads : ThreadDoes(n) => UserInv'
<1>0. TypeOK /\ (UserInv' <=> \A v \in Users : UserIsSound(v)')
  BY DEF ThreadInv, UserInv, UserIsSound
<1>1. ASSUME NEW u \in Users, UserDoes(u), NEW v \in Users PROVE UserIsSound(v)'
  <2>1. CASE v = u
    BY <1>1, <2>1, UserSoundGoesOn
  <2>2. CASE v # u
    BY <1>0, <1>1, <2>2, UserStepsAreOfOne DEF OnlyUser, ThreadInv, UserInv, UserIsSound, At
  <2> QED
    BY <2>1, <2>2
<1>2. ASSUME NEW n \in Threads, ThreadDoes(n), NEW v \in Users PROVE UserIsSound(v)'
  <2>1. CASE \E o \in Users : DestroysWithin(n, o)
    <3>1. PICK o \in Users : DestroysWithin(n, o)
      BY <2>1
    <3>2. UNCHANGED <<platform, user, enumData>> /\ (mpData'[v] = mpData[v] \/ ~At(v, "release"))
      BY <3>1 DEF DestroysWithin, ObjectHas, At
    <3> QED
      BY <3>2 DEF ThreadInv, UserInv, UserIsSound, At
  <2>2. CASE UNCHANGED <<platform, user, mpData, enumData>>
    BY <2>2 DEF ThreadInv, UserInv, UserIsSound, At
  <2> QED
    BY <1>2, <2>1, <2>2 DEF ThreadDoes, Proceeds, ThreadHasFreed, ThreadGivesUp
<1> QED
  BY <1>0, <1>1, <1>2

-----------------------------------------------------------------------------
(* Begin and the data it makes.                                            *)

BuildsRightly(u) ==
    LET d == user[u].ptr IN
    /\ At(u, "construct") => data[d].used /\ ~data[d].live
    /\ At(u, "create") => /\ mpData[u] = d /\ data[d].mThreadId = None
                          /\ data[d].mSysThreadId = None /\ platform # "cpp11"
    /\ At(u, "identify") => data[d].mThreadId = None /\ data[d].mSysThreadId # None
    /\ At(u, "identify") /\ platform # "cpp11" => mpData[u] \in {d, None}
    /\ At(u, "resume") => /\ data[d].mSysThreadId # None /\ platform = "pc"
                          /\ IsAt(data[d].mSysThreadId, "suspended")
    /\ At(u, "publish") => data[d].mSysThreadId # None /\ platform = "cpp11"
    /\ user[u].pc \in {"identify", "publish"} /\ platform = "cpp11" =>
          \A o \in Users : ~HasObject(o, d)
    /\ (At(u, "created") /\ platform = "cpp11") \/ At(u, "name") => mpData[u] = d
BuildApart(u, v) ==
    u # v /\ user[u].pc \in Building /\ user[v].pc \in Building => user[v].ptr # user[u].ptr

\* The steps of Begin that lead to the next one.
Builds(u) ==
    \/ Allocates(u) \/ Constructs(u) \/ Resumes(u) \/ Identifies(u) \/ Publishes(u) \/ Continues(u)
    \/ (\E n \in Threads : MakesThread(u, n))
    \/ (\E n \in Threads, q \in {"suspended", "created"} : Creates(u, n, q))

LEMMA BuildersBuild ==
    ASSUME ThreadInv, NEW u \in Users, UserDoes(u)
    PROVE  /\ Builds(u) \/ user'[u].pc \notin Building \cup {"created", "name"}
           /\ user'[u].pc \in Building =>
                 Allocates(u) \/ (user[u].pc \in Building /\ user'[u].ptr = user[u].ptr)
<1> DEFINE nowhere == user'[u].pc \notin Building \cup {"created", "name"}
<1>0. user[u].next = "idle" \/ (user[u].next = "allocate" /\ At(u, "free"))
  BY DEF ThreadInv, UserInv
<1>1. CASE CreateFails(u) \/ BeginEnds(u) \/ ReleasesOld(u) \/ Destroys(u) \/ ReleasesEnumerated(u)
  <2>1. \E e, k, l : GivesUp(u, e, k, l) /\ l \in {"idle", "allocate"}
    BY <1>1 DEF CreateFails, BeginEnds, ReleasesOld, Destroys, ReleasesEnumerated
  <2>2. nowhere
    BY <2>1 DEF GivesUp, UserIs, UserReturns, UserGoes, Building
  <2> QED
    BY <2>2
<1>2. CASE Leaves(u) \/ AddsRef(u)
  BY <1>2 DEF Leaves, AddsRef, UserReturns, UserIs, Building
<1>3. CASE Begins(u) \/ Polled(u) \/ Closes(u)
  BY <1>3 DEF Begins, Polled, Closes, UserGoes, UserIs, Building
<1>4. CASE Enumerates(u)
  BY <1>4 DEF Enumerates, UserIs, Building
<1>5. CASE Zeroes(u)
  BY <1>5 DEF Zeroes, UserReturns, UserIs, Building
<1>6. CASE UserHasFreed(u)
  BY <1>0, <1>6 DEF UserHasFreed, UserReturns, UserIs, Building
<1>7. CASE Marks(u)
  BY <1>7 DEF Marks, InBegin, BeginLabels, Building
<1>8. CASE \E o \in Users : CallsWait(u, o) \/ CallsStatus(u, o)
  BY <1>8 DEF CallsWait, CallsStatus, UserIs, Building
<1>9. CASE \E v \in Users : Assigns(u, v)
  BY <1>9 DEF Assigns, UserIs, At, Building
<1>10. CASE \E p \in UserLabels, a \in Answers : WaitsOn(u, p, a)
  BY <1>10 DEF WaitsOn, UserIs, WaitLabels, Building
<1>11. CASE \E n \in Threads : Joins(u, n)
  BY <1>11 DEF Joins, UserIs, Building
<1>15. CASE Continues(u)
  BY <1>15 DEF Continues, Builds, UserGoes, UserIs, Building
<1>12. CASE Constructs(u) \/ Resumes(u) \/ Identifies(u) \/ Publishes(u)
            \/ (\E n \in Threads : MakesThread(u, n))
            \/ (\E n \in Threads, q \in {"suspended", "created"} : Creates(u, n, q))
  <2>1. Builds(u)
    BY <1>12 DEF Builds
  <2>2. user[u].pc \in Building /\ \E p : UserGoes(u, p)
    BY <1>12 DEF Constructs, Resumes, Identifies, Publishes, MakesThread, Creates, At, Building
  <2> QED
    BY <2>1, <2>2 DEF UserGoes, UserIs
<1>13. CASE Allocates(u)
  BY <1>13 DEF Builds
<1>14. UserDoes(u)
  OBVIOUS
<1> QED
  BY <1>1, <1>2, <1>3, <1>4, <1>5, <1>6, <1>7, <1>8, <1>9, <1>10, <1>11, <1>12, <1>13, <1>14, <1>15 DEF UserDoes

\* The data of a user in Begin is used, and beyond the construction alive.
LEMMA BuiltData ==
    ASSUME ThreadInv, NEW u \in Users
    PROVE  /\ user[u].pc \in Building => user[u].ptr \in Data /\ data[user[u].ptr].used
           /\ user[u].pc \in Building \ {"construct"} =>
                 data[user[u].ptr].live /\ data[user[u].ptr].mnRefCount > 0
<1> USE DEF ThreadInv
<1>1. user[u].pc \in Building => user[u].ptr \in Data
  BY DEF UserInv
<1>2. user[u].pc \in Building \ {"construct"} =>
          HasBegun(u, user[u].ptr) \/ HasCreation(u, user[u].ptr)
  BY DEF Building, HasBegun, HasCreation, At, BuildInv
<1>3. At(u, "construct") => data[user[u].ptr].used
  BY DEF BuildInv
<1> QED
  BY <1>1, <1>2, <1>3, LiveIfOwned DEF Building, At

\* Nobody else touches it, but for the names of its thread.
LEMMA BuiltDataStays ==
    ASSUME ThreadInv, NEW u \in Users, user[u].pc \in Building, NEW d, d = user[u].ptr,
           \/ \E v \in Users : UserDoes(v) /\ v # u
           \/ \E n \in Threads : ThreadDoes(n)
    PROVE  /\ d \in Data
           /\ At(u, "construct") => data'[d] = data[d]
           /\ ~At(u, "construct") => /\ data'[d].mSysThreadId = data[d].mSysThreadId
                                     /\ data'[d].mThreadId \in {data[d].mThreadId, None}
<1> USE DEF ThreadInv
<1>1. d \in Data /\ data[d].used /\ (~At(u, "construct") => data[d].live /\ data[d].mnRefCount > 0)
  BY BuiltData DEF At
<1>2. At(u, "construct") => ~data[d].live
  BY DEF BuildInv
<1>3. ASSUME NEW v \in Users, UserDoes(v), v # u PROVE ~IsMade(v, d)
  <2>1. user[v].pc \in Building => user[v].ptr # d
    BY <1>3 DEF BuildInv
  <2>2. IsMade(v, d) => user[v].pc \in Building /\ user[v].ptr = d
    BY <1>1 DEF IsMade, Creates, Identifies, Constructs, MakesThread, At, Building
  <2> QED
    BY <2>1, <2>2
<1>4. \/ data'[d] = data[d]
      \/ Lives(d) /\ (SameName(d) \/ data'[d].mThreadId = None)
      \/ IsFreed(d)
  BY <1>1, <1>3, DataMoves
<1>5. CASE At(u, "construct")
  BY <1>1, <1>2, <1>4, <1>5 DEF Lives, IsFreed
<1>6. CASE ~At(u, "construct")
  <2>1. ~IsFreed(d)
    BY <1>1, <1>6 DEF IsFreed
  <2> QED
    BY <1>1, <1>4, <1>6, <2>1 DEF Lives, Life, SameName
<1> QED
  BY <1>5, <1>6

\* A suspended thread stays so until Begin resumes it.
LEMMA SuspendedStays ==
    ASSUME ThreadInv, NEW u \in Users, At(u, "resume"), NEW n, n = data[user[u].ptr].mSysThreadId,
           \/ \E v \in Users : UserDoes(v) /\ v # u
           \/ \E m \in Threads : ThreadDoes(m)
    PROVE  IsAt(n, "suspended")'
<1> USE DEF ThreadInv
<1>1. user[u].ptr \in Data /\ n \in Threads /\ IsAt(n, "suspended") /\ thread[n].ptr = user[u].ptr /\ user[u].pc \in Building
  <2>1. user[u].pc \in Building
    BY DEF At, Building
  <2>2. user[u].ptr \in Data /\ n # None /\ IsAt(n, "suspended")
    BY <2>1, BuiltData DEF BuildInv
  <2>3. n \in Threads
    BY <2>2, Fields
  <2> QED
    BY <2>1, <2>2, <2>3 DEF DataInv
<1>2. ASSUME NEW v \in Users, UserDoes(v), v # u PROVE thread'[n] = thread[n]
  <2>1. CASE Resumes(v)
    <3> DEFINE m == data[user[v].ptr].mSysThreadId
    <3>1. At(v, "resume") /\ user[v].pc \in Building /\ user[v].ptr \in Data /\ m \in Threads
          /\ \A k \in Threads \ {m} : thread'[k] = thread[k]
      BY <2>1, BuiltData DEF Resumes, At, Building, ThreadGoes, ThreadIs
    <3>2. thread[m].ptr = user[v].ptr
      BY <3>1, Apart DEF DataInv
    <3>3. user[v].ptr # user[u].ptr
      BY <1>1, <1>2, <3>1 DEF BuildInv
    <3> QED
      BY <1>1, <3>1, <3>2, <3>3
  <2>2. CASE \E m \in Threads : MakesThread(v, m)
    BY <1>1, <2>2 DEF MakesThread, ThreadIs, IsAt
  <2>3. CASE \E m \in Threads, q \in {"suspended", "created"} : Creates(v, m, q)
    BY <1>1, <2>3 DEF Creates, ThreadIs, IsAt
  <2>4. CASE UNCHANGED thread
    BY <2>4
  <2> QED
    BY <1>2, <2>1, <2>2, <2>3, <2>4 DEF UserDoes, Begins, Enumerates, Polled, Leaves, Closes, Zeroes, Allocates,
       Constructs, CreateFails, BeginEnds, Continues, Identifies, Publishes, ReleasesOld, Destroys, AddsRef, ReleasesEnumerated,
       UserHasFreed, Marks, CallsWait, CallsStatus, Assigns, WaitsOn, Joins
<1>3. ASSUME NEW m \in Threads, ThreadDoes(m) PROVE thread'[n] = thread[n]
  BY <1>1, <1>3 DEF ThreadDoes, Proceeds, ThreadHasFreed, ThreadGivesUp, DestroysWithin, ThreadGoes, ThreadIs, IsAt
<1> QED
  BY <1>1, <1>2, <1>3 DEF IsAt

\* A user in Begin, while others do their steps ...
LEMMA BuildsStillRightly ==
    ASSUME ThreadInv, NEW u \in Users, NEW d, d = user[u].ptr,
           \/ \E v \in Users : UserDoes(v) /\ v # u
           \/ \E n \in Threads : ThreadDoes(n)
    PROVE  BuildsRightly(u)'
<1> USE DEF ThreadInv
<1>1. /\ user'[u] = user[u] /\ platform' = platform
      /\ user[u].pc \in {"create", "name"} \/ (At(u, "created") /\ platform = "cpp11") => mpData'[u] = mpData[u]
      /\ mpData'[u] \in {mpData[u], None}
  <2>1. ASSUME NEW v \in Users, UserDoes(v), v # u PROVE user'[u] = user[u] /\ platform' = platform /\ mpData'[u] = mpData[u]
    BY <2>1, UserStepsAreOfOne DEF OnlyUser
  <2>2. ASSUME NEW n \in Threads, NEW o \in Users, DestroysWithin(n, o)
        PROVE  /\ user'[u] = user[u] /\ platform' = platform /\ mpData'[u] \in {mpData[u], None}
               /\ user[u].pc \in {"create", "name"} \/ (At(u, "created") /\ platform = "cpp11") => mpData'[u] = mpData[u]
    BY <2>2 DEF DestroysWithin, ObjectHas, At
  <2>3. ASSUME NEW n \in Threads, ThreadDoes(n), ~\E o \in Users : DestroysWithin(n, o)
        PROVE  user'[u] = user[u] /\ platform' = platform /\ mpData'[u] = mpData[u]
    BY <2>3 DEF ThreadDoes, Proceeds, ThreadHasFreed, ThreadGivesUp
  <2> QED
    BY <2>1, <2>2, <2>3
<1>2. /\ At(u, "construct") => data'[d] = data[d]
      /\ user[u].pc \in Building /\ ~At(u, "construct") =>
             /\ data'[d].mSysThreadId = data[d].mSysThreadId
             /\ data'[d].mThreadId \in {data[d].mThreadId, None}
  BY BuiltDataStays DEF At, Building
<1>3. At(u, "construct")' => data'[d].used /\ ~data'[d].live
  BY <1>1, <1>2 DEF BuildInv, At
<1>4. At(u, "create")' => /\ mpData'[u] = d /\ data'[d].mThreadId = None
                          /\ data'[d].mSysThreadId = None /\ platform' # "cpp11"
  BY <1>1, <1>2 DEF BuildInv, At, Building
<1>5. At(u, "identify")' => data'[d].mThreadId = None /\ data'[d].mSysThreadId # None
  BY <1>1, <1>2 DEF BuildInv, At, Building
<1>6. At(u, "identify")' /\ platform' # "cpp11" => mpData'[u] \in {d, None}
  BY <1>1 DEF BuildInv, At
<1>7. At(u, "resume")' => /\ data'[d].mSysThreadId # None /\ platform' = "pc"
                          /\ thread'[data'[d].mSysThreadId].pc = "suspended"
  <2>1. ASSUME At(u, "resume")'
        PROVE  /\ data'[d].mSysThreadId # None /\ platform' = "pc"
               /\ thread'[data'[d].mSysThreadId].pc = "suspended"
    <3>1. At(u, "resume") /\ user[u].pc \in Building /\ ~At(u, "construct")
      BY <1>1, <2>1 DEF At, Building
    <3>2. data'[d].mSysThreadId = data[d].mSysThreadId /\ data[d].mSysThreadId # None /\ platform = "pc"
      BY <1>2, <3>1 DEF BuildInv
    <3>3. thread'[data[d].mSysThreadId].pc = "suspended"
      BY <3>1, SuspendedStays DEF IsAt
    <3> QED
      BY <1>1, <3>2, <3>3
  <2> QED
    BY <2>1
<1>8. At(u, "publish")' => data'[d].mSysThreadId # None /\ platform' = "cpp11"
  BY <1>1, <1>2 DEF BuildInv, At, Building
<1>9. ASSUME user[u].pc \in {"identify", "publish"}, platform = "cpp11", NEW o \in Users PROVE ~HasObject(o, d)'
  <2>1. ~HasObject(o, d) /\ user[u].pc \in Building /\ d \in Data
    BY <1>9, BuiltData DEF BuildInv, Building
  <2>2. \A w \in Users : ~HasObject(w, d)
    BY <1>9 DEF BuildInv
  <2>3. ASSUME NEW v \in Users, UserDoes(v), v # u PROVE ~HasObject(o, d)'
    <3>1. ~(Constructs(v) \/ Publishes(v)) \/ user[v].ptr # d
      BY <2>1, <2>3 DEF Constructs, Publishes, At, BuildInv, Building
    <3> QED
      BY <2>1, <2>2, <2>3, <3>1, ObjectsGrow
  <2>4. ASSUME NEW n \in Threads, ThreadDoes(n) PROVE ~HasObject(o, d)'
    BY <2>1, <2>4, ObjectsGrow
  <2> QED
    BY <2>3, <2>4
<1>10. (At(u, "created")' /\ platform' = "cpp11") \/ At(u, "name")' => mpData'[u] = d
  BY <1>1 DEF BuildInv, At
<1>11. user'[u].ptr = d /\ user'[u].pc = user[u].pc
  BY <1>1
<1>12. user'[u].pc \in {"identify", "publish"} /\ platform' = "cpp11" => \A o \in Users : ~HasObject(o, d)'
  BY <1>1, <1>9
<1> QED
  BY <1>3, <1>4, <1>5, <1>6, <1>7, <1>8, <1>10, <1>11, <1>12 DEF BuildsRightly, IsAt

\* ... and as it does its own.
LEMMA BuildsRightlyOn ==
    ASSUME ThreadInv, NEW u \in Users, UserDoes(u)
    PROVE  BuildsRightly(u)'
<1> USE DEF ThreadInv
<1>0. TypeOK /\ platform' = platform
  BY UserStepsAreOfOne DEF OnlyUser
<1>1. CASE user'[u].pc \notin Building \cup {"created", "name"}
  BY <1>1 DEF BuildsRightly, At, Building
<1>2. CASE Allocates(u)
  <2>1. PICK e \in Data : /\ ~data[e].used
                          /\ data'[e] = [data[e] EXCEPT !.used = TRUE]
                          /\ UserIs(u, "construct", user[u].obj, e, user[u].next, user[u].answer)
    BY <1>2 DEF Allocates
  <2>2. data[e] \in DataRecords /\ ~data[e].live
    BY <1>0, <2>1, Fields DEF DataInv
  <2>3. data'[e].used = TRUE /\ data'[e].live = data[e].live
    BY <2>1, <2>2 DEF DataRecords
  <2>4. user'[u].pc = "construct" /\ user'[u].ptr = e
    BY <2>1 DEF UserIs
  <2> QED
    BY <2>2, <2>3, <2>4 DEF BuildsRightly, At
<1>3. CASE Constructs(u)
  <2> DEFINE e == user[u].ptr
  <2>1. /\ platform # "cpp11" /\ user'[u].pc = "create" /\ user'[u].ptr = e /\ mpData'[u] = e
        /\ data'[e] = [Fresh EXCEPT !.used = TRUE, !.live = TRUE, !.mnRefCount = 3]
    BY <1>3 DEF Constructs, UserGoes, UserIs, ObjectHas
  <2>2. data'[e].mThreadId = None /\ data'[e].mSysThreadId = None
    BY <2>1, FreshFields DEF DataRecords
  <2> QED
    BY <1>0, <2>1, <2>2 DEF BuildsRightly, At
<1>4. CASE \E n \in Threads, q \in {"suspended", "created"} : Creates(u, n, q)
  <2>1. PICK n \in Threads, q \in {"suspended", "created"} : Creates(u, n, q)
    BY <1>4
  <2> DEFINE e == user[u].ptr
  <2>2. /\ platform # "cpp11" /\ user'[u].ptr = e /\ mpData' = mpData
        /\ user'[u].pc = (CASE platform = "unix" -> "created" [] platform = "kettle" -> "identify" [] OTHER -> "resume")
        /\ q = (IF platform = "pc" THEN "suspended" ELSE "created") /\ ThreadIs(n, q, e, u)
        /\ data'[e].mSysThreadId = n /\ (platform = "kettle" => data'[e].mThreadId = data[e].mThreadId)
    BY <2>1 DEF Creates, UserGoes, UserIs
  <2>3. mpData[u] = e /\ data[e].mThreadId = None /\ platform \in {"unix", "kettle", "pc", "cpp11"}
    BY <1>0, <2>1, Fields DEF Creates, BuildInv, TypeOK
  <2>4. n # None /\ thread'[n].pc = q
    BY <2>2, Apart DEF ThreadIs
  <2> QED
    BY <1>0, <2>2, <2>3, <2>4 DEF BuildsRightly, At, IsAt
<1>5. CASE \E n \in Threads : MakesThread(u, n)
  <2> SUFFICES ASSUME NEW e, e = user[u].ptr PROVE BuildsRightly(u)'
    OBVIOUS
  <2>1. PICK n \in Threads : MakesThread(u, n)
    BY <1>5
  <2>2. /\ platform = "cpp11" /\ user'[u].pc = "identify" /\ user'[u].ptr = e /\ At(u, "construct")
        /\ data'[e] = [Fresh EXCEPT !.used = TRUE, !.live = TRUE, !.mnRefCount = 2, !.mSysThreadId = n]
    BY <2>1 DEF MakesThread, UserGoes, UserIs
  <2>3. data'[e].mThreadId = None /\ data'[e].mSysThreadId = n /\ n # None
    BY <2>2, FreshFields, Apart DEF DataRecords
  <2>4. e \in Data /\ ~data[e].live
    BY <2>2, BuiltData DEF BuildInv, Building, At
  <2>5. data[e].mnRefCount = 0
    BY <1>0, <2>4, LiveIfCounted
  <2>6. ASSUME NEW o \in Users PROVE ~HasObject(o, e)'
    <3>1. \A w \in Users : ~HasObject(w, e)
      BY <1>0, <2>4, <2>5, NobodyOwns
    <3>2. ~Constructs(u) /\ ~Publishes(u)
      BY <2>2 DEF Constructs, Publishes, At
    <3> QED
      BY <2>4, <3>1, <3>2, ObjectsGrow
  <2> QED
    BY <1>0, <2>2, <2>3, <2>6 DEF BuildsRightly, At
<1>6. CASE Identifies(u)
  <2> SUFFICES ASSUME NEW e, e = user[u].ptr PROVE BuildsRightly(u)'
    OBVIOUS
  <2>1. /\ At(u, "identify") /\ user'[u].pc = (IF platform = "cpp11" THEN "publish" ELSE "created")
        /\ user'[u].ptr = e /\ data'[e].mSysThreadId = data[e].mSysThreadId
    BY <1>6 DEF Identifies, UserGoes, UserIs, Life
  <2>2. data[e].mSysThreadId # None /\ e \in Data
    BY <2>1, BuiltData DEF BuildInv, Building, At
  <2>3. ASSUME NEW o \in Users, platform = "cpp11" PROVE ~HasObject(o, e)'
    <3>1. \A w \in Users : ~HasObject(w, e)
      BY <2>1, <2>3 DEF BuildInv, At
    <3>2. ~Constructs(u) /\ ~Publishes(u)
      BY <2>1 DEF Constructs, Publishes, At
    <3> QED
      BY <2>2, <3>1, <3>2, ObjectsGrow
  <2> QED
    BY <1>0, <2>1, <2>2, <2>3 DEF BuildsRightly, At
<1>7. CASE Publishes(u)
  <2>1. user'[u].pc = "created" /\ user'[u].ptr = user[u].ptr /\ mpData'[u] = user[u].ptr
    BY <1>7 DEF Publishes, UserGoes, UserIs, ObjectHas
  <2> QED
    BY <1>0, <2>1 DEF BuildsRightly, At
<1>8. CASE Resumes(u)
  <2>1. user'[u].pc = "created" /\ platform = "pc"
    BY <1>8 DEF Resumes, UserGoes, UserIs
  <2> QED
    BY <1>0, <2>1 DEF BuildsRightly, At
<1>9. CASE Continues(u)
  <2>1. user'[u].pc = "name" /\ user'[u].ptr = user[u].ptr /\ mpData'[u] = user[u].ptr
    BY <1>9 DEF Continues, UserGoes, UserIs
  <2> QED
    BY <2>1 DEF BuildsRightly, At
<1> QED
  BY <1>1, <1>2, <1>3, <1>4, <1>5, <1>6, <1>7, <1>8, <1>9, BuildersBuild DEF Builds

LEMMA BuildsApartOn ==
    ASSUME ThreadInv, NEW w \in Users, UserDoes(w), NEW u \in Users, NEW v \in Users
    PROVE  BuildApart(u, v)'
<1> USE DEF ThreadInv
<1>0. TypeOK
  OBVIOUS
<1>1. \A x \in Users \ {w} : user'[x] = user[x]
  BY UserStepsAreOfOne DEF OnlyUser
<1>2. user'[w].pc \in Building => Allocates(w) \/ (user[w].pc \in Building /\ user'[w].ptr = user[w].ptr)
  BY BuildersBuild
<1>3. ASSUME Allocates(w), NEW x \in Users \ {w}, user[x].pc \in Building PROVE user'[w].ptr # user[x].ptr
  <2>1. PICK e \in Data : ~data[e].used /\ UserIs(w, "construct", user[w].obj, e, user[w].next, user[w].answer)
    BY <1>3 DEF Allocates
  <2>2. data[user[x].ptr].used
    BY <1>3, BuiltData
  <2> QED
    BY <2>1, <2>2 DEF UserIs
<1>4. CASE u # w /\ v # w
  BY <1>1, <1>4 DEF BuildApart, BuildInv
<1>5. CASE u = w /\ v # w
  BY <1>1, <1>2, <1>3, <1>5 DEF BuildApart, BuildInv
<1>6. CASE u # w /\ v = w
  BY <1>1, <1>2, <1>3, <1>6 DEF BuildApart, BuildInv
<1>7. CASE u = w /\ v = w
  BY <1>7 DEF BuildApart
<1> QED
  BY <1>4, <1>5, <1>6, <1>7

LEMMA BuildingGoesOn ==
    ASSUME ThreadInv
    PROVE  /\ \A u \in Users : UserDoes(u) => BuildInv'
           /\ \A n \in Threads : ThreadDoes(n) => BuildInv'
<1>0. (\A u \in Users : BuildsRightly(u)' /\ \A v \in Users : BuildApart(u, v)') => BuildInv'
  BY DEF BuildInv, BuildsRightly, BuildApart
<1>1. ASSUME NEW w \in Users, UserDoes(w), NEW u \in Users
      PROVE  BuildsRightly(u)' /\ \A v \in Users : BuildApart(u, v)'
  <2>1. CASE u = w
    BY <1>1, <2>1, BuildsRightlyOn, BuildsApartOn
  <2>2. CASE u # w
    BY <1>1, <2>2, BuildsStillRightly, BuildsApartOn
  <2> QED
    BY <2>1, <2>2
<1>2. ASSUME NEW n \in Threads, ThreadDoes(n), NEW u \in Users
      PROVE  BuildsRightly(u)' /\ \A v \in Users : BuildApart(u, v)'
  <2>1. BuildsRightly(u)'
    BY <1>2, BuildsStillRightly
  <2>2. user' = user
    BY <1>2 DEF ThreadDoes, Proceeds, ThreadHasFreed, ThreadGivesUp, DestroysWithin
  <2>3. \A v \in Users : BuildApart(u, v)'
    BY <2>2 DEF BuildApart, ThreadInv, BuildInv
  <2> QED
    BY <2>1, <2>3
<1> QED
  BY <1>0, <1>1, <1>2

-----------------------------------------------------------------------------
(* Threads, objects and their data.                                        *)

\* Data of a thread stays that thread's until it is freed.
LEMMA SysStays ==
    ASSUME ThreadInv, NEW d \in Data, data[d].mSysThreadId # None
    PROVE  /\ \A u \in Users : UserDoes(u) =>
                 \/ data'[d].mSysThreadId = data[d].mSysThreadId
                 \/ IsFreed(d) /\ At(u, "free") /\ d = user[u].ptr
           /\ \A n \in Threads : ThreadDoes(n) =>
                 \/ data'[d].mSysThreadId = data[d].mSysThreadId
                 \/ IsFreed(d) /\ IsAt(n, "free") /\ d = thread[n].ptr
<1> USE DEF ThreadInv
<1>1. data[d].live /\ data[d].used
  BY DeadFields DEF DataInv
<1>2. ASSUME NEW u \in Users, IsMade(u, d) PROVE data'[d].mSysThreadId = data[d].mSysThreadId
  <2>1. ~(\E n \in Threads, q \in {"suspended", "created"} : Creates(u, n, q) /\ d = user[u].ptr)
    BY DEF Creates, BuildInv
  <2>2. ~((Constructs(u) \/ \E n \in Threads : MakesThread(u, n)) /\ d = user[u].ptr)
    BY <1>1 DEF Constructs, MakesThread, BuildInv
  <2>3. Identifies(u) /\ d = user[u].ptr
    BY <1>1, <1>2, <2>1, <2>2 DEF IsMade
  <2> QED
    BY <2>3 DEF Identifies, Life
<1> QED
  BY <1>2, DataMoves DEF Lives, Life

ThreadIsSound(n) ==
    /\ ~IsAt(n, "unborn") => thread[n].ptr \in Data /\ thread[n].by \in Users
    /\ thread[n].pc \notin {"unborn", "exited"} => data[thread[n].ptr].mSysThreadId = n

LEMMA NewThreadIsSound ==
    ASSUME ThreadInv, NEW u \in Users, NEW n \in Threads,
           MakesThread(u, n) \/ (\E q \in {"suspended", "created"} : Creates(u, n, q))
    PROVE  ThreadIsSound(n)'
<1> USE DEF ThreadInv
<1> DEFINE e == user[u].ptr
<1>1. e \in Data
  BY BuiltData DEF MakesThread, Creates, At, Building
<1>2. \E p \in {"suspended", "created"} : ThreadIs(n, p, e, u)
  BY DEF MakesThread, Creates
<1>3. data'[e].mSysThreadId = n
  <2>1. CASE MakesThread(u, n)
    <3>1. data'[e] = [Fresh EXCEPT !.used = TRUE, !.live = TRUE, !.mnRefCount = 2, !.mSysThreadId = n]
      BY <2>1 DEF MakesThread
    <3> QED
      BY <3>1, FreshFields DEF DataRecords
  <2>2. CASE \E q \in {"suspended", "created"} : Creates(u, n, q)
    BY <2>2 DEF Creates
  <2> QED
    BY <2>1, <2>2
<1>4. thread'[n].ptr = e /\ thread'[n].by = u
  BY <1>2 DEF ThreadIs
<1> QED
  BY <1>1, <1>3, <1>4 DEF ThreadIsSound

\* A thread that lives on keeps its data.
LEMMA LiveThreadStays ==
    ASSUME ThreadInv, NEW n \in Threads, ~IsAt(n, "unborn"),
           \/ \E u \in Users : UserDoes(u)
           \/ \E m \in Threads : ThreadDoes(m)
    PROVE  ThreadIsSound(n)'
<1> USE DEF ThreadInv
<1> DEFINE d == thread[n].ptr
<1>1. /\ d \in Data /\ thread[n].by \in Users
      /\ thread'[n].ptr = d /\ thread'[n].by = thread[n].by /\ thread'[n].pc # "unborn"
      /\ IsAt(n, "exited") => thread'[n].pc = "exited"
  BY ThreadsAlwaysGoOn DEF ThreadsGoOn, LiveThreadInv
<1>2. CASE thread'[n].pc = "exited"
  BY <1>1, <1>2 DEF ThreadIsSound, IsAt
<1>3. CASE thread'[n].pc # "exited"
  <2>1. thread[n].pc \notin {"unborn", "exited"} /\ data[d].mSysThreadId = n /\ n # None
    BY <1>1, <1>3, Apart DEF LiveThreadInv, IsAt
  <2>2. IsAt(n, "free") \/ ~(data[d].mnRefCount = 0)
    BY <1>1, <2>1, NobodyOwns DEF Runs, IsAt
  <2>3. ASSUME NEW u \in Users, UserDoes(u), IsFreed(d), At(u, "free"), d = user[u].ptr PROVE FALSE
    BY <2>2, <2>3 DEF IsFreed, FreeInv
  <2>4. ASSUME NEW m \in Threads, ThreadDoes(m), IsFreed(d), IsAt(m, "free"), d = thread[m].ptr PROVE FALSE
    <3>1. data[d].mSysThreadId = m
      BY <2>4 DEF LiveThreadInv, IsAt
    <3>2. m = n
      BY <2>1, <3>1
    <3>3. ThreadHasFreed(n)
      BY <2>4, <3>2 DEF ThreadDoes, Proceeds, ThreadGivesUp, DestroysWithin, IsAt
    <3> QED
      BY <1>3, <3>3 DEF ThreadHasFreed, ThreadGoes, ThreadIs
  <2>5. data'[d].mSysThreadId = n
    BY <1>1, <2>1, <2>3, <2>4, SysStays
  <2> QED
    BY <1>1, <2>5 DEF ThreadIsSound
<1> QED
  BY <1>2, <1>3

LEMMA LiveThreadsGoOn ==
    ASSUME ThreadInv
    PROVE  /\ \A u \in Users : UserDoes(u) => LiveThreadInv'
           /\ \A n \in Threads : ThreadDoes(n) => LiveThreadInv'
<1>0. LiveThreadInv' <=> \A n \in Threads : ThreadIsSound(n)'
  BY DEF LiveThreadInv, ThreadIsSound
<1>1. ASSUME NEW u \in Users, UserDoes(u), NEW n \in Threads PROVE ThreadIsSound(n)'
  <2>1. CASE ~IsAt(n, "unborn")
    BY <1>1, <2>1, LiveThreadStays
  <2>2. CASE IsAt(n, "unborn") /\ thread'[n] = thread[n]
    BY <2>2 DEF ThreadIsSound, IsAt
  <2>3. CASE IsAt(n, "unborn") /\ thread'[n] # thread[n]
    <3>1. MakesThread(u, n) \/ (\E q \in {"suspended", "created"} : Creates(u, n, q))
      <4>1. CASE Resumes(u)
        BY <2>3, <4>1 DEF Resumes, ThreadGoes, ThreadIs, IsAt
      <4>2. CASE \E m \in Threads : MakesThread(u, m)
        BY <2>3, <4>2 DEF MakesThread, ThreadIs
      <4>3. CASE \E m \in Threads, q \in {"suspended", "created"} : Creates(u, m, q)
        BY <2>3, <4>3 DEF Creates, ThreadIs
      <4> QED
        BY <1>1, <2>3, <4>1, <4>2, <4>3 DEF UserDoes, Begins, Enumerates, Polled, Leaves, Closes, Zeroes, Allocates,
           Constructs, CreateFails, BeginEnds, Continues, Identifies, Publishes, ReleasesOld, Destroys, AddsRef, ReleasesEnumerated,
           UserHasFreed, Marks, CallsWait, CallsStatus, Assigns, WaitsOn, Joins
    <3> QED
      BY <3>1, NewThreadIsSound
  <2> QED
    BY <2>1, <2>2, <2>3
<1>2. ASSUME NEW m \in Threads, ThreadDoes(m), NEW n \in Threads PROVE ThreadIsSound(n)'
  <2>1. CASE ~IsAt(n, "unborn")
    BY <1>2, <2>1, LiveThreadStays
  <2>2. CASE IsAt(n, "unborn")
    <3>1. thread'[n] = thread[n]
      BY <1>2, <2>2 DEF ThreadDoes, Proceeds, ThreadHasFreed, ThreadGivesUp, DestroysWithin, ThreadGoes, ThreadIs, IsAt
    <3> QED
      BY <2>2, <3>1 DEF ThreadIsSound, IsAt
  <2> QED
    BY <2>1, <2>2
<1> QED
  BY <1>0, <1>1, <1>2

\* Data an object has.
LEMMA ObjectDataStays ==
    ASSUME ThreadInv, NEW o \in Users, NEW d \in Data, HasObject(o, d),
           \/ \E u \in Users : UserDoes(u)
           \/ \E n \in Threads : ThreadDoes(n)
    PROVE  /\ data'[d].mThreadId \notin Users
           /\ data[d].mSysThreadId # None => data'[d].mSysThreadId # None
<1> USE DEF ThreadInv
<1>1. data[d].live /\ data[d].used /\ data[d].mnRefCount > 0 /\ data[d].mThreadId \notin Users
  BY LiveIfOwned DEF ObjectInv, External
<1>2. ~IsFreed(d)
  BY <1>1 DEF IsFreed
<1>3. ASSUME NEW u \in Users, IsMade(u, d) PROVE data'[d].mThreadId \notin Users
  <2>1. CASE \E n \in Threads, q \in {"suspended", "created"} : Creates(u, n, q) /\ d = user[u].ptr
    BY <1>1, <2>1, Apart DEF Creates
  <2>2. CASE Identifies(u) /\ d = user[u].ptr
    <3>1. data'[d].mThreadId = data[d].mSysThreadId /\ data[d].mSysThreadId \in Threads \cup {None}
      BY <2>2, Fields DEF Identifies
    <3> QED
      BY <3>1, Apart
  <2>3. ~((Constructs(u) \/ \E n \in Threads : MakesThread(u, n)) /\ d = user[u].ptr)
    BY <1>1 DEF Constructs, MakesThread, BuildInv
  <2> QED
    BY <1>1, <1>3, <2>1, <2>2, <2>3 DEF IsMade
<1>4. data'[d].mThreadId \notin Users
  BY <1>1, <1>2, <1>3, DataMoves, Apart DEF SameName
<1>5. data[d].mSysThreadId # None => data'[d].mSysThreadId # None
  BY <1>2, SysStays
<1> QED
  BY <1>4, <1>5

LEMMA ObjectsGoOn ==
    ASSUME ThreadInv,
           \/ \E u \in Users : UserDoes(u)
           \/ \E n \in Threads : ThreadDoes(n)
    PROVE  ObjectInv'
<1> USE DEF ThreadInv
<1>0. TypeOK
  OBVIOUS
<1>1. ASSUME NEW o \in Users, NEW d \in Data, HasObject(o, d)'
      PROVE  data'[d].mThreadId \notin Users /\ (user'[o].pc # "create" => data'[d].mSysThreadId # None)
  <2>1. CASE HasObject(o, d)
    <3>1. data'[d].mThreadId \notin Users /\ (data[d].mSysThreadId # None => data'[d].mSysThreadId # None)
      BY <2>1, ObjectDataStays
    <3>2. CASE ~At(o, "create")
      BY <2>1, <3>1, <3>2 DEF ObjectInv
    <3>3. CASE At(o, "create") /\ user'[o].pc # "create"
      <4>1. PICK u \in Users : UserDoes(u) /\ u = o
        <5>1. ASSUME NEW n \in Threads, ThreadDoes(n) PROVE user' = user
          BY <5>1 DEF ThreadDoes, Proceeds, ThreadHasFreed, ThreadGivesUp, DestroysWithin
        <5>2. ASSUME NEW u \in Users, UserDoes(u), u # o PROVE user'[o] = user[o]
          BY <5>2, UserStepsAreOfOne DEF OnlyUser
        <5> QED
          BY <3>3, <5>1, <5>2 DEF At
      <4>2. (\E n \in Threads, q \in {"suspended", "created"} : Creates(o, n, q)) \/ CreateFails(o) \/ user' = user
        BY <3>3, <4>1 DEF UserDoes, Begins, Enumerates, Polled, Leaves, Closes, Zeroes, Allocates, Constructs,
           Resumes, BeginEnds, Continues, Identifies, Publishes, ReleasesOld, Destroys, AddsRef, ReleasesEnumerated,
           UserHasFreed, Marks, CallsWait, CallsStatus, Assigns, WaitsOn, Joins, MakesThread, At, WaitLabels
      <4>3. CASE CreateFails(o)
        BY <1>1, <4>3, Apart DEF CreateFails, ObjectHas, HasObject
      <4>4. CASE \E n \in Threads, q \in {"suspended", "created"} : Creates(o, n, q)
        <5>1. mpData[o] = d /\ mpData[o] = user[o].ptr
          BY <2>1, <3>3 DEF HasObject, BuildInv
        <5> QED
          BY <3>1, <4>4, <5>1, Apart DEF Creates
      <4> QED
        BY <3>3, <4>2, <4>3, <4>4 DEF At
    <3> QED
      BY <3>1, <3>2, <3>3
  <2>2. ASSUME NEW u \in Users, o = u, d = user[u].ptr, Constructs(u)
        PROVE  data'[d].mThreadId \notin Users /\ user'[o].pc = "create"
    <3>1. user'[u].pc = "create" /\ data'[d] = [Fresh EXCEPT !.used = TRUE, !.live = TRUE, !.mnRefCount = 3]
      BY <2>2 DEF Constructs, UserGoes, UserIs
    <3>2. data'[d].mThreadId = None
      BY <3>1, FreshFields DEF DataRecords
    <3> QED
      BY <2>2, <3>1, <3>2, Apart
  <2>3. ASSUME NEW u \in Users, o = u, d = user[u].ptr, Publishes(u)
        PROVE  data'[d].mThreadId \notin Users /\ data'[d].mSysThreadId # None
    BY <2>3 DEF Publishes, BuildInv, DataInv
  <2>4. ASSUME NEW u \in Users, NEW v \in Users, Assigns(u, v), HasObject(v, d)
        PROVE  data'[d].mThreadId \notin Users /\ data'[d].mSysThreadId # None
    BY <2>4 DEF Assigns, Life, SameName, ObjectInv, External, At
  <2> QED
    BY <1>1, <2>1, <2>2, <2>3, <2>4, ObjectsGrow
<1> QED
  BY <1>1 DEF ObjectInv, External, At

-----------------------------------------------------------------------------
(* Calls that wait.                                                        *)

WaitersWait(u) ==
    \/ user'[u].pc \notin Waiting \cup {"poll"}
    \/ user'[u] = user[u]
    \/ /\ user[u].pc \in Waiting /\ user'[u].pc \in Waiting /\ user'[u].obj = user[u].obj
       /\ user'[u].pc \in WaitLabels => user[u].pc \in WaitLabels
    \/ Polled(u)
    \/ \E o \in Users : CallsWait(u, o) \/ CallsStatus(u, o)

\* Who waits was waiting, has polled, or has just called.
LEMMA WaitersAreCallers ==
    ASSUME ThreadInv, NEW u \in Users, UserDoes(u)
    PROVE  WaitersWait(u)
<1>1. CASE Begins(u) \/ Leaves(u) \/ AddsRef(u) \/ Continues(u) \/ Constructs(u) \/ Resumes(u) \/ Identifies(u) \/ Publishes(u)
  <2>1. user'[u].pc \in {"idle", "allocate", "release", "create", "created", "publish", "name"}
    BY <1>1 DEF Begins, Leaves, AddsRef, Continues, Constructs, Resumes, Identifies, Publishes, UserReturns, UserGoes, UserIs
  <2> QED
    BY <2>1 DEF WaitersWait, Waiting, WaitLabels, StatusLabels
<1>2. CASE Enumerates(u) \/ Allocates(u)
  <2>1. PICK p \in {"enumerate", "construct"}, d \in Data :
           UserIs(u, p, user[u].obj, d, user[u].next, user[u].answer)
    BY <1>2, Apart DEF Enumerates, Allocates
  <2>2. user'[u].pc \in {"enumerate", "construct"}
    BY <2>1 DEF UserIs
  <2> QED
    BY <2>2 DEF WaitersWait, Waiting, WaitLabels, StatusLabels
<1>3. CASE CreateFails(u) \/ BeginEnds(u) \/ ReleasesOld(u) \/ Destroys(u) \/ ReleasesEnumerated(u)
  <2>1. \E e, k : GivesUp(u, e, k, "idle") \/ GivesUp(u, e, k, "allocate")
    BY <1>3 DEF CreateFails, BeginEnds, ReleasesOld, Destroys, ReleasesEnumerated
  <2>2. user'[u].pc \in {"idle", "allocate", "free"}
    BY <2>1 DEF GivesUp, UserReturns, UserGoes, UserIs
  <2> QED
    BY <2>2 DEF WaitersWait, Waiting, WaitLabels, StatusLabels
<1>4. CASE UserHasFreed(u)
  <2>1. user[u].next \in {"idle", "allocate"}
    BY DEF ThreadInv, UserInv
  <2>2. user'[u].pc \in {"idle", "allocate"}
    BY <1>4, <2>1 DEF UserHasFreed, UserReturns, UserIs
  <2> QED
    BY <2>2 DEF WaitersWait, Waiting, WaitLabels, StatusLabels
<1>5. CASE \E n \in Threads : MakesThread(u, n) \/ \E q \in {"suspended", "created"} : Creates(u, n, q)
  <2>1. user'[u].pc \in {"created", "identify", "resume"}
    BY <1>5 DEF MakesThread, Creates, UserGoes, UserIs
  <2> QED
    BY <2>1 DEF WaitersWait, Waiting, WaitLabels, StatusLabels
<1>6. CASE Marks(u)
  BY <1>6 DEF WaitersWait, Marks
<1>7. ASSUME NEW v \in Users, Assigns(u, v) PROVE WaitersWait(u)
  <2>1. user'[u].pc = "free" \/ user' = user
    BY <1>7 DEF Assigns, UserIs
  <2> QED
    BY <2>1 DEF WaitersWait, Waiting, WaitLabels, StatusLabels
<1>8. CASE Closes(u) \/ Zeroes(u)
  <2>1. CASE Closes(u) /\ At(u, "close")
    BY <2>1 DEF WaitersWait, Closes, UserGoes, UserIs, At, Waiting, WaitLabels, StatusLabels
  <2>2. CASE Closes(u) /\ ~At(u, "close")
    BY <2>2 DEF WaitersWait, Closes, UserGoes, UserIs, At, Waiting, WaitLabels, StatusLabels
  <2>3. CASE Zeroes(u) /\ At(u, "zero")
    BY <2>3 DEF WaitersWait, Zeroes, UserIs, At, Waiting, WaitLabels, StatusLabels
  <2>4. CASE Zeroes(u) /\ ~At(u, "zero")
    BY <2>4 DEF WaitersWait, Zeroes, UserReturns, UserIs, At, Waiting, WaitLabels, StatusLabels
  <2> QED
    BY <1>8, <2>1, <2>2, <2>3, <2>4
<1>9. ASSUME NEW p, NEW a, WaitsOn(u, p, a) PROVE WaitersWait(u)
  BY <1>9 DEF WaitersWait, WaitsOn, UserIs, Waiting
<1>10. ASSUME NEW n \in Threads, Joins(u, n) PROVE WaitersWait(u)
  <2>1. PICK p \in {"unlockRun", "return"}, a \in Answers :
          UserIs(u, p, user[u].obj, user[u].ptr, user[u].next, a)
    BY <1>10 DEF Joins
  <2>2. user'[u].pc = p /\ user'[u].obj = user[u].obj
    BY <2>1 DEF UserIs
  <2> QED
    BY <1>10, <2>2 DEF WaitersWait, Joins, Waiting, WaitLabels
<1>11. CASE Polled(u) \/ \E o \in Users : CallsWait(u, o) \/ CallsStatus(u, o)
  BY <1>11 DEF WaitersWait
<1> QED
  BY <1>1, <1>2, <1>3, <1>4, <1>5, <1>6, <1>7, <1>8, <1>9, <1>10, <1>11 DEF UserDoes

\* So do those who do not move.
LEMMA OthersStay ==
    ASSUME ThreadInv, NEW w \in Users
    PROVE  /\ \A u \in Users : UserDoes(u) /\ u # w => user'[w] = user[w] /\ mpData'[w] = mpData[w]
           /\ \A n \in Threads : ThreadDoes(n) => user' = user
           /\ (\E u \in Users : UserDoes(u)) \/ (\E n \in Threads : ThreadDoes(n)) => WaitersWait(w) /\ platform' = platform
<1>0. TypeOK
  BY DEF ThreadInv
<1>1. ASSUME NEW u \in Users, UserDoes(u)
      PROVE  (u # w => user'[w] = user[w] /\ mpData'[w] = mpData[w]) /\ WaitersWait(w) /\ platform' = platform
  <2>1. OnlyUser(u)
    BY <1>0, <1>1, UserStepsAreOfOne
  <2>2. CASE u = w
    BY <1>1, <2>1, <2>2, WaitersAreCallers DEF OnlyUser
  <2>3. CASE u # w
    BY <2>1, <2>3 DEF OnlyUser, WaitersWait
  <2> QED
    BY <2>2, <2>3
<1>2. ASSUME NEW n \in Threads, ThreadDoes(n) PROVE user' = user /\ WaitersWait(w) /\ platform' = platform
  <2>1. user' = user /\ platform' = platform
    BY <1>2 DEF ThreadDoes, Proceeds, ThreadHasFreed, ThreadGivesUp, DestroysWithin
  <2> QED
    BY <2>1 DEF WaitersWait
<1> QED
  BY <1>1, <1>2

\* Who ends polling, or calls, finds data that is not being made.
LEMMA CallersFindData ==
    ASSUME ThreadInv, NEW w \in Users, NEW o, NEW d,
           \/ Polled(w) /\ o = user[w].obj /\ d = mpData[o]
           \/ CallsWait(w, o) /\ o \in Users /\ d = mpData[o] /\ d # None
           \/ CallsStatus(w, o) /\ o \in Users /\ d = mpData[o]
    PROVE  o \in Users /\ d \in Data /\ Settled(o, d) /\ Settled(o, d)' /\ Of(w)' = d
<1>0. TypeOK /\ UserInv /\ BuildInv /\ WaitInv
  BY DEF ThreadInv
<1>1. CASE Polled(w) /\ o = user[w].obj /\ d = mpData[o]
  <2>1. o \in Users /\ d \in Data /\ d # None
    BY <1>0, <1>1, Fields DEF Polled, Of
  <2>2. HasObject(o, d) /\ ~At(o, "release") /\ At(w, "poll")
    BY <1>0, <1>1 DEF Polled, WaitInv, Of
  <2>3. user[o].pc \notin {"create", "identify", "publish"}
    <3>1. CASE platform = "cpp11"
      BY <1>0, <2>1, <2>2, <3>1 DEF HasObject, BuildInv, At
    <3>2. CASE platform # "cpp11" /\ ~InBegin(o)
      BY <1>1, <3>2 DEF InBegin, BeginLabels
    <3>3. CASE platform # "cpp11" /\ data[d].mThreadId # None
      <4>1. user[o].pc \in {"create", "identify"} => mpData[o] = user[o].ptr /\ data[user[o].ptr].mThreadId = None
        BY <1>0, <1>1, <2>1, <3>3 DEF BuildInv, At
      <4>2. ~At(o, "publish")
        BY <1>0, <2>1, <3>3 DEF BuildInv
      <4> QED
        BY <1>1, <3>3, <4>1, <4>2 DEF At
    <3> QED
      BY <1>1, <3>1, <3>2, <3>3 DEF Polled, Of, TheData
  <2>4. Settled(o, d)
    BY <1>1, <2>2, <2>3 DEF Settled, At
  <2>5. /\ user'[w].pc = "check" /\ user'[w].obj = o /\ user'[w].next = user[w].next
        /\ (\A v \in Users \ {w} : user'[v] = user[v]) /\ mpData' = mpData /\ platform' = platform
    BY <1>1 DEF Polled, UserGoes, UserIs
  <2>6. Settled(o, d)'
    BY <2>1, <2>4, <2>5 DEF Settled, HasObject
  <2> QED
    BY <1>1, <2>1, <2>4, <2>5, <2>6 DEF Of
<1>2. ASSUME NEW p \in {"check", "closeForStatus"}, o \in Users, d = mpData[o], d # None, ~InBegin(o), At(w, "idle"),
             UserIs(w, p, o, user[w].ptr, user[w].next, user[w].answer), UNCHANGED <<platform, mpData>>
      PROVE  o \in Users /\ d \in Data /\ Settled(o, d) /\ Settled(o, d)' /\ Of(w)' = d
  <2>1. d \in Data
    BY <1>0, <1>2, Fields
  <2>2. /\ user[o].pc \notin {"release", "allocate", "construct", "create", "identify", "publish"}
        /\ user[o].next # "allocate" /\ user[w].next # "allocate"
    BY <1>0, <1>2 DEF InBegin, BeginLabels, UserInv, At
  <2>3. Settled(o, d)
    BY <1>2, <2>2 DEF Settled, HasObject
  <2>4. /\ user'[w].pc = p /\ user'[w].obj = o /\ user'[w].next = user[w].next
        /\ \A v \in Users \ {w} : user'[v] = user[v]
    BY <1>2 DEF UserIs
  <2>5. Settled(o, d)'
    BY <1>2, <2>2, <2>3, <2>4 DEF Settled, HasObject
  <2> QED
    BY <1>2, <2>1, <2>3, <2>4, <2>5 DEF Of
<1> QED
  BY <1>0, <1>1, <1>2 DEF CallsWait, CallsStatus

WaitsWell(u) ==
    /\ user[u].pc \in Waiting => Of(u) \in Data /\ Settled(user[u].obj, Of(u))
    /\ At(u, "poll") => Found(user[u].obj)
WaitsApart(u, v) ==
    /\ user[u].pc \in WaitLabels \cup {"poll"} /\ user[v].pc \in WaitLabels \cup {"poll"} =>
          user[u].obj # user[v].obj /\ (Of(u) # None => Of(u) # Of(v))
    /\ user[u].pc \in Waiting /\ user[v].pc \in Waiting => Of(u) # Of(v)

LEMMA WaitersWaitWell ==
    ASSUME ThreadInv, NEW w \in Users,
           \/ \E u \in Users : UserDoes(u)
           \/ \E n \in Threads : ThreadDoes(n)
    PROVE  WaitsWell(w)'
<1>0. TypeOK /\ WaitersWait(w)
  BY OthersStay DEF ThreadInv
<1>1. CASE user'[w].pc \notin Waiting \cup {"poll"}
  BY <1>1 DEF WaitsWell, At
<1>2. CASE user[w].pc \in Waiting /\ user'[w].pc \in Waiting /\ user'[w].obj = user[w].obj
  <2> SUFFICES ASSUME NEW o, o = user[w].obj, NEW d, d = Of(w)
               PROVE  WaitsWell(w)'
    OBVIOUS
  <2>1. d \in Data /\ Settled(o, d)'
    BY <1>2, WaitedObjectsStay
  <2>2. Of(w)' = d /\ user'[w].obj = o
    BY <1>2, <2>1 DEF Settled, Of
  <2>3. user'[w].pc # "poll"
    BY <1>2 DEF Waiting, WaitLabels, StatusLabels
  <2>4. Settled(user[w].obj, Of(w))'
    BY <2>1, <2>2 DEF Settled, HasObject
  <2> QED
    BY <2>1, <2>2, <2>3, <2>4 DEF WaitsWell, At
<1>3. CASE user'[w] = user[w] /\ user'[w].pc = "poll"
  <2> SUFFICES ASSUME NEW o, o = user[w].obj
               PROVE  WaitsWell(w)'
    OBVIOUS
  <2>1. Found(o)'
    BY <1>3, PolledObjectsStay DEF At
  <2>2. Found(user[w].obj)'
    BY <1>3, <2>1 DEF Found, HasObject, At
  <2>3. user'[w].pc \notin Waiting
    BY <1>3 DEF Waiting, WaitLabels, StatusLabels
  <2> QED
    BY <2>2, <2>3 DEF WaitsWell
<1>4. ASSUME NEW o \in Users, CallsWait(w, o), mpData[o] = None PROVE WaitsWell(w)'
  <2>1. user'[w].pc = "poll" /\ user'[w].obj = o /\ mpData' = mpData
    BY <1>4 DEF CallsWait, UserIs
  <2>2. Found(user[w].obj)' /\ user'[w].pc \notin Waiting
    BY <1>4, <2>1 DEF Found, Waiting, WaitLabels, StatusLabels
  <2> QED
    BY <2>2 DEF WaitsWell
<1>5. ASSUME NEW o \in Users,
             \/ Polled(w) /\ o = user[w].obj
             \/ CallsWait(w, o) /\ mpData[o] # None
             \/ CallsStatus(w, o)
      PROVE  WaitsWell(w)'
  <2> SUFFICES ASSUME NEW d, d = mpData[o]
               PROVE  WaitsWell(w)'
    OBVIOUS
  <2>1. d \in Data /\ Settled(o, d)' /\ Of(w)' = d
    BY <1>5, CallersFindData
  <2>2. user'[w].pc # "poll" /\ user'[w].obj = o
    BY <1>5 DEF Polled, CallsWait, CallsStatus, UserGoes, UserIs
  <2>3. Settled(user[w].obj, Of(w))'
    BY <2>1, <2>2 DEF Settled, HasObject
  <2> QED
    BY <2>1, <2>2, <2>3 DEF WaitsWell, At
<1> QED
  <2>1. user[w].obj \in Users
    BY <1>0, Fields
  <2> QED
    BY <1>0, <1>1, <1>2, <1>3, <1>4, <1>5, <2>1 DEF WaitersWait

Calls(u) == \E o \in Users : CallsWait(u, o) \/ CallsStatus(u, o)

\* The data that a call under way is for only changes when Begin gives new data
\* to an object that is polled.
LEMMA WaitedFor ==
    ASSUME ThreadInv, NEW v \in Users, user'[v].pc \in Waiting \cup {"poll"},
           \/ \E u \in Users : UserDoes(u)
           \/ \E n \in Threads : ThreadDoes(n)
    PROVE  \/ Calls(v)
           \/ /\ user[v].pc \in Waiting \cup {"poll"} /\ user'[v].obj = user[v].obj
              /\ user'[v].pc \in WaitLabels \cup {"poll"} => user[v].pc \in WaitLabels \cup {"poll"}
              /\ user'[v].pc \in Waiting => user[v].pc \in Waiting \/ Polled(v)
              /\ \/ Of(v)' = Of(v)
                 \/ At(v, "poll") /\ ~Polled(v) /\ Of(v)' = None
                 \/ /\ At(v, "poll") /\ ~Polled(v) /\ Of(v)' = user[user[v].obj].ptr
                    /\ Constructs(user[v].obj) \/ Publishes(user[v].obj)
<1>0. TypeOK /\ WaitersWait(v)
  BY OthersStay DEF ThreadInv
<1>1. CASE user[v].pc \in Waiting /\ user'[v].pc \in Waiting /\ user'[v].obj = user[v].obj
           /\ (user'[v].pc \in WaitLabels => user[v].pc \in WaitLabels)
  <2> SUFFICES ASSUME NEW o, o = user[v].obj, NEW d, d = Of(v)
               PROVE  Of(v)' = d
    BY <1>1, Labels DEF Waiting, WaitLabels, StatusLabels
  <2>1. Settled(o, d)'
    BY <1>1, WaitedObjectsStay
  <2> QED
    BY <1>1, <2>1 DEF Settled, Of
<1>2. CASE user'[v] = user[v] /\ At(v, "poll")
  <2>1. \/ mpData'[user[v].obj] \in {mpData[user[v].obj], None}
        \/ /\ mpData'[user[v].obj] = user[user[v].obj].ptr
           /\ Constructs(user[v].obj) \/ Publishes(user[v].obj)
    BY <1>2, PolledObjectsStay
  <2>2. Of(v)' = mpData'[user[v].obj] /\ Of(v) = mpData[user[v].obj]
    BY <1>2 DEF Of
  <2>3. ~Polled(v)
    <3>1. Polled(v) => user'[v].pc = "check"
      BY DEF Polled, UserGoes, UserIs
    <3> QED
      BY <1>2, <3>1 DEF At
  <2> QED
    BY <1>2, <2>1, <2>2, <2>3 DEF At, Waiting, WaitLabels, StatusLabels
<1>3. CASE Polled(v)
  <2>1. user'[v].pc = "check" /\ user'[v].obj = user[v].obj /\ mpData' = mpData /\ At(v, "poll")
    BY <1>3 DEF Polled, UserGoes, UserIs
  <2> QED
    BY <1>3, <2>1 DEF Of, At
<1> QED
  BY <1>0, <1>1, <1>2, <1>3 DEF WaitersWait, Calls, At

\* What Begin gives to its object was nobody's.
LEMMA NewDataIsNobodys ==
    ASSUME ThreadInv, NEW u \in Users, Constructs(u) \/ Publishes(u)
    PROVE  /\ \A o \in Users : ~HasObject(o, user[u].ptr)
           /\ \A v \in Users : user[v].pc \in Waiting \cup {"poll"} => Of(v) # user[u].ptr
<1> USE DEF ThreadInv
<1> DEFINE d == user[u].ptr
<1>0. TypeOK /\ UserInv /\ BuildInv /\ WaitInv /\ CountInv /\ DataInv
  OBVIOUS
<1>1. d \in Data /\ d # None
  BY Apart DEF UserInv, Constructs, Publishes, At, Building
<1>2. \A o \in Users : ~HasObject(o, d)
  <2>1. CASE Constructs(u)
    <3>1. ~data[d].live
      BY <1>0, <2>1 DEF Constructs, BuildInv
    <3> QED
      BY <1>0, <1>1, <3>1, LiveIfOwned
  <2>2. CASE Publishes(u)
    BY <1>0, <2>2 DEF Publishes, BuildInv, At
  <2> QED
    BY <2>1, <2>2
<1>3. ASSUME NEW v \in Users, user[v].pc \in Waiting \cup {"poll"}, Of(v) = d PROVE FALSE
  <2>1. HasObject(user[v].obj, d) /\ user[v].obj \in Users
    BY <1>0, <1>1, <1>3, Fields DEF WaitInv, At
  <2> QED
    BY <1>2, <2>1
<1> QED
  BY <1>2, <1>3

\* A caller finds nobody waiting for the same thread.
LEMMA CallersAreAlone ==
    ASSUME ThreadInv, NEW u \in Users, NEW v \in Users, u # v, UserDoes(u), Calls(u)
    PROVE  WaitsApart(u, v)' /\ WaitsApart(v, u)'
<1> USE DEF ThreadInv
<1>0. TypeOK /\ user'[v] = user[v] /\ Of(v)' = Of(v) /\ mpData' = mpData /\ platform' = platform
  <2>1. user'[v] = user[v] /\ mpData' = mpData /\ platform' = platform
    BY OthersStay DEF Calls, CallsWait, CallsStatus
  <2> QED
    BY <2>1 DEF Of
<1>1. user[v].pc \in StatusLabels => platform = "pc"
  BY DEF UserInv
<1>2. ASSUME NEW o \in Users, CallsWait(u, o) PROVE WaitsApart(u, v)' /\ WaitsApart(v, u)'
  <2>1. /\ user'[u].obj = o /\ Of(u)' = mpData[o] /\ user'[u].pc = IF mpData[o] = None THEN "poll" ELSE "check"
    BY <1>0, <1>2 DEF CallsWait, UserIs, Of
  <2>2. /\ user[v].pc \in WaitLabels \cup {"poll"} => user[v].obj # o /\ (mpData[o] # None => Of(v) # mpData[o])
        /\ mpData[o] # None => MayClose(mpData[o]) = {}
    BY <1>2 DEF CallsWait
  <2>3. mpData[o] # None /\ user[v].pc \in Waiting => Of(v) # mpData[o]
    BY <1>1, <2>2 DEF MayClose, Waiting
  <2>4. "poll" \notin Waiting
    BY DEF Waiting, WaitLabels, StatusLabels
  <2> QED
    BY <1>0, <2>1, <2>2, <2>3, <2>4 DEF WaitsApart
<1>3. ASSUME NEW o \in Users, CallsStatus(u, o) PROVE WaitsApart(u, v)' /\ WaitsApart(v, u)'
  <2>1. Of(u)' = mpData[o] /\ user'[u].pc = "closeForStatus"
    BY <1>0, <1>3 DEF CallsStatus, UserIs, Of
  <2>2. platform = "pc" /\ MayClose(mpData[o]) = {}
    BY <1>3 DEF CallsStatus
  <2>3. user[v].pc \in Waiting => Of(v) # mpData[o]
    BY <2>2 DEF MayClose, Waiting
  <2>4. "closeForStatus" \notin WaitLabels \cup {"poll"}
    BY DEF WaitLabels
  <2> QED
    BY <1>0, <2>1, <2>3, <2>4 DEF WaitsApart
<1> QED
  BY <1>2, <1>3 DEF Calls

LEMMA WaitersWaitApart ==
    ASSUME ThreadInv, NEW u \in Users, NEW v \in Users, u # v,
           \/ \E w \in Users : UserDoes(w)
           \/ \E n \in Threads : ThreadDoes(n)
    PROVE  WaitsApart(u, v)'
<1> USE DEF ThreadInv
<1>0. TypeOK /\ WaitInv /\ UserInv
  OBVIOUS
<1>1. ASSUME NEW w \in {u, v}, Calls(w) PROVE WaitsApart(u, v)'
  <2>1. UserDoes(w)
    BY <1>1 DEF Calls, UserDoes
  <2> QED
    BY <1>1, <2>1, CallersAreAlone
<1>2. CASE ~Calls(u) /\ ~Calls(v) /\ user'[u].pc \in Waiting \cup {"poll"} /\ user'[v].pc \in Waiting \cup {"poll"}
  <2>1. /\ user[u].pc \in Waiting \cup {"poll"} /\ user'[u].obj = user[u].obj
        /\ user[v].pc \in Waiting \cup {"poll"} /\ user'[v].obj = user[v].obj
    BY <1>2, WaitedFor
  <2>2. ASSUME user'[u].pc \in WaitLabels \cup {"poll"}, user'[v].pc \in WaitLabels \cup {"poll"}
        PROVE  user[u].obj # user[v].obj /\ (Of(u) # None => Of(u) # Of(v))
    BY <1>0, <1>2, <2>2, WaitedFor DEF WaitInv
  <2>3. ASSUME user'[u].pc \in WaitLabels \cup {"poll"}, user'[v].pc \in WaitLabels \cup {"poll"}, Of(u)' # None
        PROVE  Of(u)' # Of(v)'
    <3>1. ASSUME NEW a \in {u, v}, NEW b \in {u, v}, a # b, Of(a)' = user[user[a].obj].ptr,
                 Constructs(user[a].obj) \/ Publishes(user[a].obj)
          PROVE  Of(u)' # Of(v)' \/ Of(u)' = None
      <4>1. user[a].obj \in Users /\ user[b].obj \in Users
        BY <1>0, Fields
      <4>2. Of(b) # Of(a)'
        BY <2>1, <3>1, <4>1, NewDataIsNobodys
      <4>3. UserDoes(user[a].obj)
        BY <3>1 DEF UserDoes
      <4>4. mpData'[user[b].obj] = mpData[user[b].obj]
        BY <2>2, <2>3, <3>1, <4>1, <4>3, OthersStay
      <4>5. Of(b)' = Of(b)
        BY <2>1, <3>1, <4>4 DEF Of
      <4> QED
        BY <3>1, <4>2, <4>5
    <3>2. (Of(u)' \in {Of(u), None} /\ Of(v)' \in {Of(v), None}) \/ Of(u)' # Of(v)' \/ Of(u)' = None
      BY <1>2, <3>1, WaitedFor
    <3> QED
      BY <2>2, <2>3, <3>2
  <2>4. ASSUME user'[u].pc \in Waiting, user'[v].pc \in Waiting PROVE Of(u)' # Of(v)'
    <3>1. Of(u)' = Of(u) /\ Of(v)' = Of(v) /\ user[u].pc \in Waiting \cup {"poll"} /\ user[v].pc \in Waiting \cup {"poll"}
      BY <1>2, <2>4, WaitedFor, Labels DEF Waiting, WaitLabels, StatusLabels, At
    <3>2. /\ user[u].pc \in Waiting \/ Polled(u)
          /\ user[v].pc \in Waiting \/ Polled(v)
      BY <1>2, <2>4, WaitedFor
    <3>3. ASSUME NEW a \in {u, v}, NEW b \in {u, v}, a # b, Polled(a), user[b].pc \in Waiting \/ Polled(b)
          PROVE  Of(u) # Of(v)
      <4>1. Of(a) # None /\ MayClose(Of(a)) = {} /\ At(a, "poll")
        BY <3>3 DEF Polled
      <4>2. CASE platform = "pc" /\ user[b].pc \in Waiting
        BY <3>3, <4>1, <4>2 DEF MayClose, Waiting
      <4>3. CASE platform # "pc" \/ Polled(b)
        <5>1. user[b].pc \in WaitLabels \cup {"poll"}
          BY <1>0, <3>3, <4>3 DEF UserInv, Waiting, Polled, At
        <5>2. Of(a) # Of(b)
          BY <1>0, <3>3, <4>1, <5>1 DEF WaitInv, At
        <5> QED
          BY <3>3, <5>2
      <4> QED
        BY <3>3, <4>2, <4>3
    <3>4. Of(u) # Of(v)
      BY <1>0, <3>2, <3>3 DEF WaitInv
    <3> QED
      BY <3>1, <3>4
  <2> QED
    BY <2>1, <2>2, <2>3, <2>4 DEF WaitsApart
<1>3. CASE user'[u].pc \notin Waiting \cup {"poll"} \/ user'[v].pc \notin Waiting \cup {"poll"}
  BY <1>3 DEF WaitsApart, Waiting
<1> QED
  BY <1>1, <1>2, <1>3

LEMMA WaitingGoesOn ==
    ASSUME ThreadInv,
           \/ \E u \in Users : UserDoes(u)
           \/ \E n \in Threads : ThreadDoes(n)
    PROVE  WaitInv'
<1>1. \A u \in Users : WaitsWell(u)'
  BY WaitersWaitWell
<1>2. \A u, v \in Users : u # v => WaitsApart(u, v)'
  BY WaitersWaitApart
<1>3. ASSUME NEW u \in Users PROVE Of(u)' = mpData'[user'[u].obj]
  BY DEF Of
<1> QED
  BY <1>1, <1>2, <1>3 DEF WaitInv, WaitsWell, WaitsApart, Settled, Found, At

-----------------------------------------------------------------------------
(* Who joins a thread.                                                     *)

\* The data of a thread names it until somebody joins or closes it, or frees the
\* data.
LEMMA NamesStay ==
    ASSUME ThreadInv, NEW d \in Data, data[d].mThreadId \in Threads
    PROVE  /\ \A u \in Users : UserDoes(u) =>
                 \/ SameName(d)
                 \/ d = Of(u) /\ (Zeroes(u) \/ \E n \in Threads : Joins(u, n))
                 \/ IsFreed(d) /\ At(u, "free") /\ d = user[u].ptr
           /\ \A n \in Threads : ThreadDoes(n) =>
                 \/ SameName(d)
                 \/ IsFreed(d) /\ IsAt(n, "free") /\ d = thread[n].ptr
<1> USE DEF ThreadInv
<1>0. TypeOK /\ data[d].mThreadId # None
  BY Apart
<1>1. data[d].live /\ data[d].used
  BY <1>0, DeadFields DEF DataInv
<1>2. ASSUME NEW u \in Users, UserDoes(u), IsMade(u, d) PROVE SameName(d)
  <2>1. ~(\E n \in Threads, q \in {"suspended", "created"} : Creates(u, n, q) /\ d = user[u].ptr)
    BY <1>0 DEF Creates, BuildInv
  <2>2. ~((Constructs(u) \/ \E n \in Threads : MakesThread(u, n)) /\ d = user[u].ptr)
    BY <1>1 DEF Constructs, MakesThread, BuildInv
  <2>3. ~(Identifies(u) /\ d = user[u].ptr)
    BY <1>0 DEF Identifies, BuildInv
  <2> QED
    BY <1>1, <1>2, <2>1, <2>2, <2>3 DEF IsMade
<1>3. ASSUME NEW u \in Users, UserDoes(u), data'[d].mThreadId = None, Life(d)
      PROVE  d = Of(u) /\ (Zeroes(u) \/ \E n \in Threads : Joins(u, n))
  <2>0. ~SameName(d) /\ data'[d] # data[d]
    BY <1>0, <1>3 DEF SameName
  <2>1. CASE \E e \in Data, k \in Nat, l \in {"idle", "allocate"} : GivesUp(u, e, k, l)
    BY <2>0, <2>1 DEF GivesUp, CountIs, DataStay
  <2>2. CASE CreateFails(u) \/ BeginEnds(u) \/ ReleasesOld(u) \/ Destroys(u) \/ ReleasesEnumerated(u)
    <3>1. /\ user[u].pc \in Building \cup {"created"} => user[u].ptr \in Data
          /\ At(u, "release") => mpData[u] \in Data
          /\ mpData[u] # None => mpData[u] \in Data
          /\ enumData[u] # None => enumData[u] \in Data
      BY <1>0, Fields, Apart DEF UserInv
    <3> QED
      BY <2>1, <2>2, <3>1 DEF CreateFails, BeginEnds, ReleasesOld, Destroys, ReleasesEnumerated, At, Building
  <2>3. CASE \/ Enumerates(u) \/ Polled(u) \/ Leaves(u) \/ Closes(u) \/ Resumes(u) \/ Publishes(u)
             \/ \E v \in Users : CallsWait(u, v) \/ CallsStatus(u, v)
    BY <2>0, <2>3 DEF Enumerates, Polled, Leaves, Closes, Resumes, Publishes, CallsWait, CallsStatus
  <2>4. CASE AddsRef(u) \/ Marks(u) \/ Continues(u)
    BY <2>0, <2>4 DEF AddsRef, Marks, Continues, CountIs, DataStay
  <2>5. CASE UserHasFreed(u)
    <3>1. data'[d] = Fresh
      BY <2>0, <2>5 DEF UserHasFreed, Frees, DataStay
    <3> QED
      BY <1>1, <1>3, <3>1, FreshFields DEF Life
  <2>6. CASE Begins(u)
    <3>1. PICK e \in Data : ~data[e].used /\ DataStay(e)
      BY <2>0, <2>6 DEF Begins
    <3> QED
      BY <1>1, <2>0, <3>1 DEF DataStay
  <2>7. CASE Allocates(u)
    <3>1. PICK e \in Data : ~data[e].used /\ DataStay(e)
      BY <2>7 DEF Allocates
    <3> QED
      BY <1>1, <2>0, <3>1 DEF DataStay
  <2>8. CASE Constructs(u) \/ Identifies(u) \/ \E n \in Threads : MakesThread(u, n)
    <3>1. d = user[u].ptr
      BY <2>0, <2>8 DEF Constructs, Identifies, MakesThread, DataStay
    <3> QED
      BY <1>2, <1>3, <2>0, <2>8, <3>1 DEF IsMade
  <2>9. CASE \E n \in Threads, q \in {"suspended", "created"} : Creates(u, n, q)
    <3>1. d = user[u].ptr
      BY <2>0, <2>9 DEF Creates, DataStay
    <3> QED
      BY <1>2, <1>3, <2>0, <2>9, <3>1 DEF IsMade
  <2>10. CASE \E v \in Users : Assigns(u, v)
    BY <2>0, <2>10 DEF Assigns
  <2>11. CASE \E p \in UserLabels, a \in Answers : WaitsOn(u, p, a)
    BY <2>0, <2>11 DEF WaitsOn
  <2>12. CASE Zeroes(u)
    BY <2>0, <2>12 DEF Zeroes, DataStay
  <2>13. CASE \E n \in Threads : Joins(u, n)
    BY <2>0, <2>13 DEF Joins, DataStay
  <2> QED
    BY <1>3, <2>2, <2>3, <2>4, <2>5, <2>6, <2>7, <2>8, <2>9, <2>10, <2>11, <2>12, <2>13 DEF UserDoes
<1> QED
  BY <1>2, <1>3, DataMoves DEF Lives, SameName

\* Begin makes the thread, and on Kettle writes its name, in one step each.
LEMMA CreatorsCreate ==
    ASSUME ThreadInv, NEW o \in Users, user[o].pc \in {"create", "identify"}, user'[o].pc # user[o].pc,
           \/ \E u \in Users : UserDoes(u)
           \/ \E n \in Threads : ThreadDoes(n)
    PROVE  /\ UserDoes(o)
           /\ At(o, "create") => CreateFails(o) \/ \E n \in Threads, q \in {"suspended", "created"} : Creates(o, n, q)
           /\ At(o, "identify") => Identifies(o)
<1>1. UserDoes(o)
  BY OthersStay
<1> QED
  BY <1>1 DEF UserDoes, Begins, Enumerates, Polled, Leaves, Closes, Zeroes, Allocates, Constructs,
     CreateFails, Resumes, BeginEnds, Continues, Identifies, Publishes, ReleasesOld, Destroys, AddsRef, ReleasesEnumerated,
     UserHasFreed, Marks, CallsWait, CallsStatus, Assigns, WaitsOn, Joins, MakesThread, Creates, At, WaitLabels

JoinsWell(u) ==
    /\ Posix /\ user[u].pc \in {"poll"} \cup BeforeJoin
    /\ Of(u) # None /\ user[user[u].obj].pc \notin {"create", "identify"}
    => data[Of(u)].mThreadId \in Threads

\* A step of a call that waits.
LEMMA WaitersGoOn ==
    ASSUME ThreadInv, NEW u \in Users, user[u].pc \in Waiting, user'[u].pc \in Waiting, user'[u] # user[u],
           \/ \E v \in Users : UserDoes(v)
           \/ \E n \in Threads : ThreadDoes(n)
    PROVE  \/ \E p \in UserLabels, a \in Answers : WaitsOn(u, p, a)
           \/ \E n \in Threads : Joins(u, n)
           \/ Closes(u) \/ Zeroes(u)
<1>1. UserDoes(u)
  BY OthersStay
<1>2. user[u].pc \notin {"idle", "free", "poll", "enumerate", "release", "allocate", "construct", "create",
                         "identify", "resume", "publish", "created"}
  BY DEF Waiting, WaitLabels, StatusLabels
<1>3. ~Leaves(u)
  BY DEF Leaves, UserReturns, UserIs, Waiting, WaitLabels, StatusLabels
<1>4. ~Marks(u)
  BY DEF Marks
<1> QED
  BY <1>1, <1>2, <1>3, <1>4 DEF UserDoes, Begins, Enumerates, Polled, Allocates, Constructs,
     CreateFails, Resumes, BeginEnds, Continues, Identifies, Publishes, ReleasesOld, Destroys, AddsRef, ReleasesEnumerated,
     UserHasFreed, CallsWait, CallsStatus, Assigns, MakesThread, Creates, At

LEMMA BeforeJoinStays ==
    ASSUME ThreadInv, NEW u \in Users, Posix, user'[u].pc \in {"poll"} \cup BeforeJoin,
           \/ \E v \in Users : UserDoes(v)
           \/ \E n \in Threads : ThreadDoes(n)
    PROVE  \/ \E o \in Users : CallsWait(u, o)
           \/ /\ user[u].pc \in {"poll"} \cup BeforeJoin
              /\ ~Zeroes(u) /\ \A n \in Threads : ~Joins(u, n)
<1>0. WaitersWait(u) /\ {"poll"} \cup BeforeJoin \subseteq Waiting \cup {"poll"}
  BY OthersStay DEF BeforeJoin, Waiting, WaitLabels
<1>1. ~Zeroes(u) /\ ~Closes(u) /\ \A o \in Users : ~CallsStatus(u, o)
  BY DEF Zeroes, Closes, CallsStatus, Posix
<1>2. ASSUME NEW n \in Threads, Joins(u, n) PROVE FALSE
  <2>1. PICK p \in {"unlockRun", "return"}, a \in Answers :
          UserIs(u, p, user[u].obj, user[u].ptr, user[u].next, a)
    BY <1>2 DEF Joins
  <2>2. user'[u].pc = p
    BY <2>1 DEF UserIs
  <2> QED
    BY <2>2 DEF BeforeJoin
<1>3. Polled(u) => At(u, "poll")
  BY DEF Polled
<1>4. CASE user'[u] # user[u] /\ user[u].pc \in Waiting /\ user'[u].pc \in Waiting
  <2>2. \E p \in UserLabels, a \in Answers : WaitsOn(u, p, a)
    BY <1>1, <1>2, <1>4, WaitersGoOn
  <2>3. PICK p \in UserLabels, a \in Answers : WaitsOn(u, p, a)
    BY <2>2
  <2>4. user'[u].pc = p
    BY <2>3 DEF WaitsOn, UserIs
  <2>5. p \in BeforeJoin
    BY <2>3, <2>4 DEF WaitsOn, WaitLabels
  <2> QED
    BY <1>1, <1>2, <2>3, <2>5 DEF WaitsOn
<1> QED
  BY <1>0, <1>1, <1>2, <1>3, <1>4 DEF WaitersWait, At

LEMMA JoinersJoinWell ==
    ASSUME ThreadInv, NEW u \in Users,
           \/ \E v \in Users : UserDoes(v)
           \/ \E n \in Threads : ThreadDoes(n)
    PROVE  JoinsWell(u)'
<1> USE DEF ThreadInv
<1>0. /\ TypeOK /\ platform' = platform /\ WaitInv /\ UserInv /\ ObjectInv
      /\ {"poll"} \cup BeforeJoin \subseteq Waiting \cup {"poll"}
  BY OthersStay DEF BeforeJoin, Waiting, WaitLabels
<1> SUFFICES ASSUME Posix, user'[u].pc \in {"poll"} \cup BeforeJoin, Of(u)' # None,
                    user'[user'[u].obj].pc \notin {"create", "identify"}
             PROVE  data'[Of(u)'].mThreadId \in Threads
  BY <1>0 DEF JoinsWell, Posix, Of
<1>1. ASSUME NEW o \in Users, CallsWait(u, o) PROVE data'[Of(u)'].mThreadId \in Threads
  <2>1. user'[u].obj = o /\ mpData' = mpData /\ data' = data
    BY <1>1 DEF CallsWait, UserIs
  <2> SUFFICES ASSUME NEW d, d = mpData[o], d # None
               PROVE  data[d].mThreadId \in Threads
    BY <2>1 DEF Of
  <2>2. d \in Data /\ HasObject(o, d)
    BY <1>1, CallersFindData DEF Settled
  <2>3. data[d].mThreadId # None
    BY <1>1 DEF CallsWait, Posix
  <2> QED
    BY <1>0, <2>2, <2>3, Fields DEF ObjectInv, External
<1>2. CASE ~\E o \in Users : CallsWait(u, o)
  <2> SUFFICES ASSUME NEW o, o = user[u].obj, NEW d, d = Of(u)'
               PROVE  data'[d].mThreadId \in Threads
    OBVIOUS
  <2>1. /\ user[u].pc \in {"poll"} \cup BeforeJoin /\ o \in Users
        /\ ~Zeroes(u) /\ \A n \in Threads : ~Joins(u, n)
    BY <1>0, <1>2, BeforeJoinStays, Fields
  <2>2. ~Calls(u)
    BY <1>2 DEF Calls, CallsStatus, Posix
  <2>3. /\ user'[u].obj = o
        /\ d = Of(u) \/ (d = user[o].ptr /\ (Constructs(o) \/ Publishes(o)))
    BY <1>0, <2>2, WaitedFor
  <2>4. ~Constructs(o) /\ ~Publishes(o)
    <3>1. Constructs(o) => user'[o].pc = "create"
      BY DEF Constructs, UserGoes, UserIs
    <3> QED
      BY <2>3, <3>1 DEF Publishes, Posix
  <2>5. d = Of(u) /\ d \in Data /\ mpData[o] = d /\ mpData'[o] = d
    BY <1>0, <2>3, <2>4, Fields DEF Of
  <2>6. HasObject(o, d)
    BY <1>0, <2>1, <2>5 DEF WaitInv, At
  <2>7. ASSUME user[o].pc \notin {"create", "identify"} PROVE data'[d].mThreadId \in Threads
    <3>1. data[d].mThreadId \in Threads
      BY <2>1, <2>5, <2>7 DEF JoinInv, Posix, BeforeJoin
    <3>2. data[d].mnRefCount > 0
      BY <1>0, <2>1, <2>5, <2>6, LiveIfOwned
    <3>3. ASSUME NEW w \in Users, d = Of(w), Zeroes(w) \/ \E n \in Threads : Joins(w, n) PROVE FALSE
      <4>1. w # u
        BY <2>1, <3>3
      <4>2. user[w].pc \in WaitLabels
        BY <3>3 DEF Zeroes, Joins, Posix, WaitLabels
      <4>3. user[u].pc \in WaitLabels \cup {"poll"}
        BY <2>1 DEF BeforeJoin, WaitLabels
      <4> QED
        BY <1>0, <2>5, <3>3, <4>1, <4>2, <4>3 DEF WaitInv
    <3> QED
      BY <2>5, <3>1, <3>2, <3>3, NamesStay DEF SameName, IsFreed
  <2>8. ASSUME user[o].pc \in {"create", "identify"} PROVE data'[d].mThreadId \in Threads
    <3>1. user'[o].pc # user[o].pc
      BY <2>3, <2>8
    <3>2. CASE At(o, "create")
      <4>1. ~CreateFails(o)
        BY <2>5, Apart DEF CreateFails, ObjectHas
      <4>2. PICK n \in Threads, q \in {"suspended", "created"} : Creates(o, n, q)
        BY <2>1, <2>8, <3>1, <3>2, <4>1, CreatorsCreate
      <4>3. user[o].ptr = d
        BY <2>1, <2>5, <3>2 DEF BuildInv
      <4>4. platform # "kettle"
        <5>1. user'[o].pc = "identify" \/ platform # "kettle"
          BY <4>2 DEF Creates, UserGoes, UserIs
        <5> QED
          BY <2>3, <5>1
      <4> QED
        BY <4>2, <4>3, <4>4 DEF Creates
    <3>3. CASE At(o, "identify")
      <4>1. Identifies(o)
        BY <2>1, <2>8, <3>1, <3>3, CreatorsCreate
      <4>2. user[o].ptr = d /\ data[d].mSysThreadId # None
        BY <2>1, <2>5, <3>3, Apart DEF BuildInv, Posix
      <4> QED
        BY <2>5, <4>1, <4>2, Fields DEF Identifies
    <3> QED
      BY <2>8, <3>2, <3>3 DEF At
  <2> QED
    BY <2>7, <2>8
<1> QED
  BY <1>1, <1>2

LEMMA JoiningGoesOn ==
    ASSUME ThreadInv,
           \/ \E u \in Users : UserDoes(u)
           \/ \E n \in Threads : ThreadDoes(n)
    PROVE  JoinInv'
<1>1. \A u \in Users : JoinsWell(u)'
  BY JoinersJoinWell
<1> QED
  BY <1>1 DEF JoinInv, JoinsWell, Posix, BeforeJoin

-----------------------------------------------------------------------------
(* mStartedSemaphore.                                                      *)

Starting == {"suspended", "created", "locked"}

\* A thread posts it once, who took it posts it again.
LEMMA PostMoves ==
    ASSUME ThreadInv, NEW d \in Data
    PROVE  /\ \A u \in Users : UserDoes(u) =>
                 \/ SamePost(d) \/ data'[d].mStartedSemaphore = 0
                 \/ d = Of(u) /\ At(u, "repost") /\ user'[u].pc # "repost"
           /\ \A n \in Threads : ThreadDoes(n) =>
                 \/ SamePost(d) \/ data'[d].mStartedSemaphore = 0
                 \/ d = thread[n].ptr /\ IsAt(n, "locked") /\ thread'[n].pc \notin Starting
<1> USE DEF ThreadInv
<1>0. TypeOK
  OBVIOUS
<1>1. ASSUME NEW e \in Data, DataStay(e), SamePost(e) \/ data'[e].mStartedSemaphore = 0
      PROVE  SamePost(d) \/ data'[d].mStartedSemaphore = 0
  BY <1>1 DEF DataStay, SamePost
<1>2. ASSUME NEW u \in Users, UserDoes(u)
      PROVE  \/ SamePost(d) \/ data'[d].mStartedSemaphore = 0
             \/ d = Of(u) /\ At(u, "repost") /\ user'[u].pc # "repost"
  <2>1. CASE CreateFails(u) \/ BeginEnds(u) \/ ReleasesOld(u) \/ Destroys(u) \/ ReleasesEnumerated(u)
    <3>1. /\ user[u].pc \in Building \cup {"created"} => user[u].ptr \in Data
          /\ At(u, "release") => mpData[u] \in Data
          /\ mpData[u] # None => mpData[u] \in Data
          /\ enumData[u] # None => enumData[u] \in Data
      BY <1>0, Fields, Apart DEF UserInv
    <3>2. \E e \in Data : DataStay(e) /\ SamePost(e)
      BY <2>1, <3>1 DEF CreateFails, BeginEnds, ReleasesOld, Destroys, ReleasesEnumerated, At, Building, GivesUp, CountIs
    <3> QED
      BY <1>1, <3>2
  <2>2. CASE \/ Enumerates(u) \/ Polled(u) \/ Leaves(u) \/ Closes(u) \/ Resumes(u) \/ Publishes(u)
             \/ \E v \in Users : CallsWait(u, v) \/ CallsStatus(u, v)
    BY <2>2 DEF Enumerates, Polled, Leaves, Closes, Resumes, Publishes, CallsWait, CallsStatus, SamePost
  <2>3. CASE AddsRef(u) \/ Marks(u) \/ Continues(u)
    <3>1. At(u, "enumerate") => user[u].ptr \in Data
      BY Apart DEF UserInv
    <3>2. \E e \in Data : DataStay(e) /\ SamePost(e)
      BY <1>0, <2>3, <3>1, Fields DEF AddsRef, Marks, Continues, CountIs
    <3> QED
      BY <1>1, <3>2
  <2>4. CASE UserHasFreed(u)
    <3>1. user[u].ptr \in Data /\ DataStay(user[u].ptr) /\ data'[user[u].ptr] = Fresh
      BY <2>4 DEF UserHasFreed, Frees, UserInv, At
    <3> QED
      BY <1>1, <3>1, FreshFields
  <2>5. CASE Begins(u)
    <3>1. CASE UNCHANGED data
      BY <3>1 DEF SamePost
    <3>2. CASE ~UNCHANGED data
      <4>1. PICK e \in Data :
              /\ data'[e] = [Fresh EXCEPT !.used = TRUE, !.live = TRUE, !.mThreadId = u,
                                          !.mnRefCount = IF platform = "cpp11" THEN 3 ELSE 2]
              /\ DataStay(e)
        BY <2>5, <3>2 DEF Begins
      <4> DEFINE k == IF platform = "cpp11" THEN 3 ELSE 2
      <4>2. data'[e] = [Fresh EXCEPT !.used = TRUE, !.live = TRUE, !.mThreadId = u, !.mnRefCount = k]
        BY <4>1
      <4> HIDE DEF k
      <4>3. data'[e].mStartedSemaphore = 0
        BY <4>2, FreshFields DEF DataRecords
      <4> QED
        BY <1>1, <4>1, <4>3
    <3> QED
      BY <3>1, <3>2
  <2>6. CASE Allocates(u)
    <3>1. PICK e \in Data : data'[e] = [data[e] EXCEPT !.used = TRUE] /\ DataStay(e)
      BY <2>6 DEF Allocates
    <3>2. SamePost(e)
      BY <1>0, <3>1, Fields DEF SamePost, DataRecords
    <3> QED
      BY <1>1, <3>1, <3>2
  <2>7. CASE Constructs(u)
    <3>1. user[u].ptr \in Data
      BY <2>7 DEF Constructs, At, UserInv, Building
    <3>2. /\ data'[user[u].ptr] = [Fresh EXCEPT !.used = TRUE, !.live = TRUE, !.mnRefCount = 3]
          /\ DataStay(user[u].ptr)
      BY <2>7 DEF Constructs
    <3>3. data'[user[u].ptr].mStartedSemaphore = 0
      BY <3>2, FreshFields DEF DataRecords
    <3> QED
      BY <1>1, <3>1, <3>2, <3>3
  <2>8. ASSUME NEW n \in Threads, MakesThread(u, n) PROVE SamePost(d) \/ data'[d].mStartedSemaphore = 0
    <3>1. user[u].ptr \in Data
      BY <2>8 DEF MakesThread, At, UserInv, Building
    <3>2. /\ data'[user[u].ptr] = [Fresh EXCEPT !.used = TRUE, !.live = TRUE, !.mnRefCount = 2, !.mSysThreadId = n]
          /\ DataStay(user[u].ptr)
      BY <2>8 DEF MakesThread
    <3>3. data'[user[u].ptr].mStartedSemaphore = 0
      BY <3>2, FreshFields DEF DataRecords
    <3> QED
      BY <1>1, <3>1, <3>2, <3>3
  <2>9. CASE Identifies(u) \/ \E n \in Threads, q \in {"suspended", "created"} : Creates(u, n, q)
    <3>1. user[u].ptr \in Data
      BY <2>9 DEF Identifies, Creates, At, UserInv, Building
    <3>2. DataStay(user[u].ptr) /\ SamePost(user[u].ptr)
      BY <2>9 DEF Identifies, Creates
    <3> QED
      BY <1>1, <3>1, <3>2
  <2>10. CASE \E v \in Users : Assigns(u, v)
    BY <2>10 DEF Assigns
  <2>11. ASSUME NEW p \in UserLabels, NEW a \in Answers, WaitsOn(u, p, a)
         PROVE  \/ SamePost(d) \/ data'[d].mStartedSemaphore = 0
                \/ d = Of(u) /\ At(u, "repost") /\ user'[u].pc # "repost"
    <3>1. user'[u].pc = p
      BY <2>11 DEF WaitsOn, UserIs
    <3>2. CASE d = Of(u) /\ p = "repost"
      <4>1. data[d].mStartedSemaphore \in 0 .. 1
        BY <1>0, Fields
      <4> QED
        BY <2>11, <3>2, <4>1 DEF WaitsOn, TheData
    <3>3. CASE d = Of(u) /\ At(u, "repost")
      BY <2>11, <3>1, <3>3 DEF WaitsOn
    <3> QED
      BY <2>11, <3>2, <3>3 DEF WaitsOn
  <2>12. CASE Zeroes(u) \/ \E n \in Threads : Joins(u, n)
    <3>1. Of(u) # None /\ DataStay(Of(u)) /\ SamePost(Of(u))
      BY <2>12 DEF Zeroes, Joins
    <3>2. Of(u) \in Data
      BY <1>0, <3>1, Fields DEF Of
    <3> QED
      BY <1>1, <3>1, <3>2
  <2> QED
    BY <1>2, <2>1, <2>2, <2>3, <2>4, <2>5, <2>6, <2>7, <2>8, <2>9, <2>10, <2>11, <2>12 DEF UserDoes
<1>3. ASSUME NEW n \in Threads, ThreadDoes(n)
      PROVE  \/ SamePost(d) \/ data'[d].mStartedSemaphore = 0
             \/ d = thread[n].ptr /\ IsAt(n, "locked") /\ thread'[n].pc \notin Starting
  <2>1. ASSUME NEW p \in ThreadLabels, Proceeds(n, p)
        PROVE  SamePost(d) \/ (d = thread[n].ptr /\ IsAt(n, "locked") /\ thread'[n].pc \notin Starting)
    <3>1. thread[n].ptr \in Data
      BY <2>1 DEF Proceeds, LiveThreadInv, IsAt
    <3>2. thread'[n].pc = p
      BY <2>1 DEF Proceeds, ThreadGoes, ThreadIs
    <3>3. SamePost(thread[n].ptr) \/ (IsAt(n, "locked") /\ p \notin Starting)
      BY <2>1 DEF Proceeds, IsAt, Starting
    <3> QED
      BY <2>1, <3>1, <3>2, <3>3 DEF Proceeds, DataStay, SamePost
  <2>2. CASE ThreadHasFreed(n)
    <3>1. thread[n].ptr \in Data /\ DataStay(thread[n].ptr) /\ data'[thread[n].ptr] = Fresh
      BY <2>2 DEF ThreadHasFreed, Frees, LiveThreadInv, IsAt
    <3> QED
      BY <1>1, <3>1, FreshFields
  <2>3. CASE ThreadGivesUp(n)
    <3>1. thread[n].ptr \in Data /\ DataStay(thread[n].ptr) /\ SamePost(thread[n].ptr)
      BY <2>3 DEF ThreadGivesUp, CountIs, LiveThreadInv, IsAt
    <3> QED
      BY <1>1, <3>1
  <2>4. ASSUME NEW o \in Users, DestroysWithin(n, o) PROVE SamePost(d) \/ data'[d].mStartedSemaphore = 0
    <3>1. mpData[o] \in Data /\ DataStay(mpData[o]) /\ SamePost(mpData[o])
      BY <2>4 DEF DestroysWithin, CountIs, LiveThreadInv, IsAt
    <3> QED
      BY <1>1, <3>1
  <2> QED
    BY <1>3, <2>1, <2>2, <2>3, <2>4 DEF ThreadDoes
<1> QED
  BY <1>2, <1>3

LEMMA StartersStart ==
    ASSUME ThreadInv, NEW n \in Threads, thread'[n].pc \in Starting,
           \/ \E u \in Users : UserDoes(u)
           \/ \E m \in Threads : ThreadDoes(m)
    PROVE  \/ thread[n].pc \in Starting /\ thread'[n].ptr = thread[n].ptr
           \/ \E u \in Users : MakesThread(u, n) \/ \E q \in {"suspended", "created"} : Creates(u, n, q)
<1>1. CASE thread'[n] = thread[n]
  BY <1>1
<1>2. ASSUME NEW u \in Users, UserDoes(u), thread'[n] # thread[n]
      PROVE  \/ thread[n].pc \in Starting /\ thread'[n].ptr = thread[n].ptr
             \/ MakesThread(u, n) \/ \E q \in {"suspended", "created"} : Creates(u, n, q)
  <2>1. CASE Resumes(u)
    BY <1>2, <2>1 DEF Resumes, ThreadGoes, ThreadIs, IsAt, Starting
  <2>2. CASE \E m \in Threads : MakesThread(u, m)
    BY <1>2, <2>2 DEF MakesThread, ThreadIs
  <2>3. CASE \E m \in Threads, q \in {"suspended", "created"} : Creates(u, m, q)
    BY <1>2, <2>3 DEF Creates, ThreadIs
  <2> QED
    BY <1>2, <2>1, <2>2, <2>3 DEF UserDoes, Begins, Enumerates, Polled, Leaves, Closes, Zeroes, Allocates,
       Constructs, CreateFails, BeginEnds, Continues, Identifies, Publishes, ReleasesOld, Destroys, AddsRef, ReleasesEnumerated,
       UserHasFreed, Marks, CallsWait, CallsStatus, Assigns, WaitsOn, Joins
<1>3. ASSUME NEW m \in Threads, ThreadDoes(m), thread'[n] # thread[n]
      PROVE  thread[n].pc \in Starting /\ thread'[n].ptr = thread[n].ptr
  <2>1. ASSUME NEW p \in ThreadLabels, Proceeds(m, p)
        PROVE  thread[n].pc \in Starting /\ thread'[n].ptr = thread[n].ptr
    <3>1. m = n /\ thread'[n].pc = p /\ thread'[n].ptr = thread[n].ptr
      BY <1>3, <2>1 DEF Proceeds, ThreadGoes, ThreadIs
    <3>2. p = "locked"
      BY <2>1, <3>1 DEF Proceeds, Starting
    <3> QED
      BY <2>1, <3>1, <3>2 DEF Proceeds, Starting, IsAt
  <2>2. CASE ThreadHasFreed(m) \/ ThreadGivesUp(m)
    BY <1>3, <2>2 DEF ThreadHasFreed, ThreadGivesUp, ThreadGoes, ThreadIs, Starting
  <2>3. CASE \E o \in Users : DestroysWithin(m, o)
    BY <1>3, <2>3 DEF DestroysWithin
  <2> QED
    BY <1>3, <2>1, <2>2, <2>3 DEF ThreadDoes
<1> QED
  BY <1>1, <1>2, <1>3

\* The data of a thread a call waits for.
LEMMA WaitedData ==
    ASSUME ThreadInv, NEW u \in Users, user[u].pc \in Waiting
    PROVE  /\ Of(u) \in Data /\ data[Of(u)].mSysThreadId \in Threads
           /\ ~IsAt(data[Of(u)].mSysThreadId, "unborn")
           /\ thread[data[Of(u)].mSysThreadId].ptr = Of(u)
           /\ data[Of(u)].mnRefCount > 0
<1> USE DEF ThreadInv
<1>1. user[u].obj \in Users /\ Of(u) \in Data /\ HasObject(user[u].obj, Of(u)) /\ ~At(user[u].obj, "create")
  BY Fields DEF WaitInv, At
<1>2. data[Of(u)].mSysThreadId # None
  BY <1>1 DEF ObjectInv
<1>3. data[Of(u)].mnRefCount > 0
  BY <1>1, LiveIfOwned
<1> QED
  BY <1>1, <1>2, <1>3, Fields DEF DataInv, IsAt

LEMMA SuspendedAreNotPosted ==
    ASSUME ThreadInv, NEW n \in Threads, thread'[n].pc \in Starting,
           \/ \E u \in Users : UserDoes(u)
           \/ \E m \in Threads : ThreadDoes(m)
    PROVE  data'[thread'[n].ptr].mStartedSemaphore = 0
<1> USE DEF ThreadInv
<1>1. CASE \E u \in Users : MakesThread(u, n)
  <2>1. PICK u \in Users : MakesThread(u, n)
    BY <1>1
  <2>2. /\ thread'[n].ptr = user[u].ptr
        /\ data'[user[u].ptr] = [Fresh EXCEPT !.used = TRUE, !.live = TRUE, !.mnRefCount = 2, !.mSysThreadId = n]
    BY <2>1 DEF MakesThread, ThreadIs
  <2> QED
    BY <2>2, FreshFields DEF DataRecords
<1>2. CASE \E u \in Users, q \in {"suspended", "created"} : Creates(u, n, q)
  <2>1. PICK u \in Users, q \in {"suspended", "created"} : Creates(u, n, q)
    BY <1>2
  <2>2. thread'[n].ptr = user[u].ptr /\ SamePost(user[u].ptr)
    BY <2>1 DEF Creates, ThreadIs
  <2>3. user[u].ptr \in Data /\ data[user[u].ptr].mSysThreadId = None
    BY <2>1 DEF Creates, BuildInv, UserInv, Building, At
  <2> QED
    BY <2>2, <2>3 DEF SamePost, StartInv
<1>3. CASE thread[n].pc \in Starting /\ thread'[n].ptr = thread[n].ptr
  <2> SUFFICES ASSUME NEW d, d = thread[n].ptr
               PROVE  data'[d].mStartedSemaphore = 0
    BY <1>3
  <2>1. d \in Data /\ data[d].mSysThreadId = n /\ data[d].mStartedSemaphore = 0
    BY <1>3 DEF LiveThreadInv, StartInv, Starting, IsAt
  <2>2. ASSUME NEW u \in Users, d = Of(u), At(u, "repost") PROVE FALSE
    BY <1>3, <2>1, <2>2 DEF StartInv, Starting, TheData
  <2>3. ASSUME NEW m \in Threads, d = thread[m].ptr, IsAt(m, "locked"), thread'[m].pc \notin Starting PROVE FALSE
    BY <2>1, <2>3 DEF LiveThreadInv, IsAt
  <2> QED
    BY <2>1, <2>2, <2>3, PostMoves DEF SamePost
<1> QED
  BY <1>1, <1>2, <1>3, StartersStart

LEMMA RepostersRepost ==
    ASSUME ThreadInv, NEW u \in Users, user'[u].pc = "repost",
           \/ \E v \in Users : UserDoes(v)
           \/ \E m \in Threads : ThreadDoes(m)
    PROVE  /\ data'[Of(u)'].mStartedSemaphore = 0
           /\ thread'[data'[Of(u)'].mSysThreadId].pc \notin Starting
<1> USE DEF ThreadInv
<1>0. TypeOK /\ WaitersWait(u) /\ "repost" \in Waiting
  BY OthersStay DEF Waiting, WaitLabels
<1>1. user[u].pc \in Waiting /\ user'[u].obj = user[u].obj
  <2>1. Polled(u) => user'[u].pc = "check"
    BY DEF Polled, UserGoes, UserIs
  <2>2. \A o \in Users : CallsWait(u, o) \/ CallsStatus(u, o) => user'[u].pc \in {"poll", "check", "closeForStatus"}
    BY DEF CallsWait, CallsStatus, UserIs
  <2> QED
    BY <1>0, <2>1, <2>2 DEF WaitersWait
<1> SUFFICES ASSUME NEW o, o = user[u].obj, NEW d, d = Of(u), NEW n, n = data[d].mSysThreadId
             PROVE  /\ data'[Of(u)'].mStartedSemaphore = 0
                    /\ thread'[data'[Of(u)'].mSysThreadId].pc \notin Starting
  OBVIOUS
<1>2. d \in Data /\ n \in Threads /\ ~IsAt(n, "unborn") /\ thread[n].ptr = d /\ data[d].mnRefCount > 0
  BY <1>1, WaitedData
<1>3. Of(u)' = d
  <2>1. Settled(o, d)'
    BY <1>1, WaitedObjectsStay
  <2> QED
    BY <1>1, <2>1 DEF Settled, Of
<1>4. data'[d].mSysThreadId = n
  BY <1>2, SysStays, Apart DEF IsFreed
<1>5. thread[n].pc \notin Starting => thread'[n].pc \notin Starting
  BY <1>2, StartersStart DEF MakesThread, Creates
<1>6. CASE At(u, "repost")
  <2>1. data[d].mStartedSemaphore = 0 /\ thread[n].pc \notin Starting
    BY <1>6 DEF StartInv, Starting, TheData
  <2>2. ASSUME NEW v \in Users, d = Of(v), At(v, "repost"), user'[v].pc # "repost" PROVE FALSE
    BY <1>0, <1>6, <2>2 DEF WaitInv, At
  <2>3. ASSUME NEW m \in Threads, d = thread[m].ptr, IsAt(m, "locked") PROVE FALSE
    BY <1>2, <2>1, <2>3 DEF LiveThreadInv, IsAt, Starting
  <2>4. data'[d].mStartedSemaphore = 0
    BY <1>2, <2>1, <2>2, <2>3, PostMoves DEF SamePost
  <2> QED
    BY <1>3, <1>4, <1>5, <2>1, <2>4
<1>7. CASE ~At(u, "repost")
  <2>0. user'[u] # user[u]
    BY <1>7 DEF At
  <2>1. ~Closes(u) /\ ~Zeroes(u) /\ \A m \in Threads : ~Joins(u, m)
    <3>1. Closes(u) => user'[u].pc \in {"zero", "zeroForStatus"}
      BY DEF Closes, UserGoes, UserIs
    <3>2. Zeroes(u) => user'[u].pc \in {"return", "idle"}
      BY DEF Zeroes, UserReturns, UserIs
    <3>3. ASSUME NEW m \in Threads, Joins(u, m) PROVE user'[u].pc \in {"unlockRun", "return"}
      BY <3>3 DEF Joins, UserIs
    <3> QED
      BY <3>1, <3>2, <3>3
  <2>2. PICK p \in UserLabels, a \in Answers : WaitsOn(u, p, a)
    BY <1>0, <1>1, <2>0, <2>1, WaitersGoOn
  <2>3. p = "repost"
    BY <2>2 DEF WaitsOn, UserIs
  <2>4. data[d].mStartedSemaphore > 0 /\ data'[d].mStartedSemaphore = data[d].mStartedSemaphore - 1 /\ thread' = thread
    BY <2>2, <2>3 DEF WaitsOn, TheData
  <2>5. data[d].mStartedSemaphore \in 0 .. 1
    BY <1>0, <1>2, Fields
  <2>6. thread[n].pc \notin Starting
    BY <1>2, <2>4, <2>5 DEF StartInv, Starting
  <2> QED
    BY <1>3, <1>4, <2>4, <2>5, <2>6
<1> QED
  BY <1>6, <1>7

LEMMA NewDataIsNotPosted ==
    ASSUME ThreadInv, NEW d \in Data, data'[d].mSysThreadId = None,
           \/ \E v \in Users : UserDoes(v)
           \/ \E m \in Threads : ThreadDoes(m)
    PROVE  data'[d].mStartedSemaphore = 0
<1> USE DEF ThreadInv
<1>1. CASE data[d].mSysThreadId # None
  <2>1. data'[d] = Fresh
    BY <1>1, SysStays DEF IsFreed
  <2> QED
    BY <2>1, FreshFields
<1>2. CASE data[d].mSysThreadId = None
  <2>1. data[d].mStartedSemaphore = 0
    BY <1>2 DEF StartInv
  <2>2. ASSUME NEW u \in Users, d = Of(u), At(u, "repost") PROVE FALSE
    <3>1. data[d].mSysThreadId \in Threads
      BY <2>2, WaitedData DEF At, Waiting, WaitLabels
    <3> QED
      BY <1>2, <3>1, Apart
  <2>3. ASSUME NEW m \in Threads, d = thread[m].ptr, IsAt(m, "locked") PROVE FALSE
    BY <1>2, <2>3, Apart DEF LiveThreadInv, IsAt
  <2> QED
    BY <2>1, <2>2, <2>3, PostMoves DEF SamePost
<1> QED
  BY <1>1, <1>2

LEMMA StartingGoesOn ==
    ASSUME ThreadInv,
           \/ \E u \in Users : UserDoes(u)
           \/ \E n \in Threads : ThreadDoes(n)
    PROVE  StartInv'
<1>1. \A n \in Threads : thread'[n].pc \in Starting => data'[thread'[n].ptr].mStartedSemaphore = 0
  BY SuspendedAreNotPosted
<1>2. \A u \in Users : user'[u].pc = "repost" =>
         /\ data'[Of(u)'].mStartedSemaphore = 0
         /\ thread'[data'[Of(u)'].mSysThreadId].pc \notin Starting
  BY RepostersRepost
<1>3. \A d \in Data : data'[d].mSysThreadId = None => data'[d].mStartedSemaphore = 0
  BY NewDataIsNotPosted
<1> QED
  BY <1>1, <1>2, <1>3 DEF StartInv, Starting, At, TheData

-----------------------------------------------------------------------------
(* What is said of the end of threads.                                     *)

\* Only the thread itself, and who closes its handle, writes that it has ended.
LEMMA StatusMoves ==
    ASSUME ThreadInv, NEW d \in Data
    PROVE  /\ \A u \in Users : UserDoes(u) =>
                 \/ SameStatus(d) \/ data'[d].mnStatus # "ended"
                 \/ (d = Of(u) /\ Zeroes(u)) \/ (d = mpData[u] /\ Marks(u))
           /\ \A n \in Threads : ThreadDoes(n) =>
                 \/ SameStatus(d) \/ data'[d].mnStatus # "ended"
                 \/ d = thread[n].ptr /\ thread'[n].pc = "ended" /\ data'[d].mSysThreadId = data[d].mSysThreadId
<1> USE DEF ThreadInv
<1>0. TypeOK
  OBVIOUS
<1>1. ASSUME NEW e \in Data, DataStay(e), SameStatus(e) \/ data'[e].mnStatus # "ended"
      PROVE  SameStatus(d) \/ data'[d].mnStatus # "ended"
  BY <1>1 DEF DataStay, SameStatus
<1>2. ASSUME NEW u \in Users, UserDoes(u)
      PROVE  \/ SameStatus(d) \/ data'[d].mnStatus # "ended"
             \/ (d = Of(u) /\ Zeroes(u)) \/ (d = mpData[u] /\ Marks(u))
  <2>1. CASE CreateFails(u) \/ BeginEnds(u) \/ ReleasesOld(u) \/ Destroys(u) \/ ReleasesEnumerated(u)
    <3>1. /\ user[u].pc \in Building \cup {"created"} => user[u].ptr \in Data
          /\ At(u, "release") => mpData[u] \in Data
          /\ mpData[u] # None => mpData[u] \in Data
          /\ enumData[u] # None => enumData[u] \in Data
      BY <1>0, Fields, Apart DEF UserInv
    <3>2. \E e \in Data : DataStay(e) /\ SameStatus(e)
      BY <2>1, <3>1 DEF CreateFails, BeginEnds, ReleasesOld, Destroys, ReleasesEnumerated, At, Building, GivesUp, CountIs
    <3> QED
      BY <1>1, <3>2
  <2>2. CASE \/ Enumerates(u) \/ Polled(u) \/ Leaves(u) \/ Closes(u) \/ Resumes(u) \/ Publishes(u)
             \/ \E v \in Users : CallsWait(u, v) \/ CallsStatus(u, v)
    BY <2>2 DEF Enumerates, Polled, Leaves, Closes, Resumes, Publishes, CallsWait, CallsStatus, SameStatus
  <2>3. CASE AddsRef(u) \/ Continues(u)
    <3>1. At(u, "enumerate") => user[u].ptr \in Data
      BY Apart DEF UserInv
    <3>2. \E e \in Data : DataStay(e) /\ SameStatus(e)
      BY <1>0, <2>3, <3>1, Fields DEF AddsRef, Continues, CountIs
    <3> QED
      BY <1>1, <3>2
  <2>13. CASE Marks(u)
    BY <2>13 DEF Marks, DataStay, SameStatus
  <2>4. CASE UserHasFreed(u)
    <3>1. user[u].ptr \in Data /\ DataStay(user[u].ptr) /\ data'[user[u].ptr] = Fresh
      BY <2>4 DEF UserHasFreed, Frees, UserInv, At
    <3> QED
      BY <1>1, <3>1, FreshFields
  <2>5. CASE Begins(u)
    <3>1. CASE UNCHANGED data
      BY <3>1 DEF SameStatus
    <3>2. CASE ~UNCHANGED data
      <4>1. PICK e \in Data :
              /\ data'[e] = [Fresh EXCEPT !.used = TRUE, !.live = TRUE, !.mThreadId = u,
                                          !.mnRefCount = IF platform = "cpp11" THEN 3 ELSE 2]
              /\ DataStay(e)
        BY <2>5, <3>2 DEF Begins
      <4> DEFINE k == IF platform = "cpp11" THEN 3 ELSE 2
      <4>2. data'[e] = [Fresh EXCEPT !.used = TRUE, !.live = TRUE, !.mThreadId = u, !.mnRefCount = k]
        BY <4>1
      <4> HIDE DEF k
      <4>3. data'[e].mnStatus # "ended"
        BY <4>2, FreshFields DEF DataRecords
      <4> QED
        BY <1>1, <4>1, <4>3
    <3> QED
      BY <3>1, <3>2
  <2>6. CASE Allocates(u)
    <3>1. PICK e \in Data : data'[e] = [data[e] EXCEPT !.used = TRUE] /\ DataStay(e)
      BY <2>6 DEF Allocates
    <3>2. SameStatus(e)
      BY <1>0, <3>1, Fields DEF SameStatus, DataRecords
    <3> QED
      BY <1>1, <3>1, <3>2
  <2>7. CASE Constructs(u)
    <3>1. user[u].ptr \in Data
      BY <2>7 DEF Constructs, At, UserInv, Building
    <3>2. /\ data'[user[u].ptr] = [Fresh EXCEPT !.used = TRUE, !.live = TRUE, !.mnRefCount = 3]
          /\ DataStay(user[u].ptr)
      BY <2>7 DEF Constructs
    <3>3. data'[user[u].ptr].mnStatus # "ended"
      BY <3>2, FreshFields DEF DataRecords
    <3> QED
      BY <1>1, <3>1, <3>2, <3>3
  <2>8. ASSUME NEW n \in Threads, MakesThread(u, n) PROVE SameStatus(d) \/ data'[d].mnStatus # "ended"
    <3>1. user[u].ptr \in Data
      BY <2>8 DEF MakesThread, At, UserInv, Building
    <3>2. /\ data'[user[u].ptr] = [Fresh EXCEPT !.used = TRUE, !.live = TRUE, !.mnRefCount = 2, !.mSysThreadId = n]
          /\ DataStay(user[u].ptr)
      BY <2>8 DEF MakesThread
    <3>3. data'[user[u].ptr].mnStatus # "ended"
      BY <3>2, FreshFields DEF DataRecords
    <3> QED
      BY <1>1, <3>1, <3>2, <3>3
  <2>9. CASE Identifies(u) \/ \E n \in Threads, q \in {"suspended", "created"} : Creates(u, n, q)
    <3>1. user[u].ptr \in Data
      BY <2>9 DEF Identifies, Creates, At, UserInv, Building
    <3>2. DataStay(user[u].ptr) /\ SameStatus(user[u].ptr)
      BY <2>9 DEF Identifies, Creates
    <3> QED
      BY <1>1, <3>1, <3>2
  <2>10. CASE \E v \in Users : Assigns(u, v)
    BY <2>10 DEF Assigns
  <2>11. CASE \E p \in UserLabels, a \in Answers : WaitsOn(u, p, a)
    BY <2>11 DEF WaitsOn
  <2>12. ASSUME NEW n \in Threads, Joins(u, n) PROVE SameStatus(d) \/ data'[d].mnStatus # "ended"
    <3>1. Of(u) # None /\ DataStay(Of(u)) /\ SameStatus(Of(u))
      BY <2>12 DEF Joins
    <3>2. Of(u) \in Data
      BY <1>0, <3>1, Fields DEF Of
    <3> QED
      BY <1>1, <3>1, <3>2
  <2>14. CASE Zeroes(u)
    BY <2>14 DEF Zeroes, DataStay, SameStatus
  <2> QED
    BY <1>2, <2>1, <2>2, <2>3, <2>4, <2>5, <2>6, <2>7, <2>8, <2>9, <2>10, <2>11, <2>12, <2>13, <2>14 DEF UserDoes
<1>3. ASSUME NEW n \in Threads, ThreadDoes(n)
      PROVE  \/ SameStatus(d) \/ data'[d].mnStatus # "ended"
             \/ d = thread[n].ptr /\ thread'[n].pc = "ended" /\ data'[d].mSysThreadId = data[d].mSysThreadId
  <2>1. ASSUME NEW p \in ThreadLabels, Proceeds(n, p)
        PROVE  \/ SameStatus(d) \/ data'[d].mnStatus # "ended"
               \/ d = thread[n].ptr /\ thread'[n].pc = "ended" /\ data'[d].mSysThreadId = data[d].mSysThreadId
    <3>1. thread[n].ptr \in Data
      BY <2>1 DEF Proceeds, LiveThreadInv, IsAt
    <3>2. thread'[n].pc = p
      BY <2>1 DEF Proceeds, ThreadGoes, ThreadIs
    <3>3. SameStatus(thread[n].ptr) \/ data'[thread[n].ptr].mnStatus = "running" \/ p = "ended"
      BY <2>1 DEF Proceeds, SameStatus
    <3> QED
      BY <2>1, <3>1, <3>2, <3>3 DEF Proceeds, DataStay, SameStatus, Life
  <2>2. CASE ThreadHasFreed(n)
    <3>1. thread[n].ptr \in Data /\ DataStay(thread[n].ptr) /\ data'[thread[n].ptr] = Fresh
      BY <2>2 DEF ThreadHasFreed, Frees, LiveThreadInv, IsAt
    <3> QED
      BY <1>1, <3>1, FreshFields
  <2>3. CASE ThreadGivesUp(n)
    <3>1. thread[n].ptr \in Data /\ DataStay(thread[n].ptr) /\ SameStatus(thread[n].ptr)
      BY <2>3 DEF ThreadGivesUp, CountIs, LiveThreadInv, IsAt
    <3> QED
      BY <1>1, <3>1
  <2>4. ASSUME NEW o \in Users, DestroysWithin(n, o) PROVE SameStatus(d) \/ data'[d].mnStatus # "ended"
    <3>1. mpData[o] \in Data /\ DataStay(mpData[o]) /\ SameStatus(mpData[o])
      BY <2>4 DEF DestroysWithin, CountIs, LiveThreadInv, IsAt
    <3> QED
      BY <1>1, <3>1
  <2> QED
    BY <1>3, <2>1, <2>2, <2>3, <2>4 DEF ThreadDoes
<1> QED
  BY <1>2, <1>3

\* A call that waits goes on for the same thread.
LEMMA WaitedDataStays ==
    ASSUME ThreadInv, NEW u \in Users, user[u].pc \in Waiting, user'[u].pc \in Waiting, user'[u].obj = user[u].obj,
           NEW d, d = Of(u), NEW n, n = data[d].mSysThreadId,
           \/ \E v \in Users : UserDoes(v)
           \/ \E m \in Threads : ThreadDoes(m)
    PROVE  /\ d \in Data /\ n \in Threads /\ Of(u)' = d /\ data'[d].mSysThreadId = n
           /\ IsAt(n, "exited") => IsAt(n, "exited")'
<1>1. d \in Data /\ n \in Threads /\ ~IsAt(n, "unborn") /\ thread[n].ptr = d /\ data[d].mnRefCount > 0
  BY WaitedData
<1> SUFFICES ASSUME NEW o, o = user[u].obj
             PROVE  /\ d \in Data /\ n \in Threads /\ Of(u)' = d /\ data'[d].mSysThreadId = n
                    /\ IsAt(n, "exited") => IsAt(n, "exited")'
  OBVIOUS
<1>2. Of(u)' = d
  <2>1. Settled(o, d)'
    BY WaitedObjectsStay
  <2> QED
    BY <2>1 DEF Settled, Of
<1>3. data'[d].mSysThreadId = n
  BY <1>1, SysStays, Apart DEF IsFreed
<1>4. ThreadsGoOn
  BY ThreadsAlwaysGoOn DEF ThreadInv
<1> QED
  BY <1>1, <1>2, <1>3, <1>4 DEF ThreadsGoOn, IsAt

\* The labels of a call that has seen the end of its thread.
Told(u) ==
    \/ user[u].pc \in {"close", "closeForStatus", "zero", "zeroForStatus"}
    \/ user[u].pc \in {"unlockRun", "return"} /\ user[u].answer = "ended"

LEMMA ToldTruth ==
    ASSUME ThreadInv, NEW u \in Users, Told(u)'
    PROVE  (\E v \in Users : UserDoes(v)) \/ (\E m \in Threads : ThreadDoes(m)) =>
               /\ data'[Of(u)'].mSysThreadId # None
               /\ thread'[data'[Of(u)'].mSysThreadId].pc = "exited"
<1> USE DEF ThreadInv
<1> SUFFICES ASSUME \/ \E v \in Users : UserDoes(v)
                    \/ \E m \in Threads : ThreadDoes(m)
             PROVE  /\ data'[Of(u)'].mSysThreadId # None
                    /\ thread'[data'[Of(u)'].mSysThreadId].pc = "exited"
  OBVIOUS
<1>0. TypeOK /\ WaitersWait(u) /\ user'[u].pc \in Waiting
  BY OthersStay DEF Told, Waiting, WaitLabels, StatusLabels
<1>1. CASE user[u].pc \in Waiting /\ user'[u].obj = user[u].obj
  <2> SUFFICES ASSUME NEW d, d = Of(u), NEW n, n = data[d].mSysThreadId
               PROVE  /\ data'[Of(u)'].mSysThreadId # None
                      /\ thread'[data'[Of(u)'].mSysThreadId].pc = "exited"
    OBVIOUS
  <2>1. /\ d \in Data /\ n \in Threads /\ Of(u)' = d /\ data'[d].mSysThreadId = n
        /\ IsAt(n, "exited") => IsAt(n, "exited")'
    BY <1>0, <1>1, WaitedDataStays
  <2>2. Told(u) => IsAt(n, "exited")
    BY DEF Told, EndInv, TheData
  <2>3. CASE user'[u] = user[u]
    BY <2>3, <2>1, <2>2, Apart DEF Told, IsAt
  <2>4. ASSUME NEW p \in UserLabels, NEW a \in Answers, WaitsOn(u, p, a) PROVE IsAt(n, "exited")
    <3>1. user'[u].pc = p /\ user'[u].answer = a
      BY <2>4 DEF WaitsOn, UserIs
    <3>2. p = "close" \/ (p = "return" /\ a = "ended")
      BY <2>4, <3>1 DEF Told, WaitsOn, WaitLabels
    <3>3. CASE p = "close"
      BY <2>4, <3>3 DEF WaitsOn, TheData
    <3>4. CASE p = "return" /\ a = "ended" /\ At(u, "unlockRun")
      <4>1. user[u].answer = "ended"
        BY <2>4, <3>4 DEF WaitsOn, At
      <4> QED
        BY <2>2, <3>4, <4>1 DEF Told, At
    <3>5. CASE platform = "pc" /\ data[d].mThreadId = None
      BY <2>1, <3>5, Apart DEF EndInv
    <3> QED
      BY <2>4, <3>2, <3>3, <3>4, <3>5 DEF WaitsOn, TheData
  <2>5. ASSUME NEW m \in Threads, Joins(u, m) PROVE IsAt(n, "exited")
    BY <2>5 DEF Joins, TheData
  <2>6. ASSUME Closes(u) \/ Zeroes(u) PROVE IsAt(n, "exited")
    BY <2>2, <2>6 DEF Closes, Zeroes, Told
  <2>7. IsAt(n, "exited") \/ user'[u] = user[u]
    BY <1>0, <1>1, <2>4, <2>5, <2>6, WaitersGoOn
  <2> QED
    BY <2>1, <2>3, <2>7, Apart DEF IsAt
<1>2. CASE Polled(u)
  BY <1>2 DEF Polled, UserGoes, UserIs, Told
<1>3. ASSUME NEW o \in Users, CallsWait(u, o) PROVE FALSE
  BY <1>3 DEF CallsWait, UserIs, Told
<1>4. ASSUME NEW o \in Users, CallsStatus(u, o)
      PROVE  /\ data'[Of(u)'].mSysThreadId # None
             /\ thread'[data'[Of(u)'].mSysThreadId].pc = "exited"
  <2> SUFFICES ASSUME NEW d, d = mpData[o]
               PROVE  /\ data'[Of(u)'].mSysThreadId # None
                      /\ thread'[data'[Of(u)'].mSysThreadId].pc = "exited"
    OBVIOUS
  <2>1. d \in Data /\ HasObject(o, d) /\ Of(u)' = d
    BY <1>4, CallersFindData DEF Settled
  <2>2. data' = data /\ thread' = thread /\ data[d].mThreadId # None /\ IsAt(data[d].mThreadId, "exited")
    BY <1>4 DEF CallsStatus
  <2>3. data[d].mThreadId \in Threads
    BY <1>0, <2>1, <2>2, Fields DEF ObjectInv, External
  <2>4. data[d].mSysThreadId = data[d].mThreadId
    BY <2>1, <2>3 DEF DataInv
  <2> QED
    BY <2>1, <2>2, <2>3, <2>4, Apart DEF IsAt
<1>5. CASE user'[u] = user[u] /\ user[u].pc \notin Waiting
  BY <1>0, <1>5
<1> QED
  BY <1>0, <1>1, <1>2, <1>3, <1>4, <1>5 DEF WaitersWait

\* Data is given to a thread by who makes the thread.
LEMMA SysIsGiven ==
    ASSUME ThreadInv, NEW d \in Data, data[d].mSysThreadId = None, data'[d].mSysThreadId # None,
           \/ \E v \in Users : UserDoes(v)
           \/ \E m \in Threads : ThreadDoes(m)
    PROVE  \E u \in Users, n \in Threads :
              /\ d = user[u].ptr /\ data'[d].mSysThreadId = n /\ data'[d].mnStatus = data[d].mnStatus
              /\ MakesThread(u, n) \/ \E q \in {"suspended", "created"} : Creates(u, n, q)
<1> USE DEF ThreadInv
<1>0. TypeOK
  OBVIOUS
<1>1. ~IsFreed(d) /\ ~Lives(d)
  <2>1. data'[d] # Fresh
    BY FreshFields
  <2> QED
    BY <2>1 DEF IsFreed, Lives, Life
<1>2. PICK u \in Users : UserDoes(u) /\ IsMade(u, d)
  BY <1>1, DataMoves
<1>3. CASE \E n \in Threads, q \in {"suspended", "created"} : Creates(u, n, q) /\ d = user[u].ptr
  BY <1>3 DEF Creates, SameStatus
<1>4. ~(Identifies(u) /\ d = user[u].ptr)
  BY DEF Identifies, Life
<1>5. ~Begins(u) \/ ~(~data[d].used
          /\ data'[d] = [Fresh EXCEPT !.used = TRUE, !.live = TRUE, !.mThreadId = u,
                                      !.mnRefCount = IF platform = "cpp11" THEN 3 ELSE 2])
  <2> DEFINE k == IF platform = "cpp11" THEN 3 ELSE 2
  <2> SUFFICES ASSUME data'[d] = [Fresh EXCEPT !.used = TRUE, !.live = TRUE, !.mThreadId = u, !.mnRefCount = k]
               PROVE  FALSE
    OBVIOUS
  <2> HIDE DEF k
  <2> QED
    BY FreshFields DEF DataRecords
<1>6. ~(data'[d] = [data[d] EXCEPT !.used = TRUE])
  BY <1>0, Fields DEF DataRecords
<1>7. ~(Constructs(u) /\ d = user[u].ptr)
  <2>1. ASSUME data'[d] = [Fresh EXCEPT !.used = TRUE, !.live = TRUE, !.mnRefCount = 3] PROVE FALSE
    BY <2>1, FreshFields DEF DataRecords
  <2> QED
    BY <2>1 DEF Constructs
<1>8. ASSUME NEW n \in Threads, MakesThread(u, n), d = user[u].ptr
      PROVE  data'[d].mSysThreadId = n /\ data'[d].mnStatus = data[d].mnStatus
  <2>1. data'[d] = [Fresh EXCEPT !.used = TRUE, !.live = TRUE, !.mnRefCount = 2, !.mSysThreadId = n]
    BY <1>8 DEF MakesThread
  <2>2. data'[d].mSysThreadId = n /\ data'[d].mnStatus = "none"
    BY <2>1, FreshFields DEF DataRecords
  <2>3. data[d].mnStatus = "none"
    BY <1>8, DeadFields DEF MakesThread, BuildInv
  <2> QED
    BY <2>2, <2>3
<1> QED
  BY <1>2, <1>3, <1>4, <1>5, <1>6, <1>7, <1>8 DEF IsMade

LEMMA UnnamedHaveEnded ==
    ASSUME ThreadInv, platform = "pc", NEW d \in Data, data'[d].mSysThreadId # None, data'[d].mThreadId = None,
           \/ \E v \in Users : UserDoes(v)
           \/ \E m \in Threads : ThreadDoes(m)
    PROVE  thread'[data'[d].mSysThreadId].pc = "exited"
<1> USE DEF ThreadInv
<1> SUFFICES ASSUME NEW n, n = data[d].mSysThreadId
             PROVE  thread'[data'[d].mSysThreadId].pc = "exited"
  OBVIOUS
<1>0. TypeOK /\ n \in Threads \cup {None}
  BY Fields
<1>1. n # None
  <2>1. ASSUME n = None PROVE FALSE
    <3> data[d].mSysThreadId = None
      BY <2>1
    <3>0. PICK u \in Users, m \in Threads :
            /\ d = user[u].ptr /\ data'[d].mSysThreadId = m /\ data'[d].mnStatus = data[d].mnStatus
            /\ MakesThread(u, m) \/ \E q \in {"suspended", "created"} : Creates(u, m, q)
      <4> HIDE DEF ThreadInv
      <4> QED
        BY SysIsGiven
    <3>1. \E q \in {"suspended", "created"} : Creates(u, m, q)
      BY <3>0 DEF MakesThread
    <3>2. data'[d].mThreadId = m
      BY <3>0, <3>1 DEF Creates
    <3> QED
      BY <3>2, Apart
  <2> QED
    BY <2>1
<1>2. data'[d].mSysThreadId = n
  BY <1>1, SysStays, FreshFields DEF IsFreed
<1>3. ThreadsGoOn
  BY ThreadsAlwaysGoOn
<1>4. IsAt(n, "exited")
  <2>1. CASE data[d].mThreadId = None
    BY <1>1, <2>1 DEF EndInv
  <2>2. CASE data[d].mThreadId # None
    <3>1. data[d].mThreadId \in Threads
      BY <1>0, <1>1, <2>2, Fields DEF DataInv
    <3>2. ~SameName(d) /\ ~IsFreed(d)
      BY <1>1, <1>2, <2>2, FreshFields DEF SameName, IsFreed
    <3>3. PICK u \in Users : d = Of(u) /\ (Zeroes(u) \/ \E m \in Threads : Joins(u, m))
      BY <3>1, <3>2, NamesStay
    <3>4. CASE Zeroes(u)
      BY <3>3, <3>4 DEF Zeroes, EndInv, TheData
    <3>5. CASE \E m \in Threads : Joins(u, m)
      BY <3>3, <3>5 DEF Joins, TheData
    <3> QED
      BY <3>3, <3>4, <3>5
  <2> QED
    BY <2>1, <2>2
<1> QED
  BY <1>0, <1>1, <1>2, <1>3, <1>4 DEF ThreadsGoOn, IsAt

Over == {"ended", "unlocked", "free", "exited"}

\* The function of a thread that has returned has returned for good.
LEMMA OverIsOver ==
    ASSUME ThreadInv, NEW n \in Threads, thread[n].pc \in Over,
           \/ \E u \in Users : UserDoes(u)
           \/ \E m \in Threads : ThreadDoes(m)
    PROVE  thread'[n].pc \in Over
<1>1. CASE thread'[n] = thread[n]
  BY <1>1
<1>2. ASSUME NEW u \in Users, UserDoes(u) PROVE thread'[n] = thread[n]
  <2>1. CASE Resumes(u)
    BY <2>1 DEF Resumes, ThreadGoes, ThreadIs, IsAt, Over
  <2>2. CASE \E m \in Threads : MakesThread(u, m)
    BY <2>2 DEF MakesThread, ThreadIs, IsAt, Over
  <2>3. CASE \E m \in Threads, q \in {"suspended", "created"} : Creates(u, m, q)
    BY <2>3 DEF Creates, ThreadIs, IsAt, Over
  <2> QED
    BY <1>2, <2>1, <2>2, <2>3 DEF UserDoes, Begins, Enumerates, Polled, Leaves, Closes, Zeroes, Allocates,
       Constructs, CreateFails, BeginEnds, Continues, Identifies, Publishes, ReleasesOld, Destroys, AddsRef, ReleasesEnumerated,
       UserHasFreed, Marks, CallsWait, CallsStatus, Assigns, WaitsOn, Joins
<1>3. ASSUME NEW m \in Threads, ThreadDoes(m) PROVE thread'[n].pc \in Over
  <2>1. ASSUME NEW p \in ThreadLabels, Proceeds(m, p) PROVE thread'[n].pc \in Over
    <3>1. m # n => thread'[n] = thread[n]
      BY <2>1 DEF Proceeds, ThreadGoes, ThreadIs
    <3>2. m = n => p = "unlocked" /\ thread'[n].pc = p
      BY <2>1 DEF Proceeds, ThreadGoes, ThreadIs, Over, IsAt
    <3> QED
      BY <3>1, <3>2 DEF Over
  <2>2. CASE ThreadHasFreed(m) \/ ThreadGivesUp(m)
    BY <2>2 DEF ThreadHasFreed, ThreadGivesUp, ThreadGoes, ThreadIs, Over
  <2>3. CASE \E o \in Users : DestroysWithin(m, o)
    BY <2>3 DEF DestroysWithin
  <2> QED
    BY <1>3, <2>1, <2>2, <2>3 DEF ThreadDoes
<1> QED
  BY <1>1, <1>2, <1>3

LEMMA StatusGoesOn ==
    ASSUME ThreadInv,
           \/ \E u \in Users : UserDoes(u)
           \/ \E m \in Threads : ThreadDoes(m)
    PROVE  StatusTellsTruth'
<1> USE DEF ThreadInv
<1>0. TypeOK
  OBVIOUS
<1>1. ASSUME NEW d \in Data, data'[d].mnStatus = "ended", NEW n, n = data[d].mSysThreadId
      PROVE  data'[d].mSysThreadId # None /\ thread'[data'[d].mSysThreadId].pc \in Over
  <2>1. ~IsFreed(d)
    BY <1>1, FreshFields DEF IsFreed
  <2>2. ASSUME n # None, thread[n].pc \in Over
        PROVE  data'[d].mSysThreadId # None /\ thread'[data'[d].mSysThreadId].pc \in Over
    <3>1. data'[d].mSysThreadId = n
      BY <1>1, <2>1, <2>2, SysStays
    <3>2. n \in Threads
      BY <1>0, <1>1, <2>2, Fields
    <3> QED
      BY <2>2, <3>1, <3>2, OverIsOver
  <2>3. CASE SameStatus(d)
    BY <1>1, <2>2, <2>3 DEF SameStatus, EndInv, StatusTellsTruth, Over
  <2>4. ASSUME NEW u \in Users, d = Of(u), Zeroes(u)
        PROVE  n # None /\ thread[n].pc \in Over
    <3>1. IsAt(n, "exited")
      BY <1>1, <2>4 DEF Zeroes, EndInv, TheData
    <3>2. n \in Threads
      BY <1>1, <2>4, WaitedData DEF Zeroes, Waiting, WaitLabels, StatusLabels
    <3> QED
      BY <3>1, <3>2, Apart DEF IsAt, Over
  <2>5. ASSUME NEW o \in Users, d = mpData[o], Marks(o)
        PROVE  n # None /\ thread[n].pc \in Over
    <3>1. HasObject(o, d) /\ ~At(o, "create")
      BY <2>5 DEF Marks, HasObject, InBegin, BeginLabels, At
    <3>2. n # None
      BY <1>1, <3>1 DEF ObjectInv
    <3>3. IsAt(n, "exited")
      BY <1>1, <2>5, <3>2 DEF Marks, EndInv
    <3> QED
      BY <3>2, <3>3 DEF IsAt, Over
  <2>6. ASSUME NEW m \in Threads, ThreadDoes(m), d = thread[m].ptr, thread'[m].pc = "ended",
               data'[d].mSysThreadId = data[d].mSysThreadId
        PROVE  data'[d].mSysThreadId # None /\ thread'[data'[d].mSysThreadId].pc \in Over
    <3>1. \E p \in ThreadLabels : Proceeds(m, p) \/ thread[m].pc = "ended"
      BY <2>6, Labels DEF ThreadDoes, ThreadHasFreed, ThreadGivesUp, DestroysWithin, ThreadGoes, ThreadIs
    <3>2. thread[m].pc \notin {"unborn", "exited"}
      BY <3>1 DEF Proceeds
    <3>3. data[d].mSysThreadId = m
      BY <2>6, <3>2 DEF LiveThreadInv, IsAt
    <3> QED
      BY <2>6, <3>3, Apart DEF Over
  <2> QED
    BY <1>1, <2>2, <2>3, <2>4, <2>5, <2>6, StatusMoves
<1> QED
  BY <1>1 DEF StatusTellsTruth, Over

LEMMA EndsGoOn ==
    ASSUME ThreadInv,
           \/ \E u \in Users : UserDoes(u)
           \/ \E m \in Threads : ThreadDoes(m)
    PROVE  EndInv'
<1>1. \A u \in Users : Told(u)' =>
         /\ data'[Of(u)'].mSysThreadId # None
         /\ thread'[data'[Of(u)'].mSysThreadId].pc = "exited"
  BY ToldTruth
<1>2. platform' = "pc" => \A d \in Data : data'[d].mSysThreadId # None /\ data'[d].mThreadId = None =>
         thread'[data'[d].mSysThreadId].pc = "exited"
  <2>1. CASE \E u \in Users : TRUE
    <3>1. platform' = platform
      BY <2>1, OthersStay
    <3> QED
      BY <3>1, UnnamedHaveEnded
  <2>2. CASE ~\E u \in Users : TRUE
    <3>1. PICK m \in Threads : ThreadDoes(m)
      BY <2>2
    <3>2. platform' = platform
      BY <3>1 DEF ThreadDoes, Proceeds, ThreadHasFreed, ThreadGivesUp, DestroysWithin
    <3> QED
      BY <3>2, UnnamedHaveEnded
  <2> QED
    BY <2>1, <2>2
<1>3. StatusTellsTruth'
  BY StatusGoesOn
<1> QED
  BY <1>1, <1>2, <1>3 DEF EndInv, Told, TheData, IsAt

-----------------------------------------------------------------------------
(* The handles of threads.                                                 *)

\* The data of a thread names it, Begin has yet to write its name there, a call
\* has closed its handle and has yet to write that.
Names(n, d) == data[d].mThreadId = n
Naming(n, d) == data[d].mSysThreadId = n /\ \E u \in Users : At(u, "identify") /\ user[u].ptr = d
HasClosed(u, d) == user[u].pc \in {"zero", "zeroForStatus"} /\ Of(u) = d
Closed(d) == \E u \in Users : HasClosed(u, d)
Held(n, d) == (Names(n, d) \/ Naming(n, d)) /\ ~(Names(n, d) /\ Closed(d))
HandleIsRight(n) == handle[n] = IF IsAt(n, "unborn") \/ Held(n, thread[n].ptr) THEN 0 ELSE 1
AllHandlesAreRight == \A n \in Threads : HandleIsRight(n)

\* The sets HandlesAreReleasedOnce speaks of.
Named(n) == {d \in Data : data[d].mThreadId = n}
NamingUsers(n) == {u \in Users : At(u, "identify") /\ data[user[u].ptr].mSysThreadId = n}
ClosingUsers(n) == {u \in Users : user[u].pc \in {"zero", "zeroForStatus"} /\ Of(u) \in Named(n)}

LEMMA HandlesPointwise ==
    ASSUME UserInv, DataInv, LiveThreadInv
    PROVE  HandlesAreReleasedOnce <=> AllHandlesAreRight
<1>1. HandlesAreReleasedOnce <=> \A n \in Threads :
          handle[n] = IF IsAt(n, "unborn") \/ (Named(n) \cup NamingUsers(n) # {} /\ ClosingUsers(n) = {}) THEN 0 ELSE 1
  BY DEF HandlesAreReleasedOnce, Named, NamingUsers, ClosingUsers
<1>2. ASSUME NEW n \in Threads, ~IsAt(n, "unborn"), NEW d, d = thread[n].ptr
      PROVE  (Named(n) \cup NamingUsers(n) # {} /\ ClosingUsers(n) = {}) <=> Held(n, d)
  <2>1. d \in Data /\ n # None
    BY <1>2, Apart DEF LiveThreadInv
  <2>2. \A e \in Data : data[e].mSysThreadId = n => e = d
    BY <1>2, <2>1 DEF DataInv
  <2>3. ASSUME NEW e \in Data, data[e].mThreadId = n PROVE e = d
    <3>1. data[e].mSysThreadId = n
      BY <2>3 DEF DataInv
    <3> QED
      BY <2>2, <3>1
  <2>4. \A u \in Users : At(u, "identify") => user[u].ptr \in Data
    BY DEF UserInv, Building, At
  <2>5. Named(n) # {} <=> Names(n, d)
    BY <2>1, <2>3 DEF Names, Named
  <2>6. NamingUsers(n) # {} <=> Naming(n, d)
    BY <2>2, <2>4 DEF Naming, NamingUsers
  <2>7. ClosingUsers(n) # {} <=> Names(n, d) /\ Closed(d)
    BY <2>1, <2>3 DEF Names, Named, Closed, HasClosed, ClosingUsers
  <2> QED
    BY <2>5, <2>6, <2>7 DEF Held
<1>3. \A n \in Threads :
          (IsAt(n, "unborn") \/ (Named(n) \cup NamingUsers(n) # {} /\ ClosingUsers(n) = {}))
              <=> (IsAt(n, "unborn") \/ Held(n, thread[n].ptr))
  BY <1>2
<1> QED
  BY <1>1, <1>3 DEF AllHandlesAreRight, HandleIsRight

LEMMA HandlesPointwiseStill ==
    (UserInv /\ DataInv /\ LiveThreadInv)' => (AllHandlesAreRight' => HandlesAreReleasedOnce')
<1>1. UserInv /\ DataInv /\ LiveThreadInv => (AllHandlesAreRight => HandlesAreReleasedOnce)
  BY HandlesPointwise
<1> QED
  BY <1>1, PTL

\* Steps that join, detach or close.
LEMMA HandleMoves ==
    ASSUME ThreadInv, NEW n \in Threads
    PROVE  /\ \A u \in Users : UserDoes(u) =>
                 \/ handle'[n] = handle[n]
                 \/ /\ handle'[n] = handle[n] + 1
                    /\ \/ Joins(u, n)
                       \/ Closes(u) /\ Names(n, Of(u))
                       \/ UserHasFreed(u) /\ Names(n, user[u].ptr)
           /\ \A m \in Threads : ThreadDoes(m) =>
                 \/ handle'[n] = handle[n]
                 \/ handle'[n] = handle[n] + 1 /\ ThreadHasFreed(m) /\ Names(n, thread[m].ptr)
           /\ handle[n] \in Nat
<1>0. handle \in [Threads -> Nat]
  BY DEF ThreadInv, TypeOK
<1>1. \A m : Released(m) => handle'[n] = IF n = m THEN handle[n] + 1 ELSE handle[n]
  BY <1>0 DEF Released, Value
<1>2. ASSUME NEW u \in Users, UserDoes(u)
      PROVE  \/ handle'[n] = handle[n]
             \/ /\ handle'[n] = handle[n] + 1
                /\ \/ Joins(u, n)
                   \/ Closes(u) /\ Names(n, Of(u))
                   \/ UserHasFreed(u) /\ Names(n, user[u].ptr)
  <2>1. CASE \E m \in Threads : Joins(u, m)
    BY <1>1, <2>1 DEF Joins
  <2>2. CASE Closes(u)
    BY <1>1, <2>2 DEF Closes, Names, TheData
  <2>3. CASE UserHasFreed(u)
    BY <1>1, <2>3 DEF UserHasFreed, Frees, Names
  <2> QED
    BY <1>2, <2>1, <2>2, <2>3 DEF UserDoes, Begins, Enumerates, Polled, Leaves, Zeroes, Allocates, Constructs,
       CreateFails, Resumes, BeginEnds, Continues, Identifies, Publishes, ReleasesOld, Destroys, AddsRef, ReleasesEnumerated,
       Marks, CallsWait, CallsStatus, Assigns, WaitsOn, MakesThread, Creates
<1>3. ASSUME NEW m \in Threads, ThreadDoes(m)
      PROVE  \/ handle'[n] = handle[n]
             \/ handle'[n] = handle[n] + 1 /\ ThreadHasFreed(m) /\ Names(n, thread[m].ptr)
  <2>1. CASE ThreadHasFreed(m)
    BY <1>1, <2>1 DEF ThreadHasFreed, Frees, Names
  <2> QED
    BY <1>3, <2>1 DEF ThreadDoes, Proceeds, ThreadGivesUp, DestroysWithin
<1> QED
  BY <1>0, <1>2, <1>3

\* Who frees frees data nobody waits for and Begin does not make.
LEMMA FreedIsNobodys ==
    ASSUME ThreadInv, NEW d \in Data, data[d].mnRefCount = 0
    PROVE  /\ \A u \in Users : user[u].pc \in Waiting => Of(u) # d
           /\ \A u \in Users : user[u].pc \in Building \ {"construct"} => user[u].ptr # d
<1>1. ASSUME NEW u \in Users, user[u].pc \in Waiting, Of(u) = d PROVE FALSE
  <2>1. data[d].mnRefCount > 0
    BY <1>1, WaitedData
  <2> QED
    BY <2>1
<1>2. ASSUME NEW u \in Users, user[u].pc \in Building \ {"construct"}, user[u].ptr = d PROVE FALSE
  <2>1. data[d].mnRefCount > 0
    BY <1>2, BuiltData
  <2> QED
    BY <2>1
<1> QED
  BY <1>1, <1>2

\* A thread that was made: what changes what its data says.
LEMMA NameComes ==
    ASSUME ThreadInv, NEW n \in Threads, ~IsAt(n, "unborn"), NEW d \in Data, ~Names(n, d), Names(n, d)',
           \/ \E u \in Users : UserDoes(u)
           \/ \E m \in Threads : ThreadDoes(m)
    PROVE  \E u \in Users : UserDoes(u) /\ Identifies(u) /\ d = user[u].ptr /\ data[d].mSysThreadId = n
<1> USE DEF ThreadInv
<1>0. TypeOK /\ n # None /\ n \notin Users
  BY Apart
<1>1. data'[d].mThreadId # None /\ data'[d].mThreadId # data[d].mThreadId /\ data'[d] # data[d]
  BY <1>0 DEF Names
<1>2. ~IsFreed(d) /\ ~SameName(d)
  BY <1>1, FreshFields DEF IsFreed, SameName
<1>3. PICK u \in Users : UserDoes(u) /\ IsMade(u, d)
  BY <1>1, <1>2, DataMoves
<1>4. ASSUME NEW m \in Threads, NEW q \in {"suspended", "created"}, Creates(u, m, q), d = user[u].ptr PROVE FALSE
  BY <1>0, <1>1, <1>4 DEF Creates, Names
<1>5. ~(~data[d].used /\ data'[d] = [Fresh EXCEPT !.used = TRUE, !.live = TRUE, !.mThreadId = u,
                                      !.mnRefCount = IF platform = "cpp11" THEN 3 ELSE 2])
  <2> DEFINE k == IF platform = "cpp11" THEN 3 ELSE 2
  <2> SUFFICES ASSUME data'[d] = [Fresh EXCEPT !.used = TRUE, !.live = TRUE, !.mThreadId = u, !.mnRefCount = k]
               PROVE  FALSE
    OBVIOUS
  <2> HIDE DEF k
  <2>1. data'[d].mThreadId = u
    BY FreshFields DEF DataRecords
  <2> QED
    BY <1>0, <2>1 DEF Names
<1>6. ~(data'[d] = [data[d] EXCEPT !.used = TRUE])
  BY <1>0, <1>1, Fields DEF DataRecords
<1>7. ASSUME \/ data'[d] = [Fresh EXCEPT !.used = TRUE, !.live = TRUE, !.mnRefCount = 3]
             \/ \E m : data'[d] = [Fresh EXCEPT !.used = TRUE, !.live = TRUE, !.mnRefCount = 2, !.mSysThreadId = m]
      PROVE  FALSE
  <2>1. data'[d].mThreadId = None
    BY <1>7, FreshFields DEF DataRecords
  <2> QED
    BY <1>1, <2>1
<1>8. Identifies(u) /\ d = user[u].ptr
  BY <1>3, <1>4, <1>5, <1>6, <1>7 DEF IsMade, Constructs, MakesThread
<1> QED
  BY <1>3, <1>8 DEF Identifies, Names

LEMMA NamingMoves ==
    ASSUME ThreadInv, NEW n \in Threads, ~IsAt(n, "unborn"), NEW d \in Data,
           \/ \E u \in Users : UserDoes(u)
           \/ \E m \in Threads : ThreadDoes(m)
    PROVE  /\ Naming(n, d)' => Naming(n, d)
           /\ Naming(n, d) => Naming(n, d)' \/ \E u \in Users : UserDoes(u) /\ Identifies(u) /\ d = user[u].ptr
<1> USE DEF ThreadInv
<1>0. TypeOK /\ n # None
  BY Apart
<1>1. ASSUME Naming(n, d)' PROVE Naming(n, d)
  <2>1. PICK v \in Users : data'[d].mSysThreadId = n /\ user'[v].pc = "identify" /\ user'[v].ptr = d
    BY <1>1 DEF Naming, At
  <2>2. ASSUME NEW u \in Users, NEW m \in Threads, d = user[u].ptr, data'[d].mSysThreadId = m,
               MakesThread(u, m) \/ \E q \in {"suspended", "created"} : Creates(u, m, q)
        PROVE  FALSE
    BY <2>1, <2>2 DEF MakesThread, Creates
  <2>3. data[d].mSysThreadId = n
    <3>1. CASE data[d].mSysThreadId = None
      <4>1. PICK u \in Users, m \in Threads :
              /\ d = user[u].ptr /\ data'[d].mSysThreadId = m /\ data'[d].mnStatus = data[d].mnStatus
              /\ MakesThread(u, m) \/ \E q \in {"suspended", "created"} : Creates(u, m, q)
        <5>1. data'[d].mSysThreadId # None
          BY <1>0, <2>1
        <5> HIDE DEF ThreadInv
        <5> QED
          BY <3>1, <5>1, SysIsGiven
      <4> QED
        BY <2>2, <4>1
    <3>2. CASE data[d].mSysThreadId # None
      BY <1>0, <2>1, <3>2, SysStays, FreshFields DEF IsFreed
    <3> QED
      BY <3>1, <3>2
  <2>4. CASE At(v, "identify") /\ user'[v].ptr = user[v].ptr
    BY <2>1, <2>3, <2>4 DEF Naming
  <2>5. CASE user'[v] # user[v]
    <3>1. UserDoes(v)
      BY <2>5, OthersStay
    <3>2. Builds(v)
      BY <2>1, <3>1, BuildersBuild DEF Building
    <3>3. ~Allocates(v) /\ ~Constructs(v) /\ ~Resumes(v) /\ ~Identifies(v) /\ ~Publishes(v) /\ ~Continues(v)
      <4>1. ~Allocates(v)
        <5>1. ASSUME NEW e, UserIs(v, "construct", user[v].obj, e, user[v].next, user[v].answer) PROVE FALSE
          BY <2>1, <5>1 DEF UserIs
        <5> QED
          BY <5>1 DEF Allocates
      <4> QED
        BY <2>1, <4>1 DEF Constructs, Resumes, Identifies, Publishes, Continues, UserGoes, UserIs
    <3>4. PICK m \in Threads : MakesThread(v, m) \/ \E q \in {"suspended", "created"} : Creates(v, m, q)
      BY <3>2, <3>3 DEF Builds
    <3>5. user[v].ptr = d
      BY <2>1, <3>4 DEF MakesThread, Creates, UserGoes, UserIs
    <3>6. data'[d].mSysThreadId = m
      <4>1. CASE MakesThread(v, m)
        <5>1. data'[d] = [Fresh EXCEPT !.used = TRUE, !.live = TRUE, !.mnRefCount = 2, !.mSysThreadId = m]
          BY <3>5, <4>1 DEF MakesThread
        <5> QED
          BY <5>1, FreshFields DEF DataRecords
      <4>2. CASE \E q \in {"suspended", "created"} : Creates(v, m, q)
        BY <3>5, <4>2 DEF Creates
      <4> QED
        BY <3>4, <4>1, <4>2
    <3> QED
      BY <2>2, <3>4, <3>5, <3>6
  <2> QED
    BY <2>1, <2>4, <2>5 DEF At
<1>2. ASSUME Naming(n, d) PROVE Naming(n, d)' \/ \E u \in Users : UserDoes(u) /\ Identifies(u) /\ d = user[u].ptr
  <2>1. PICK v \in Users : data[d].mSysThreadId = n /\ At(v, "identify") /\ user[v].ptr = d
    BY <1>2 DEF Naming
  <2>2. data[d].mnRefCount > 0
    BY <2>1, BuiltData DEF At, Building
  <2>3. data'[d].mSysThreadId = n
    BY <1>0, <2>1, <2>2, SysStays DEF IsFreed
  <2>4. CASE user'[v] = user[v]
    BY <2>1, <2>3, <2>4 DEF Naming, At
  <2>5. CASE user'[v] # user[v]
    <3>1. UserDoes(v)
      BY <2>5, OthersStay
    <3>2. user'[v].pc # "identify"
      <4>1. user'[v].pc = "identify" => Builds(v)
        BY <3>1, BuildersBuild DEF Building
      <4>2. ~Allocates(v) /\ ~Constructs(v) /\ ~Resumes(v) /\ ~Publishes(v) /\ ~Continues(v)
            /\ (\A m \in Threads : ~MakesThread(v, m))
            /\ (\A m \in Threads, q \in {"suspended", "created"} : ~Creates(v, m, q))
        BY <2>1 DEF Allocates, Constructs, Resumes, Publishes, Continues, MakesThread, Creates, At
      <4>3. Identifies(v) => user'[v].pc # "identify"
        BY DEF Identifies, UserGoes, UserIs
      <4> QED
        BY <4>1, <4>2, <4>3 DEF Builds
    <3>3. Identifies(v)
      BY <2>1, <3>1, <3>2, CreatorsCreate DEF At
    <3> QED
      BY <2>1, <3>1, <3>3
  <2> QED
    BY <2>4, <2>5
<1> QED
  BY <1>1, <1>2

LEMMA ClosedMoves ==
    ASSUME ThreadInv, NEW d \in Data,
           \/ \E u \in Users : UserDoes(u)
           \/ \E m \in Threads : ThreadDoes(m)
    PROVE  /\ Closed(d)' => Closed(d) \/ \E u \in Users : UserDoes(u) /\ Closes(u) /\ d = Of(u)
           /\ Closed(d) => Closed(d)' \/ \E u \in Users : UserDoes(u) /\ Zeroes(u) /\ d = Of(u)
<1> DEFINE zeroes == {"zero", "zeroForStatus"}
<1>1. ASSUME Closed(d)' PROVE Closed(d) \/ \E u \in Users : UserDoes(u) /\ Closes(u) /\ d = Of(u)
  <2>1. PICK v \in Users : user'[v].pc \in zeroes /\ Of(v)' = d
    BY <1>1 DEF Closed, HasClosed
  <2>2. user'[v].pc \in Waiting
    BY <2>1 DEF Waiting, WaitLabels, StatusLabels
  <2>3. ~Calls(v) /\ ~Polled(v)
    <3>1. ASSUME NEW o \in Users, CallsWait(v, o) PROVE FALSE
      BY <2>1, <3>1 DEF CallsWait, UserIs
    <3>2. ASSUME NEW o \in Users, CallsStatus(v, o) PROVE FALSE
      BY <2>1, <3>2 DEF CallsStatus, UserIs
    <3>3. ~Polled(v)
      BY <2>1 DEF Polled, UserGoes, UserIs
    <3> QED
      BY <3>1, <3>2, <3>3 DEF Calls
  <2>4. user[v].pc \in Waiting /\ Of(v) = d
    BY <2>1, <2>2, <2>3, WaitedFor DEF At, Waiting, WaitLabels, StatusLabels
  <2>5. CASE user'[v] = user[v]
    BY <2>1, <2>4, <2>5 DEF Closed, HasClosed
  <2>6. CASE user'[v] # user[v]
    <3>1. ASSUME NEW p, NEW a, WaitsOn(v, p, a) PROVE FALSE
      BY <2>1, <3>1 DEF WaitsOn, UserIs, WaitLabels
    <3>2. ASSUME NEW m, Joins(v, m) PROVE FALSE
      BY <2>1, <3>2 DEF Joins, UserIs
    <3>3. ~Zeroes(v)
      BY <2>1 DEF Zeroes, UserReturns, UserIs
    <3>4. Closes(v)
      BY <2>2, <2>4, <2>6, <3>1, <3>2, <3>3, WaitersGoOn
    <3> QED
      BY <2>4, <2>6, <3>4, OthersStay
  <2> QED
    BY <2>5, <2>6
<1>2. ASSUME Closed(d) PROVE Closed(d)' \/ \E u \in Users : UserDoes(u) /\ Zeroes(u) /\ d = Of(u)
  <2>1. PICK v \in Users : user[v].pc \in zeroes /\ Of(v) = d
    BY <1>2 DEF Closed, HasClosed
  <2>2. user[v].pc \in Waiting
    BY <2>1 DEF Waiting, WaitLabels, StatusLabels
  <2>3. CASE user'[v] = user[v]
    <3>1. Of(v)' = d
      <4> SUFFICES ASSUME NEW n, n = data[d].mSysThreadId PROVE Of(v)' = d
        OBVIOUS
      <4> QED
        BY <2>1, <2>2, <2>3, WaitedDataStays
    <3> QED
      BY <2>1, <2>3, <3>1 DEF Closed, HasClosed
  <2>4. CASE user'[v] # user[v]
    <3>1. UserDoes(v)
      BY <2>4, OthersStay
    <3>2. ~Marks(v)
      BY <2>4 DEF Marks
    <3>3. Zeroes(v)
      BY <2>1, <3>1, <3>2 DEF UserDoes, Begins, Enumerates, Polled, Leaves, Closes, Allocates, Constructs,
         CreateFails, Resumes, BeginEnds, Continues, Identifies, Publishes, ReleasesOld, Destroys, AddsRef, ReleasesEnumerated,
         UserHasFreed, CallsWait, CallsStatus, Assigns, WaitsOn, Joins, MakesThread, Creates, At, WaitLabels
    <3> QED
      BY <2>1, <3>1, <3>3
  <2> QED
    BY <2>3, <2>4
<1> QED
  BY <1>1, <1>2

\* A handle that a step releases was held until then.
LEMMA HandlesGoOn ==
    ASSUME ThreadInv, NEW n \in Threads, ~IsAt(n, "unborn"), NEW d, d = thread[n].ptr,
           \/ \E u \in Users : UserDoes(u)
           \/ \E m \in Threads : ThreadDoes(m)
    PROVE  \/ handle'[n] = handle[n] /\ (Held(n, d)' <=> Held(n, d))
           \/ handle'[n] = handle[n] + 1 /\ Held(n, d) /\ ~Held(n, d)'
<1> USE DEF ThreadInv
<1>0. TypeOK /\ d \in Data /\ n # None /\ WaitInv /\ UserInv /\ BuildInv
  BY Apart DEF LiveThreadInv
<1>1. \A e \in Data : Names(n, e) => data[e].mSysThreadId = n
  <2>1. ASSUME NEW e \in Data, Names(n, e) PROVE data[e].mSysThreadId = n
    BY <2>1 DEF Names, DataInv
  <2> QED
    BY <2>1
<1>2. Naming(n, d) => ~Names(n, d)
  BY <1>0 DEF Names, Naming, BuildInv
<1>3. \A e \in Data : data[e].mSysThreadId = n => e = d
  BY <1>0 DEF DataInv
<1>4. \A e \in Data : Names(n, e) => e = d
  BY <1>1, <1>3
<1>5. \A u \in Users : user[u].pc \in Waiting => Of(u) \in Data
  BY <1>0 DEF WaitInv
<1>6. Naming(n, d)' => Naming(n, d)
  BY <1>0, NamingMoves
<1>7. ASSUME NEW u \in Users, user[u].pc \in Waiting, Of(u) = d, user[u].pc \notin {"zero", "zeroForStatus"}
      PROVE  ~Closed(d)
  BY <1>0, <1>7 DEF Closed, HasClosed, WaitInv, Waiting, WaitLabels, StatusLabels
<1>8. ASSUME NEW u \in Users, Joins(u, n)
      PROVE  handle'[n] = handle[n] + 1 /\ Held(n, d) /\ ~Held(n, d)'
  <2>1. user[u].pc \in {"joinLocked", "join"} /\ user[u].pc \in Waiting
    BY <1>8 DEF Joins, Waiting, WaitLabels
  <2>2. Of(u) = d
    BY <1>3, <1>5, <1>8, <2>1 DEF Joins, TheData
  <2>3. Names(n, d)
    <3>1. CASE platform \in {"unix", "kettle"}
      <4>1. Of(u) # None /\ user[user[u].obj].pc \notin {"create", "identify"}
        BY <1>0, <1>8, <2>1 DEF Joins, WaitInv
      <4>2. data[d].mThreadId \in Threads
        BY <2>1, <2>2, <3>1, <4>1 DEF JoinInv
      <4> QED
        BY <1>0, <1>8, <2>2, <4>2 DEF Joins, TheData, DataInv, Names
    <3> QED
      BY <1>8, <2>2, <3>1 DEF Joins, TheData, Names
  <2>4. ~Closed(d)
    BY <1>7, <2>1, <2>2
  <2>5. ~Names(n, d)'
    BY <1>0, <1>8, <2>2 DEF Joins, Names
  <2>6. ~Naming(n, d)'
    BY <1>2, <1>6, <2>3
  <2>7. handle'[n] = handle[n] + 1
    <3>1. Released(n)
      BY <1>8 DEF Joins
    <3> QED
      BY <3>1 DEF Released, Value
  <2> QED
    BY <2>3, <2>4, <2>5, <2>6, <2>7 DEF Held
<1>9. ASSUME NEW u \in Users, Closes(u), Names(n, Of(u)), handle'[n] = handle[n] + 1
      PROVE  handle'[n] = handle[n] + 1 /\ Held(n, d) /\ ~Held(n, d)'
  <2>1. user[u].pc \in {"close", "closeForStatus"} /\ user[u].pc \in Waiting
    BY <1>9 DEF Closes, Waiting, WaitLabels, StatusLabels
  <2>2. Of(u) = d
    BY <1>4, <1>5, <1>9, <2>1
  <2>3. Names(n, d) /\ ~Closed(d)
    BY <1>7, <1>9, <2>1, <2>2
  <2>4. data' = data /\ mpData' = mpData /\ user'[u].pc \in {"zero", "zeroForStatus"} /\ user'[u].obj = user[u].obj
    BY <1>9 DEF Closes, UserGoes, UserIs
  <2>5. Names(n, d)' /\ Of(u)' = d
    BY <2>2, <2>3, <2>4 DEF Names, Of
  <2>6. Closed(d)'
    BY <2>4, <2>5 DEF Closed, HasClosed
  <2> QED
    BY <1>9, <2>3, <2>5, <2>6 DEF Held
<1>10. ASSUME IsFreed(d), data'[d] = Fresh
       PROVE  ~Held(n, d)' /\ ~Naming(n, d) /\ ~Closed(d)
  <2>1. data[d].mnRefCount = 0
    BY <1>10 DEF IsFreed
  <2>2. ~Naming(n, d) /\ ~Closed(d)
    BY <1>0, <2>1, FreedIsNobodys DEF Naming, Closed, HasClosed, Building, Waiting, WaitLabels, StatusLabels, At
  <2>3. ~Names(n, d)'
    BY <1>0, <1>10, FreshFields DEF Names
  <2> QED
    BY <1>6, <2>2, <2>3 DEF Held
<1>11. ASSUME NEW e \in Data, Frees(e), Names(n, e), data[e].live, data[e].mnRefCount = 0, handle'[n] = handle[n] + 1
       PROVE  handle'[n] = handle[n] + 1 /\ Held(n, d) /\ ~Held(n, d)'
  <2>1. e = d /\ IsFreed(d) /\ data'[d] = Fresh
    BY <1>4, <1>11 DEF Frees, IsFreed
  <2>2. ~Held(n, d)' /\ ~Closed(d)
    BY <1>10, <2>1
  <2> QED
    BY <1>11, <2>1, <2>2 DEF Held
<1>12. handle'[n] = handle[n] \/ (handle'[n] = handle[n] + 1 /\ Held(n, d) /\ ~Held(n, d)')
  <2>1. ASSUME NEW u \in Users, UserHasFreed(u)
        PROVE  user[u].ptr \in Data /\ Frees(user[u].ptr) /\ data[user[u].ptr].live /\ data[user[u].ptr].mnRefCount = 0
    BY <2>1 DEF UserHasFreed, UserInv, FreeInv, At
  <2>2. ASSUME NEW m \in Threads, ThreadHasFreed(m)
        PROVE  thread[m].ptr \in Data /\ Frees(thread[m].ptr) /\ data[thread[m].ptr].live /\ data[thread[m].ptr].mnRefCount = 0
    BY <2>2 DEF ThreadHasFreed, LiveThreadInv, FreeInv, IsAt
  <2> QED
    BY <1>8, <1>9, <1>11, <2>1, <2>2, HandleMoves
<1> HIDE DEF ThreadInv
<1>13. ASSUME handle'[n] = handle[n] PROVE Held(n, d)' <=> Held(n, d)
  <2>0. ~(handle'[n] = handle[n] + 1)
    <3>1. handle[n] \in Nat
      BY HandleMoves
    <3> QED
      BY <1>13, <3>1
  <2>1. CASE IsFreed(d)
    <3>1. data'[d] = Fresh /\ ~Held(n, d)' /\ ~Naming(n, d)
      BY <1>10, <2>1 DEF IsFreed
    <3>2. ~Names(n, d)
      <4>1. ASSUME Names(n, d) PROVE FALSE
        <5>1. \/ \E u \in Users : UserHasFreed(u) /\ d = user[u].ptr
              \/ \E m \in Threads : ThreadHasFreed(m) /\ d = thread[m].ptr
          <6>1. data'[d].mThreadId # data[d].mThreadId /\ data'[d].mnRefCount = data[d].mnRefCount /\ data'[d].live # data[d].live
            BY <1>0, <2>1, <4>1, FreshFields DEF IsFreed, Names
          <6>2. data[d].mThreadId \in Threads /\ ~SameName(d) /\ ~Life(d)
            BY <4>1, <6>1 DEF Names, SameName, Life
          <6>3. ASSUME NEW u \in Users, UserDoes(u)
                PROVE  UserHasFreed(u) /\ d = user[u].ptr
            <7>1. ~(d = Of(u) /\ (Zeroes(u) \/ \E m \in Threads : Joins(u, m)))
              BY <6>2 DEF Zeroes, Joins
            <7>2. At(u, "free") /\ d = user[u].ptr
              BY <1>0, <6>2, <6>3, <7>1, NamesStay
            <7>3. ~Marks(u)
              BY <1>0, <7>2, <6>2 DEF Marks, Life, SameName, DataStay
            <7> QED
              BY <6>3, <7>2, <7>3 DEF UserDoes, Begins, Enumerates, Polled, Leaves, Closes, Zeroes, Allocates, Constructs,
                 CreateFails, Resumes, BeginEnds, Continues, Identifies, Publishes, ReleasesOld, Destroys, AddsRef, ReleasesEnumerated,
                 CallsWait, CallsStatus, Assigns, WaitsOn, Joins, MakesThread, Creates, At, WaitLabels
          <6>4. ASSUME NEW m \in Threads, ThreadDoes(m)
                PROVE  ThreadHasFreed(m) /\ d = thread[m].ptr
            <7>1. IsAt(m, "free") /\ d = thread[m].ptr
              BY <1>0, <6>2, <6>4, NamesStay
            <7> QED
              BY <6>4, <7>1 DEF ThreadDoes, Proceeds, ThreadGivesUp, DestroysWithin, IsAt
          <6> QED
            BY <6>3, <6>4
        <5>2. Released(n)
          BY <4>1, <5>1 DEF UserHasFreed, ThreadHasFreed, Frees, Names
        <5> QED
          BY <2>0, <5>2 DEF Released, Value
      <4> QED
        BY <4>1
    <3> QED
      BY <3>1, <3>2 DEF Held
  <2>2. ASSUME NEW u \in Users, UserDoes(u), Zeroes(u), d = Of(u)
        PROVE  Held(n, d)' <=> Held(n, d)
    <3>1. Closed(d) /\ ~Names(n, d)'
      BY <1>0, <2>2 DEF Closed, HasClosed, Zeroes, Names
    <3>2. Naming(n, d) => Naming(n, d)'
      <4>1. ASSUME NEW v \in Users, UserDoes(v), Identifies(v) PROVE FALSE
        BY <2>2, <4>1 DEF Identifies, Zeroes
      <4> QED
        BY <1>0, <4>1, NamingMoves
    <3> QED
      BY <1>2, <1>6, <3>1, <3>2 DEF Held
  <2>3. ASSUME NEW u \in Users, NEW m \in Threads, UserDoes(u), Joins(u, m), d = Of(u)
        PROVE  Held(n, d)' <=> Held(n, d)
    <3>1. m # n
      BY <1>8, <2>0, <2>3
    <3>2. data[d].mSysThreadId # n /\ ~Names(n, d)'
      BY <1>0, <2>3, <3>1 DEF Joins, TheData, Names
    <3> QED
      BY <1>0, <1>1, <1>6, <3>2 DEF Held, Naming
  <2>4. ASSUME NEW u \in Users, UserDoes(u), Identifies(u), d = user[u].ptr
        PROVE  Held(n, d)' <=> Held(n, d)
    <3>1. ~Names(n, d) /\ (Naming(n, d) <=> data[d].mSysThreadId = n)
      BY <1>0, <2>4 DEF Identifies, BuildInv, Names, Naming, At
    <3>2. Names(n, d)' <=> data[d].mSysThreadId = n
      BY <2>4 DEF Identifies, Names
    <3>3. ~Closed(d)'
      <4>1. platform # "pc"
        BY <2>4 DEF Identifies
      <4>2. ~Closed(d) /\ \A v \in Users : ~Closes(v)
        BY <1>0, <4>1 DEF Closed, HasClosed, UserInv, StatusLabels, Closes
      <4> QED
        BY <1>0, <4>2, ClosedMoves
    <3> QED
      BY <1>6, <3>1, <3>2, <3>3 DEF Held
  <2>5. ASSUME NEW u \in Users, UserDoes(u), Closes(u), d = Of(u)
        PROVE  Held(n, d)' <=> Held(n, d)
    <3>1. ~Names(n, d)
      <4>1. ASSUME Names(n, d) PROVE FALSE
        <5>1. Released(n)
          BY <2>5, <4>1 DEF Closes, Names, TheData
        <5> QED
          BY <2>0, <5>1 DEF Released, Value
      <4> QED
        BY <4>1
    <3>2. ~Names(n, d)'
      BY <2>5, <3>1 DEF Closes, Names
    <3>3. Naming(n, d) => Naming(n, d)'
      <4>1. ASSUME NEW v \in Users, UserDoes(v), Identifies(v) PROVE FALSE
        BY <2>5, <4>1 DEF Identifies, Closes
      <4> QED
        BY <1>0, <4>1, NamingMoves
    <3> QED
      BY <1>6, <3>1, <3>2, <3>3 DEF Held
  <2>6. CASE /\ ~IsFreed(d)
             /\ \A u \in Users : UserDoes(u) =>
                   /\ d = Of(u) => ~Zeroes(u) /\ ~Closes(u) /\ \A m \in Threads : ~Joins(u, m)
                   /\ d = user[u].ptr => ~Identifies(u)
    <3>1. Names(n, d) => Names(n, d)'
      BY <1>0, <2>6, NamesStay DEF Names, SameName
    <3>2. Names(n, d)' => Names(n, d)
      BY <1>0, <2>6, NameComes
    <3>3. Naming(n, d) => Naming(n, d)'
      BY <1>0, <2>6, NamingMoves
    <3>4. Closed(d)' <=> Closed(d)
      BY <1>0, <2>6, ClosedMoves
    <3> QED
      BY <1>6, <3>1, <3>2, <3>3, <3>4 DEF Held
  <2> QED
    BY <2>1, <2>2, <2>3, <2>4, <2>5, <2>6
<1> QED
  BY <1>12, <1>13

\* The handle of a new thread is to be released.
LEMMA NewHandleIsHeld ==
    ASSUME ThreadInv, NEW u \in Users, NEW n \in Threads,
           MakesThread(u, n) \/ (\E q \in {"suspended", "created"} : Creates(u, n, q))
    PROVE  HandleIsRight(n)'
<1> USE DEF ThreadInv
<1> SUFFICES ASSUME NEW d, d = user[u].ptr
             PROVE  HandleIsRight(n)'
  OBVIOUS
<1>0. TypeOK /\ WaitInv /\ UserInv /\ UserDoes(u)
  BY DEF UserDoes
<1>1. handle'[n] = 0
  <2>1. handle[n] = 0 /\ IsAt(n, "unborn")
    BY DEF HandlesAreReleasedOnce, MakesThread, Creates
  <2> QED
    BY <2>1 DEF MakesThread, Creates
<1>2. thread'[n].ptr = d /\ data'[d].mSysThreadId = n
  <2>1. CASE MakesThread(u, n)
    <3>1. data'[d] = [Fresh EXCEPT !.used = TRUE, !.live = TRUE, !.mnRefCount = 2, !.mSysThreadId = n]
      BY <2>1 DEF MakesThread
    <3>2. data'[d].mSysThreadId = n
      BY <3>1, FreshFields DEF DataRecords
    <3> QED
      BY <2>1, <3>2 DEF MakesThread, ThreadIs
  <2>2. CASE \E q \in {"suspended", "created"} : Creates(u, n, q)
    BY <2>2 DEF Creates, ThreadIs
  <2> QED
    BY <2>1, <2>2
<1>3. Names(n, d)' \/ Naming(n, d)'
  <2>1. CASE MakesThread(u, n) \/ platform = "kettle"
    <3>1. user'[u].pc = "identify" /\ user'[u].ptr = d
      BY <2>1 DEF MakesThread, Creates, UserGoes, UserIs
    <3> QED
      BY <1>2, <3>1 DEF Naming, At
  <2>2. CASE ~MakesThread(u, n) /\ platform # "kettle"
    BY <2>2 DEF Creates, Names
  <2> QED
    BY <2>1, <2>2
<1>4. ~(Names(n, d)' /\ Closed(d)')
  <2>1. ASSUME NEW v \in Users, user[v].pc \in Waiting, Of(v) = d PROVE FALSE
    <3>1. data[d].mSysThreadId # None /\ data[d].mnRefCount > 0
      BY <2>1, WaitedData, Apart
    <3>2. d \in Data
      BY <2>1, WaitedData
    <3>3. CASE MakesThread(u, n)
      BY <1>0, <3>1, <3>2, <3>3, DeadFields DEF MakesThread, BuildInv
    <3>4. CASE \E q \in {"suspended", "created"} : Creates(u, n, q)
      BY <1>0, <3>1, <3>4 DEF Creates, BuildInv
    <3> QED
      BY <3>3, <3>4
  <2>2. ~Closes(u) /\ \A v \in Users \ {u} : user'[v] = user[v]
    BY <1>0, OthersStay DEF Closes, MakesThread, Creates, At
  <2>3. mpData' = mpData /\ user'[u].pc \notin {"zero", "zeroForStatus"}
    BY DEF MakesThread, Creates, UserGoes, UserIs
  <2>4. ~Closed(d)'
    <3>1. ASSUME NEW v \in Users, user'[v].pc \in {"zero", "zeroForStatus"}, Of(v)' = d PROVE FALSE
      <4>1. user'[v] = user[v]
        BY <2>2, <2>3, <3>1
      <4>2. Of(v) = d /\ user[v].pc \in Waiting
        BY <2>3, <3>1, <4>1 DEF Of, Waiting, WaitLabels, StatusLabels
      <4> QED
        BY <2>1, <4>2
    <3> QED
      BY <3>1 DEF Closed, HasClosed
  <2> QED
    BY <2>4
<1>5. Held(n, thread[n].ptr)'
  BY <1>2, <1>3, <1>4 DEF Held, Names, Naming, Closed, HasClosed
<1> QED
  BY <1>1, <1>5 DEF HandleIsRight

LEMMA EveryHandleIsRight ==
    ASSUME ThreadInv, NEW n \in Threads,
           \/ \E u \in Users : UserDoes(u)
           \/ \E m \in Threads : ThreadDoes(m)
    PROVE  HandleIsRight(n)'
<1>0. TypeOK /\ HandleIsRight(n)
  BY HandlesPointwise DEF ThreadInv, AllHandlesAreRight
<1>1. CASE ~IsAt(n, "unborn")
  <2> SUFFICES ASSUME NEW d, d = thread[n].ptr
               PROVE  HandleIsRight(n)'
    OBVIOUS
  <2>1. thread'[n].pc # "unborn" /\ thread'[n].ptr = d
    BY <1>0, <1>1, ThreadsAlwaysGoOn DEF ThreadsGoOn
  <2>2. handle[n] = IF Held(n, d) THEN 0 ELSE 1
    BY <1>0, <1>1 DEF HandleIsRight
  <2>3. handle'[n] = IF Held(n, d)' THEN 0 ELSE 1
    <3>1. \/ handle'[n] = handle[n] /\ (Held(n, d)' <=> Held(n, d))
          \/ handle'[n] = handle[n] + 1 /\ Held(n, d) /\ ~Held(n, d)'
      BY <1>1, HandlesGoOn
    <3> QED
      BY <2>2, <3>1
  <2>4. Held(n, thread[n].ptr)' <=> Held(n, d)'
    BY <2>1 DEF Held, Names, Naming, Closed, HasClosed
  <2> QED
    BY <2>1, <2>3, <2>4 DEF HandleIsRight, IsAt
<1>2. CASE IsAt(n, "unborn") /\ thread'[n] = thread[n]
  <2>1. handle[n] = 0
    BY <1>0, <1>2 DEF HandleIsRight
  <2>2. handle'[n] = handle[n]
    <3>1. ASSUME NEW e \in Data PROVE ~Names(n, e) /\ data[e].mSysThreadId # n
      <4>1. data[e].mSysThreadId # n
        <5>1. ASSUME data[e].mSysThreadId = n PROVE FALSE
          <6>1. thread[data[e].mSysThreadId].pc # "unborn"
            BY <5>1, Apart DEF ThreadInv, DataInv
          <6> QED
            BY <1>2, <5>1, <6>1 DEF IsAt
        <5> QED
          BY <5>1
      <4>2. ASSUME Names(n, e) PROVE data[e].mSysThreadId = n
        BY <4>2 DEF Names, ThreadInv, DataInv
      <4> QED
        BY <4>1, <4>2
    <3>2. ASSUME NEW u \in Users, Joins(u, n) PROVE FALSE
      BY <1>2, <3>2 DEF Joins, IsAt
    <3>3. ASSUME NEW u \in Users, Closes(u) PROVE ~Names(n, Of(u))
      <4>1. Of(u) \in Data
        BY <3>3, WaitedData DEF Closes, Waiting, WaitLabels, StatusLabels
      <4> QED
        BY <3>1, <4>1
    <3>4. ASSUME NEW u \in Users, UserHasFreed(u) PROVE ~Names(n, user[u].ptr)
      BY <3>1, <3>4 DEF UserHasFreed, ThreadInv, UserInv, At
    <3>5. ASSUME NEW m \in Threads, ThreadHasFreed(m) PROVE ~Names(n, thread[m].ptr)
      BY <3>1, <3>5 DEF ThreadHasFreed, ThreadInv, LiveThreadInv, IsAt
    <3> QED
      BY <3>2, <3>3, <3>4, <3>5, HandleMoves
  <2> QED
    BY <1>2, <2>1, <2>2 DEF HandleIsRight, IsAt
<1>3. CASE IsAt(n, "unborn") /\ thread'[n] # thread[n]
  <2>1. ASSUME NEW u \in Users, UserDoes(u)
        PROVE  MakesThread(u, n) \/ (\E q \in {"suspended", "created"} : Creates(u, n, q))
    <3>1. CASE Resumes(u)
      BY <1>3, <3>1 DEF Resumes, ThreadGoes, ThreadIs, IsAt
    <3>2. CASE \E m \in Threads : MakesThread(u, m)
      BY <1>3, <3>2 DEF MakesThread, ThreadIs
    <3>3. CASE \E m \in Threads, q \in {"suspended", "created"} : Creates(u, m, q)
      BY <1>3, <3>3 DEF Creates, ThreadIs
    <3> QED
      BY <1>3, <2>1, <3>1, <3>2, <3>3 DEF UserDoes, Begins, Enumerates, Polled, Leaves, Closes, Zeroes, Allocates,
         Constructs, CreateFails, BeginEnds, Continues, Identifies, Publishes, ReleasesOld, Destroys, AddsRef, ReleasesEnumerated,
         UserHasFreed, Marks, CallsWait, CallsStatus, Assigns, WaitsOn, Joins
  <2>2. ASSUME NEW m \in Threads, ThreadDoes(m) PROVE FALSE
    BY <1>3, <2>2 DEF ThreadDoes, Proceeds, ThreadHasFreed, ThreadGivesUp, DestroysWithin, ThreadGoes, ThreadIs, IsAt
  <2> QED
    BY <2>1, <2>2, NewHandleIsHeld
<1> QED
  BY <1>1, <1>2, <1>3

-----------------------------------------------------------------------------
(* The invariant as a whole.                                               *)

\* A stuttering step.
LEMMA NothingMoves ==
    ASSUME ThreadInv, UNCHANGED threadVars
    PROVE  ThreadInv'
<1> USE DEF ThreadInv, threadVars
<1>1. TypeOK'
  BY DEF TypeOK
<1>2. CountInv'
  <2>1. ASSUME NEW d \in Data PROVE data'[d].mnRefCount = UserRefs(d)' + ThreadRefs(d)' + CallersOwn(d)'
    BY UserRefsStay, ThreadRefsStay DEF CountInv, CallersOwn, External
  <2> QED
    BY <2>1 DEF CountInv
<1>3. DataInv'
  BY DEF DataInv
<1>4. FreeInv'
  BY DEF FreeInv, At, IsAt
<1>5. UserInv'
  BY DEF UserInv, At
<1>6. BuildInv'
  BY DEF BuildInv, At, IsAt, HasObject
<1>7. LiveThreadInv'
  BY DEF LiveThreadInv, IsAt
<1>8. ObjectInv'
  BY DEF ObjectInv, HasObject, External, At
<1>9. WaitInv'
  BY DEF WaitInv, HasObject, Of, At
<1>10. JoinInv'
  BY DEF JoinInv, Of
<1>11. StartInv'
  BY DEF StartInv, TheData, Of, At
<1>12. EndInv'
  BY DEF EndInv, TheData, Of, IsAt, StatusTellsTruth
<1>13. HandlesAreReleasedOnce'
  BY DEF HandlesAreReleasedOnce, At, IsAt, Of
<1> QED
  BY <1>1, <1>2, <1>3, <1>4, <1>5, <1>6, <1>7, <1>8, <1>9, <1>10, <1>11, <1>12, <1>13

\* At first nobody has anything.
LEMMA ThreadsBegin ==
    ASSUME Init
    PROVE  ThreadInv
<1> USE DEF Init
<1>1. TypeOK
  BY DEF TypeOK, Fresh, Idle, UserLabels, ThreadLabels, Answers
<1>2. /\ \A u \in Users : user[u].pc = "idle" /\ user[u].obj = u /\ user[u].next = "idle" /\ user[u] = Idle(u)
                          /\ user[u].answer = "none"
      /\ \A n \in Threads : thread[n].pc = "unborn" /\ thread[n].ptr = None
      /\ \A d \in Data : /\ data[d] = Fresh /\ data[d].used = FALSE /\ data[d].live = FALSE
                         /\ data[d].mThreadId = None /\ data[d].mSysThreadId = None
                         /\ data[d].mnStatus = "none" /\ data[d].mnRefCount = 0
                         /\ data[d].mStartedSemaphore = 0
                         /\ data[d] = [Fresh EXCEPT !.used = data[d].used]
  BY FreshFields DEF Idle, Fresh
<1>3. CountInv
  <2>1. ASSUME NEW d \in Data PROVE data[d].mnRefCount = UserRefs(d) + ThreadRefs(d) + CallersOwn(d)
    <3>1. Objects(d) = {} /\ Beginning(d) = {} /\ Creating(d) = {} /\ Enumerated(d) = {} /\ Running(d) = {}
      BY <1>2, Apart DEF Objects, Beginning, Creating, Enumerated, Running, At
    <3>2. CallersOwn(d) = 0
      BY <1>2, Apart DEF CallersOwn, External
    <3> QED
      BY <1>2, <3>1, <3>2, FS_EmptySet DEF UserRefs, ThreadRefs
  <2> QED
    BY <2>1 DEF CountInv
<1>4. DataInv
  BY <1>2, Apart DEF DataInv
<1>5. FreeInv
  BY <1>2 DEF FreeInv, At, IsAt
<1>6. UserInv
  BY <1>2 DEF UserInv, At, Building, Waiting, WaitLabels, StatusLabels
<1>7. BuildInv
  BY <1>2 DEF BuildInv, At, Building
<1>8. LiveThreadInv
  BY <1>2 DEF LiveThreadInv, IsAt
<1>9. ObjectInv
  BY <1>2, Apart DEF ObjectInv, HasObject
<1>10. WaitInv
  BY <1>2 DEF WaitInv, At, Waiting, WaitLabels, StatusLabels
<1>11. JoinInv
  BY <1>2 DEF JoinInv
<1>12. StartInv
  BY <1>2 DEF StartInv, At
<1>13. EndInv
  BY <1>2 DEF EndInv, At, StatusTellsTruth
<1>14. HandlesAreReleasedOnce
  BY <1>2 DEF HandlesAreReleasedOnce, IsAt
<1> QED
  BY <1>1, <1>3, <1>4, <1>5, <1>6, <1>7, <1>8, <1>9, <1>10, <1>11, <1>12, <1>13, <1>14 DEF ThreadInv

\* Each step keeps the invariant.
LEMMA ThreadsGoRight ==
    ASSUME Careful, ThreadInv, [Next]_threadVars
    PROVE  ThreadInv'
<1>1. TypeOK' /\ (\/ UNCHANGED threadVars
                  \/ \E u \in Users : UserDoes(u)
                  \/ \E n \in Threads : ThreadDoes(n))
  BY NextDoes
<1>2. CASE UNCHANGED threadVars
  BY <1>2, NothingMoves
<1>3. CASE (\E u \in Users : UserDoes(u)) \/ (\E n \in Threads : ThreadDoes(n))
  <2>1. CountInv' /\ DataInv' /\ UserInv' /\ BuildInv' /\ LiveThreadInv'
    BY <1>3, CountGoesOn, DataGoesOn, UsersGoOn, BuildingGoesOn, LiveThreadsGoOn
  <2>2. FreeInv'
    BY <1>3, <2>1, FreeGoesOn
  <2>3. ObjectInv' /\ WaitInv' /\ JoinInv' /\ StartInv' /\ EndInv'
    BY <1>3, ObjectsGoOn, WaitingGoesOn, JoiningGoesOn, StartingGoesOn, EndsGoOn
  <2>4. HandlesAreReleasedOnce'
    <3>1. \A n \in Threads : HandleIsRight(n)'
      BY <1>3, EveryHandleIsRight
    <3>2. AllHandlesAreRight'
      BY <3>1 DEF AllHandlesAreRight
    <3> QED
      BY <2>1, <3>2, HandlesPointwiseStill
  <2> QED
    BY <1>1, <2>1, <2>2, <2>3, <2>4 DEF ThreadInv
<1> QED
  BY <1>1, <1>2, <1>3

\* What is without references is freed by one user or thread.
LEMMA FreersAreOne ==
    ASSUME ThreadInv, NEW d \in Data
    PROVE  Cardinality(Freeing(d)) = IF data[d].live /\ data[d].mnRefCount = 0 THEN 1 ELSE 0
<1>1. FreedOnce(d)
  BY FreeingIsOnce DEF ThreadInv
<1>2. \A a : a \in Freeing(d) <=> a \in Agents /\ IsFreer(a, d)
  BY DEF Freeing, Agents, IsFreer
<1>3. CASE Dying(d)
  <2>1. PICK a \in Agents : IsFreer(a, d)
    BY <1>1, <1>3 DEF FreedOnce
  <2>2. Freeing(d) = {a}
    BY <1>1, <1>2, <2>1 DEF FreedOnce
  <2> QED
    BY <1>3, <2>2, FS_Singleton DEF Dying
<1>4. CASE ~Dying(d)
  <2>1. Freeing(d) = {}
    BY <1>1, <1>2, <1>4 DEF FreedOnce
  <2> QED
    BY <1>4, <2>1, FS_EmptySet DEF Dying
<1> QED
  BY <1>3, <1>4

\* What is used is alive.
LEMMA UsedDataLives ==
    ASSUME ThreadInv
    PROVE  NobodyUsesFreedData /\ EnumeratedDataIsKept
<1> USE DEF ThreadInv
<1>0. TypeOK
  OBVIOUS
<1>1. ASSUME NEW n \in Threads, thread[n].pc \notin {"unborn", "exited"}
      PROVE  data[thread[n].ptr].live
  <2>1. thread[n].ptr \in Data
    BY <1>1 DEF LiveThreadInv, IsAt
  <2>2. CASE IsAt(n, "free")
    BY <2>2 DEF FreeInv
  <2>3. CASE ~IsAt(n, "free")
    <3>1. Runs(n, thread[n].ptr)
      BY <1>1, <2>3 DEF Runs, IsAt
    <3> QED
      BY <2>1, <3>1, LiveIfOwned
  <2> QED
    BY <2>2, <2>3
<1>2. ASSUME NEW u \in Users, user[u].pc \in {"create", "identify", "resume", "publish", "created", "name", "free"}
      PROVE  data[user[u].ptr].live
  <2>1. user[u].ptr \in Data
    BY <1>2 DEF UserInv, Building
  <2>2. CASE At(u, "free")
    BY <2>2 DEF FreeInv
  <2>3. CASE At(u, "created")
    <3>1. CASE platform = "cpp11"
      <4>1. mpData[u] = user[u].ptr /\ user[u].next # "allocate"
        BY <2>3, <3>1 DEF BuildInv, UserInv, At
      <4>2. HasObject(u, user[u].ptr)
        BY <2>3, <4>1 DEF HasObject, At
      <4> QED
        BY <2>1, <4>2, LiveIfOwned
    <3>2. CASE platform # "cpp11"
      <4>1. HasBegun(u, user[u].ptr)
        BY <2>3, <3>2 DEF HasBegun, At
      <4> QED
        BY <2>1, <4>1, LiveIfOwned
    <3> QED
      BY <3>1, <3>2
  <2>4. CASE user[u].pc \in Building \ {"construct"}
    BY <2>4, BuiltData
  <2>5. CASE At(u, "name")
    <3>1. mpData[u] = user[u].ptr /\ user[u].next # "allocate"
      BY <2>5 DEF BuildInv, UserInv, At
    <3>2. HasObject(u, user[u].ptr)
      BY <2>5, <3>1 DEF HasObject, At
    <3> QED
      BY <2>1, <3>2, LiveIfOwned
  <2> QED
    BY <1>2, <2>2, <2>3, <2>4, <2>5 DEF Building, At
<1>3. ASSUME NEW u \in Users, user[u].pc \in WaitLabels \cup StatusLabels
      PROVE  TheData(u).live
  <2>1. user[u].obj \in Users /\ Of(u) \in Data /\ HasObject(user[u].obj, Of(u))
    BY <1>0, <1>3, Fields DEF WaitInv, Waiting
  <2> QED
    BY <2>1, LiveIfOwned DEF TheData
<1>4. ASSUME NEW u \in Users, enumData[u] # None PROVE data[enumData[u]].used
  <2>1. enumData[u] \in Data
    BY <1>4, Apart DEF TypeOK
  <2>2. HasEnumerated(u, enumData[u])
    BY DEF HasEnumerated
  <2> QED
    BY <2>1, <2>2, LiveIfOwned
<1> QED
  BY <1>1, <1>2, <1>3, <1>4 DEF NobodyUsesFreedData, EnumeratedDataIsKept

LEMMA ThreadInvKeepsData ==
    ASSUME ThreadInv
    PROVE  DataIsKept
<1>1. ASSUME NEW d \in Data
      PROVE  data[d].mnRefCount =
                 Cardinality(Objects(d)) + Cardinality(Running(d)) + Cardinality(Beginning(d))
                 + 2 * Cardinality(Creating(d)) + Cardinality({u \in Users : enumData[u] = d})
                 + (IF External(d) THEN IF platform = "cpp11" THEN 3 ELSE 2 ELSE 0)
  <2>1. /\ Cardinality(Objects(d)) \in Nat /\ Cardinality(Running(d)) \in Nat /\ Cardinality(Beginning(d)) \in Nat
        /\ Cardinality(Creating(d)) \in Nat /\ Cardinality(Enumerated(d)) \in Nat
    BY Owners, FS_CardinalityType
  <2>2. data[d].mnRefCount = UserRefs(d) + ThreadRefs(d) + CallersOwn(d)
    BY DEF ThreadInv, CountInv
  <2>3. CallersOwn(d) \in Nat
    BY RefsAreNumbers
  <2>4. data[d].mnRefCount =
            Cardinality(Objects(d)) + Cardinality(Running(d)) + Cardinality(Beginning(d))
            + 2 * Cardinality(Creating(d)) + Cardinality(Enumerated(d)) + CallersOwn(d)
    BY <2>1, <2>2, <2>3 DEF UserRefs, ThreadRefs
  <2> QED
    BY <2>4 DEF Enumerated, CallersOwn
<1>2. RefCountIsExact
  BY <1>1, FreersAreOne DEF RefCountIsExact
<1> QED
  BY <1>2, UsedDataLives DEF DataIsKept, ThreadInv

-----------------------------------------------------------------------------
(* The theorems.                                                           *)

\* Threads, data, objects and calls fit together as ThreadInv says, whatever Begin,
\* WaitForEnd, GetStatus, the copies, the destructors, EnumerateThreads and the threads
\* themselves do, and in whatever order.
THEOREM ThreadInvariance ==
    ASSUME Careful
    PROVE  Spec => []ThreadInv
<1>1. Init => ThreadInv
  BY ThreadsBegin
<1>2. ThreadInv /\ [Next]_threadVars => ThreadInv'
  BY ThreadsGoRight
<1> QED
  BY <1>1, <1>2, PTL DEF Spec

\* mnRefCount of EAThreadDynamicData is the number of those who will release it,
\* no object, call or thread goes on with data that was freed, one of them frees it,
\* and the data EnumerateThreads gives out is kept.
THEOREM ThreadDataIsKept ==
    ASSUME Careful
    PROVE  Spec => []DataIsKept
<1>1. ThreadInv => DataIsKept
  BY ThreadInvKeepsData
<1> QED
  BY <1>1, ThreadInvariance, PTL

\* Every thread Begin has made is joined or detached (its handle closed) once, by
\* WaitForEnd, by GetStatus or by the destructor of its data, and not forgotten.
THEOREM ThreadHandlesAreReleasedOnce ==
    ASSUME Careful
    PROVE  Spec => []HandlesAreReleasedOnce
<1>1. ThreadInv => HandlesAreReleasedOnce
  BY DEF ThreadInv
<1> QED
  BY <1>1, ThreadInvariance, PTL

\* WaitForEnd answers kStatusEnded, and mnStatus says so, only when the function of
\* the thread has returned.
THEOREM ThreadEndsAreTrue ==
    ASSUME Careful
    PROVE  Spec => []EndsAreTrue
<1>1. ThreadInv => EndsAreTrue
  BY DEF ThreadInv, EndInv, EndsAreTrue, WaitTellsTruth, At
<1> QED
  BY <1>1, ThreadInvariance, PTL
=============================================================================
