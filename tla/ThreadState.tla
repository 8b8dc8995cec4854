---------------------------- MODULE ThreadState ----------------------------
(***************************************************************************)
(* What the four implementations of EA::Thread::Thread share: a Thread     *)
(* object points to an EAThreadDynamicData, which it shares with its       *)
(* copies and with the thread it began.  The data has a slot of a global   *)
(* array (or comes from the heap), counts its references, and is freed     *)
(* with the last of them; a thread that nobody joined is detached, or its  *)
(* handle closed, when its data is freed.                                  *)
(*                                                                         *)
(* Each user is a thread of the program that owns one Thread object, with  *)
(* which it calls Begin, and may wait for the threads of the others'       *)
(* objects.  As the documentation asks, Begin, copies and destruction of   *)
(* an object are its owner's, one user at a time calls WaitForEnd for a    *)
(* thread, and (where the code asserts or needs it) only until it was      *)
(* joined.                                                                 *)
(***************************************************************************)
EXTENDS Integers, FiniteSets

CONSTANTS
    Platforms,     \* The implementations: of "unix", "kettle", "pc", "cpp11".
    Users,
    Beginners,     \* Bound: the users that call Begin.
    MaxThreadDynamicDataCount,  \* kMaxThreadDynamicDataCount, 128.
    MaxData,       \* Bound: the array gThreadDynamicData and what the fallback
                   \* of the allocation takes from the heap.
    MaxThreads,    \* Bound: the number of threads ever begun.
    None,          \* NULL, and kThreadIdInvalid.
    Careful,       \* Does nobody touch an object, or another's handle, while
                   \* a call that changes it is under way?
    Enumerators,   \* The users that call EnumerateThreads.
    StartTimesOut  \* Can the wait for mStartedSemaphore time out?

ASSUME ThreadAssumption ==
    /\ Platforms \subseteq {"unix", "kettle", "pc", "cpp11"}
    /\ IsFiniteSet(Users) /\ Users \cap Nat = {} /\ Beginners \cup Enumerators \subseteq Users
    /\ {MaxThreadDynamicDataCount, MaxData, MaxThreads} \subseteq Nat
    /\ MaxThreadDynamicDataCount <= MaxData
    /\ None \notin Users \cup Nat
    /\ {Careful, StartTimesOut} \subseteq BOOLEAN

VARIABLES
    platform,  \* The implementation this program was built with.
    data,      \* The EAThreadDynamicData.
    mpData,    \* Of each user's Thread object.
    user,      \* Where each user is: its step, the owner of the object it
               \* uses, its pData, where it goes on after it has freed data,
               \* what its WaitForEnd or GetStatus has found.
    thread,    \* Where each begun thread is, its pTDD, who began it.
    handle,    \* How often each begun thread was joined, detached or closed.
    enumData   \* The ThreadEnumData of each user.

threadVars == <<platform, data, mpData, user, thread, handle, enumData>>

Data == 1 .. MaxData
Slots == 1 .. MaxThreadDynamicDataCount      \* The others are on the heap.
Threads == 1 .. MaxThreads

\* mThreadId (mhThread, mThread): the thread while it is to be joined or
\* detached; mSysThreadId: the thread, from its creation on; mRunMutex and
\* mStartedSemaphore as on POSIX; hasValue: the promise of C++11.
Fresh == [used |-> FALSE, live |-> FALSE, mThreadId |-> None, mSysThreadId |-> None,
          mnStatus |-> "none", mnRefCount |-> 0, mRunMutex |-> None,
          mStartedSemaphore |-> 0, hasValue |-> FALSE]

BeginLabels == {"release", "allocate", "construct", "create", "identify", "resume",
                "publish", "created", "name"}
WaitLabels == {"check", "startedWait", "repost", "lockRun", "joinLocked", "join",
               "unlockRun", "waitHandle", "close", "zero", "value", "return"}
StatusLabels == {"closeForStatus", "zeroForStatus"}
UserLabels == {"idle", "free", "poll", "enumerate"} \cup BeginLabels \cup WaitLabels \cup StatusLabels
ThreadLabels == {"unborn", "suspended", "created", "locked", "posted", "running", "valued",
                 "ended", "unlocked", "free", "exited"}
Answers == {"none", "running", "ended"}

TypeOK ==
    /\ platform \in Platforms
    /\ data \in [Data -> [used : BOOLEAN, live : BOOLEAN,
                          mThreadId : Users \cup Threads \cup {None},
                          mSysThreadId : Threads \cup {None},
                          mnStatus : Answers, mnRefCount : Nat,
                          mRunMutex : Users \cup Threads \cup {None},
                          mStartedSemaphore : 0 .. 1, hasValue : BOOLEAN]]
    /\ mpData \in [Users -> Data \cup {None}]
    /\ user \in [Users -> [pc : UserLabels, obj : Users, ptr : Data \cup {None},
                          next : UserLabels, answer : Answers]]
    /\ thread \in [Threads -> [pc : ThreadLabels, ptr : Data \cup {None}, by : Users \cup {None}]]
    /\ handle \in [Threads -> Nat]
    /\ enumData \in [Users -> Slots \cup {None}]

Idle(u) == [pc |-> "idle", obj |-> u, ptr |-> None, next |-> "idle", answer |-> "none"]

Init ==
    /\ platform \in Platforms
    /\ data = [d \in Data |-> Fresh]
    /\ mpData = [u \in Users |-> None]
    /\ user = [u \in Users |-> Idle(u)]
    /\ thread = [n \in Threads |-> [pc |-> "unborn", ptr |-> None, by |-> None]]
    /\ handle = [n \in Threads |-> 0]
    /\ enumData = [u \in Users |-> None]

-----------------------------------------------------------------------------
(* Users, threads and the data they use.                                   *)

At(u, label) == user[u].pc = label
Go(u, label) == user' = [user EXCEPT ![u].pc = label]
\* The call is over; what it used is forgotten.
Return(u) == user' = [user EXCEPT ![u] = Idle(u)]
IsAt(n, label) == thread[n].pc = label
GoThread(n, label) == thread' = [thread EXCEPT ![n].pc = label]
Set(d, field, value) == data' = [data EXCEPT ![d] = [@ EXCEPT ![field] = value]]
GoWith(u, label, status) == user' = [user EXCEPT ![u] = [@ EXCEPT !.pc = label, !.answer = status]]

\* The data of the object user u has called a function of.
Of(u) == mpData[user[u].obj]
TheData(u) == data[Of(u)]

\* The users that use the object of o; those that wait until it has begun a
\* thread leave it free to do that.
Polling(o) == {u \in Users : user[u].obj = o /\ At(u, "poll")}
Using(o) ==
    {u \in Users : user[u].obj = o /\ user[u].pc \in WaitLabels \cup StatusLabels}
        \cup (IF mpData[o] = None THEN {} ELSE Polling(o))
\* On PC, GetStatus and WaitForEnd close the handle of the thread.
MayClose(d) ==
    {u \in Users : platform = "pc" /\ user[u].pc \in WaitLabels \cup StatusLabels /\ Of(u) = d}
InBegin(u) == user[u].pc \in BeginLabels \/ user[u].next \in BeginLabels

\* AllocateThreadDynamicData: the first free slot, or the heap when there is
\* none.  On PC the search has gThreadDynamicMutex.
Allocatable == {d \in Data : ~data[d].used /\ \A e \in 1 .. d - 1 : data[e].used}
NobodyEnumerates == platform = "pc" => \A u \in Users : ~At(u, "enumerate")

\* A user gives up one reference and goes on at label; the last one frees.
UserReleasesSome(u, d, k, label) ==
    /\ data' = [data EXCEPT ![d].mnRefCount = @ - k]
    /\ user' = [user EXCEPT ![u] = IF data[d].mnRefCount = k
                                   THEN [@ EXCEPT !.pc = "free", !.ptr = d, !.next = label]
                                   ELSE IF label = "idle"
                                   THEN Idle(u)
                                   ELSE [@ EXCEPT !.pc = label]]
UserReleases(u, d, label) == UserReleasesSome(u, d, 1, label)

\* FreeThreadDynamicData: the destructor detaches a thread that was not
\* joined (on PC it closes the handle), and the slot is free again.
Free(d) ==
    /\ NobodyEnumerates
    /\ data' = [data EXCEPT ![d] = Fresh]
    /\ handle' = IF data[d].mThreadId \in Threads
                 THEN [handle EXCEPT ![data[d].mThreadId] = @ + 1] ELSE handle

UserFrees(u) ==
    /\ At(u, "free")
    /\ Free(user[u].ptr)
    /\ IF user[u].next = "idle" THEN Return(u)
       ELSE user' = [user EXCEPT ![u] = [@ EXCEPT !.pc = user[u].next, !.next = "idle"]]
    /\ UNCHANGED <<platform, mpData, thread, enumData>>

ThreadFrees(n) ==
    /\ IsAt(n, "free")
    /\ Free(thread[n].ptr)
    /\ GoThread(n, "exited")
    /\ UNCHANGED <<platform, mpData, user, enumData>>

\* The thread's last step, once its function has returned: Release.
ThreadReleases(n, label) ==
    /\ IsAt(n, label)
    /\ data' = [data EXCEPT ![thread[n].ptr].mnRefCount = @ - 1]
    /\ GoThread(n, IF data[thread[n].ptr].mnRefCount = 1 THEN "free" ELSE "exited")
    /\ UNCHANGED <<platform, mpData, user, handle, enumData>>

-----------------------------------------------------------------------------
(* The steps of Begin that the implementations have in common.             *)

\* A caller without data of its own gets some, with references that nobody
\* ever releases.  Data from the heap is not found the next time.
BeginFinds(u, references) ==
    /\ u \in Beginners /\ At(u, "idle")
    /\ \E n \in Threads : IsAt(n, "unborn")
    /\ Using(u) = {}
    /\ IF \E d \in Slots : data[d].mThreadId = u
       THEN UNCHANGED data
       ELSE \E d \in Allocatable :
                data' = [data EXCEPT ![d] =
                    [Fresh EXCEPT !.used = TRUE, !.live = TRUE, !.mThreadId = u, !.mnRefCount = references]]
    /\ Go(u, IF mpData[u] = None THEN "allocate" ELSE "release")
    /\ UNCHANGED <<platform, mpData, thread, handle, enumData>>

\* On PC and with C++11, Begin with an object does not look for such data.
BeginObject(u) ==
    /\ u \in Beginners /\ At(u, "idle")
    /\ \E n \in Threads : IsAt(n, "unborn")
    /\ Using(u) = {}
    /\ Go(u, IF mpData[u] = None THEN "allocate" ELSE "release")
    /\ UNCHANGED <<platform, data, mpData, thread, handle, enumData>>

BeginReleases(u) ==
    /\ At(u, "release")
    /\ UserReleases(u, mpData[u], "allocate")
    /\ UNCHANGED <<platform, mpData, thread, handle, enumData>>

BeginAllocates(u) ==
    /\ At(u, "allocate")
    /\ NobodyEnumerates
    /\ \E d \in Allocatable :
          /\ data' = [data EXCEPT ![d].used = TRUE]
          /\ user' = [user EXCEPT ![u] = [@ EXCEPT !.pc = "construct", !.ptr = d]]
    /\ UNCHANGED <<platform, mpData, thread, handle, enumData>>

\* The next thread.
Born(n) == IsAt(n, "unborn") /\ \A m \in 1 .. n - 1 : ~IsAt(m, "unborn")

-----------------------------------------------------------------------------
(* Copies and the end of Thread objects.                                   *)

\* Assignment: AddRef for the new data, then Release for the old.
Assign(u, v) ==
    /\ At(u, "idle") /\ At(v, "idle") /\ Using(u) \cup Polling(u) = {}
    /\ mpData[u] # mpData[v] /\ mpData[v] # None
    /\ mpData' = [mpData EXCEPT ![u] = mpData[v]]
    /\ data' = [d \in Data |->
                    IF d = mpData[v] THEN [data[d] EXCEPT !.mnRefCount = @ + 1]
                    ELSE IF d = mpData[u] THEN [data[d] EXCEPT !.mnRefCount = @ - 1]
                    ELSE data[d]]
    /\ IF mpData[u] # None /\ data[mpData[u]].mnRefCount = 1
       THEN user' = [user EXCEPT ![u] = [@ EXCEPT !.pc = "free", !.ptr = mpData[u]]]
       ELSE UNCHANGED user
    /\ UNCHANGED <<platform, thread, handle, enumData>>

\* The destructor; the user goes on with a new object.
Destroy(u) ==
    /\ At(u, "idle") /\ mpData[u] # None /\ Using(u) = {}
    /\ UserReleases(u, mpData[u], "idle")
    /\ mpData' = [mpData EXCEPT ![u] = None]
    /\ UNCHANGED <<platform, thread, handle, enumData>>

\* The function of the thread destroys the Thread object that began it,
\* which may still be in Begin.  Begin of C++11 has no reference of its own,
\* so there the object lives until Begin is over, as it does on POSIX where
\* Begin is to name the thread.
DestroyWithin(n) ==
    LET o == thread[n].by
        d == mpData[o]
    IN  /\ IsAt(n, "running")
        /\ d = thread[n].ptr /\ Using(o) = {}
        /\ user[o].pc \in {"idle", "created", "identify"} \cup (IF Careful THEN {} ELSE {"name"})
        /\ platform = "cpp11" => At(o, "idle")
        /\ data' = [data EXCEPT ![d].mnRefCount = @ - 1]
        /\ mpData' = [mpData EXCEPT ![o] = None]
        /\ UNCHANGED <<platform, user, thread, handle, enumData>>

-----------------------------------------------------------------------------
(* EnumerateThreads, for one of the slots, and ThreadEnumData::Release.    *)

\* Nobody drops the last reference meanwhile.
Kept(d) == Careful => data[d].live /\ data[d].mnRefCount > 0

EnumerateThreads(u) ==
    /\ u \in Enumerators
    /\ At(u, "idle") /\ enumData[u] = None
    /\ \E d \in Slots :
          /\ data[d].used /\ Kept(d)
          /\ user' = [user EXCEPT ![u] = [@ EXCEPT !.pc = "enumerate", !.ptr = d]]
    /\ UNCHANGED <<platform, data, mpData, thread, handle, enumData>>

EnumerateAddRefs(u) ==
    /\ At(u, "enumerate") /\ Kept(user[u].ptr)
    /\ data' = [data EXCEPT ![user[u].ptr].mnRefCount = @ + 1]
    /\ enumData' = [enumData EXCEPT ![u] = user[u].ptr]
    /\ Return(u)
    /\ UNCHANGED <<platform, mpData, thread, handle>>

EnumDataRelease(u) ==
    /\ At(u, "idle") /\ enumData[u] # None
    /\ UserReleases(u, enumData[u], "idle")
    /\ enumData' = [enumData EXCEPT ![u] = None]
    /\ UNCHANGED <<platform, mpData, thread, handle>>

-----------------------------------------------------------------------------
(* WaitForEnd: what comes before and after the wait itself.                *)

\* A call for a thread that was joined is not modelled, except on PC.
WaitForEnd(u, o) ==
    /\ At(u, "idle")
    /\ \A v \in Users : user[v].pc \in WaitLabels \cup {"poll"} =>
           user[v].obj # o /\ (mpData[o] # None => Of(v) # mpData[o])
    /\ Careful => ~InBegin(o) /\ (mpData[o] # None => MayClose(mpData[o]) = {})
    /\ mpData[o] # None /\ platform # "pc" /\ ~InBegin(o) => data[mpData[o]].mThreadId # None
    /\ user' = [user EXCEPT ![u] = [@ EXCEPT !.pc = IF mpData[o] = None THEN "poll" ELSE "check",
                                            !.obj = o]]
    /\ UNCHANGED <<platform, data, mpData, thread, handle, enumData>>

\* "Else the user hasn't started the thread yet, so we wait until the user
\* starts it": the implementations differ in what they wait for.
Started(u) ==
    /\ Of(u) # None
    /\ platform = "cpp11" \/ TheData(u).mThreadId # None

PollEnds(u) ==
    /\ At(u, "poll")
    /\ Started(u)
    /\ Careful => MayClose(Of(u)) = {}
    /\ Go(u, "check")
    /\ UNCHANGED <<platform, data, mpData, thread, handle, enumData>>

PollTimesOut(u) ==
    /\ At(u, "poll")
    /\ Careful => ~InBegin(user[u].obj) /\ (Of(u) # None => MayClose(Of(u)) = {})
    /\ IF Of(u) = None THEN Return(u) ELSE Go(u, "check")
    /\ UNCHANGED <<platform, data, mpData, thread, handle, enumData>>

-----------------------------------------------------------------------------
(* Properties.                                                             *)

\* Who has a reference to the data: an object (unless Begin has released it
\* and has yet to replace it), a thread before it has released it, Begin
\* itself, for its function and before it made the thread, and the results
\* of EnumerateThreads.
Objects(d) ==
    {o \in Users : mpData[o] = d /\ user[o].next # "allocate"
                       /\ user[o].pc \notin {"allocate", "construct"} \cup
                              (IF platform = "cpp11" THEN {"identify", "publish"} ELSE {})}
Running(d) == {n \in Threads : thread[n].ptr = d /\ thread[n].pc \notin {"unborn", "free", "exited"}}
Beginning(d) ==
    LET steps == IF platform = "cpp11" THEN {"identify", "publish"}
                 ELSE {"identify", "resume", "created"}
    IN  {u \in Users : user[u].ptr = d /\ user[u].pc \in steps}
Creating(d) == {u \in Users : user[u].ptr = d /\ At(u, "create")}
Freeing(d) == {u \in Users : At(u, "free") /\ user[u].ptr = d}
                  \cup {n \in Threads : IsAt(n, "free") /\ thread[n].ptr = d}
External(d) == data[d].mThreadId \in Users

\* The reference count is exact, so the data is freed when and only when the
\* last of those that use it is done, and by one of them.
RefCountIsExact ==
    \A d \in Data :
        /\ data[d].mnRefCount =
               Cardinality(Objects(d)) + Cardinality(Running(d)) + Cardinality(Beginning(d))
               + 2 * Cardinality(Creating(d)) + Cardinality({u \in Users : enumData[u] = d})
               + (IF External(d) THEN IF platform = "cpp11" THEN 3 ELSE 2 ELSE 0)
        /\ Cardinality(Freeing(d)) = IF data[d].live /\ data[d].mnRefCount = 0 THEN 1 ELSE 0

\* Whoever will look at data finds it constructed and not yet freed: the
\* objects and those who call their functions, the threads, Begin.
NobodyUsesFreedData ==
    /\ \A n \in Threads : thread[n].pc \notin {"unborn", "exited"} => data[thread[n].ptr].live
    /\ \A u \in Users :
          /\ user[u].pc \in {"create", "identify", "resume", "publish", "created", "name", "free"} =>
                 data[user[u].ptr].live
          /\ user[u].pc \in WaitLabels \cup StatusLabels => TheData(u).live

\* A thread is joined or detached (its handle closed), never twice, and not
\* forgotten once no data names it any more.
HandlesAreReleasedOnce ==
    \A n \in Threads :
        LET named == {d \in Data : data[d].mThreadId = n}
            naming == {u \in Users : At(u, "identify") /\ data[user[u].ptr].mSysThreadId = n}
            closing == {u \in Users : user[u].pc \in {"zero", "zeroForStatus"} /\ Of(u) \in named}
        IN  handle[n] = IF IsAt(n, "unborn") \/ (named \cup naming # {} /\ closing = {}) THEN 0 ELSE 1

\* WaitForEnd reports a thread's end only after the thread has ended.
WaitTellsTruth ==
    \A u \in Users : At(u, "return") /\ user[u].answer = "ended" =>
        /\ TheData(u).mSysThreadId # None
        /\ IsAt(TheData(u).mSysThreadId, "exited")

\* mnStatus, which GetStatus returns, says that a thread has ended only after
\* its function has returned.
StatusTellsTruth ==
    \A d \in Data : data[d].mnStatus = "ended" =>
        /\ data[d].mSysThreadId # None
        /\ thread[data[d].mSysThreadId].pc \in {"ended", "unlocked", "free", "exited"}

\* WaitForEnd comes back once there is a thread: nobody blocks for ever on
\* the semaphore, the mutex, the future, the handle or the join, if the
\* functions of threads return.
WaitsEnd == \A u \in Users : user[u].pc \in WaitLabels ~> At(u, "idle")

\* What EnumerateThreads gives out is not freed until it is released: its user
\* may "printf("Thread id: %s\n", EAThreadIdToString(enumData[i].
\* mpThreadDynamicData->mThreadId)); enumData[i].Release();"
\* (eathread_thread.h:281-282).
EnumeratedDataIsKept == \A u \in Users : enumData[u] # None => data[enumData[u]].used

\* The EAThreadDynamicData of a thread lives as long as it is used, and no longer:
\* mnRefCount is the number of those who will release it, no call or thread goes
\* on with data that was freed, and EnumerateThreads gives out none.
DataIsKept == TypeOK /\ RefCountIsExact /\ NobodyUsesFreedData /\ EnumeratedDataIsKept

\* When WaitForEnd or GetStatus says kStatusEnded, or mnStatus does, the function
\* of the thread has returned.
EndsAreTrue == WaitTellsTruth /\ StatusTellsTruth
=============================================================================
