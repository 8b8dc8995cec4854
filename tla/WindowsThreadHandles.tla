------------------------ MODULE WindowsThreadHandles ------------------------
(***************************************************************************)
(* The ids of threads on Windows.  An id is a handle, and the system gives *)
(* a thread another handle for itself each time it asks; so GetThreadId    *)
(* caches one in thread local storage, and the DynamicThreadArray keeps    *)
(* those of threads that others began, to close them once the thread is    *)
(* gone.  A thread of the library has the handle of its                    *)
(* EAThreadDynamicData, which closes it with its last reference.  The      *)
(* system gives the numbers of closed handles out again.                   *)
(***************************************************************************)
EXTENDS Naturals, FiniteSets

CONSTANTS
    ExternalThreads,  \* Threads that the library did not begin ...
    LibraryThreads,   \* ... and threads that it begins.
    MaxHandles,       \* Bound: the handles of the system.
    kMaxThreadDynamicArrayCount,
    CarefulEnds       \* Does a thread that calls ThreadEnd still have its Thread object?

HandleThreads == ExternalThreads \cup LibraryThreads
Handles == 1 .. MaxHandles
Slots == 1 .. kMaxThreadDynamicArrayCount
kThreadIdInvalid == 0
Nobody == "nobody"

\* With too few slots the handle that has just been cached is closed: the code
\* asserts that it does not happen.
ASSUME HandlesAssumption ==
    /\ ExternalThreads \cap LibraryThreads = {} /\ IsFiniteSet(HandleThreads)
    /\ Nobody \notin HandleThreads
    /\ MaxHandles \in Nat /\ kMaxThreadDynamicArrayCount \in Nat /\ CarefulEnds \in BOOLEAN
    /\ kMaxThreadDynamicArrayCount >= Cardinality(ExternalThreads)

VARIABLES
    handleOf,     \* The thread each handle is of; Nobody when it is closed.
    mhDynamicThreadArray,
    mbDynamicThreadArrayInitialized,
    initFutex,    \* Who holds the futex of Initialize ...
    section,      \* ... and mCriticalSection; "raw" before it is initialized.
    cached,       \* What each thread has in the slot dwThreadHandleTLS.
    dynamicData,  \* Handle and references of the data of the library's threads.
    life,         \* "unborn", "alive", "exited".
    doing         \* The call of SetCurrentThreadHandle each thread is in.

handleVars == <<handleOf, mhDynamicThreadArray, mbDynamicThreadArrayInitialized, initFutex, section,
                cached, dynamicData, life, doing>>

Idle == [step |-> "idle", h |-> kThreadIdInvalid, dynamic |-> FALSE, after |-> "idle"]

HandlesInit ==
    /\ handleOf = [h \in Handles |-> Nobody]
    /\ mhDynamicThreadArray = [i \in Slots |-> kThreadIdInvalid]
    /\ mbDynamicThreadArrayInitialized = FALSE /\ initFutex = Nobody /\ section = "raw"
    /\ cached = [t \in HandleThreads |-> kThreadIdInvalid]
    /\ dynamicData = [t \in LibraryThreads |-> [h |-> kThreadIdInvalid, references |-> {}]]
    /\ life = [t \in HandleThreads |-> IF t \in ExternalThreads THEN "alive" ELSE "unborn"]
    /\ doing = [t \in HandleThreads |-> Idle]

At(t, step) == life[t] = "alive" /\ doing[t].step = step
Goto(t, step) == doing' = [doing EXCEPT ![t].step = step]

\* SetCurrentThreadHandle(h, dynamic), and what is done after it.
SetCurrentThreadHandle(t, h, dynamic, after) ==
    doing' = [doing EXCEPT ![t] = [step |-> "check", h |-> h, dynamic |-> dynamic, after |-> after]]

\* References of the data that are left, and the handles once who let go of its own.
Without(t, who) == [dynamicData EXCEPT ![t].references = @ \ {who}]
ClosedWithout(t, who) ==
    IF dynamicData[t].references = {who}
    THEN [handleOf EXCEPT ![dynamicData[t].h] = Nobody] ELSE handleOf

-----------------------------------------------------------------------------
(* The callers.                                                            *)

\* GetThreadId: the cached id, or a new handle that is to be cached.
GetThreadId(t) ==
    /\ At(t, "idle") /\ cached[t] = kThreadIdInvalid
    /\ \E h \in Handles :
         /\ handleOf[h] = Nobody
         /\ handleOf' = [handleOf EXCEPT ![h] = t]
         /\ SetCurrentThreadHandle(t, h, TRUE, "idle")
    /\ UNCHANGED <<mhDynamicThreadArray, mbDynamicThreadArrayInitialized, initFutex, section, cached, dynamicData, life>>

\* Begin: the handle of the thread goes into its data and to its start context.
BeginThread(t) ==
    /\ life[t] = "unborn"
    /\ \E h \in Handles :
         /\ handleOf[h] = Nobody
         /\ handleOf' = [handleOf EXCEPT ![h] = t]
         /\ dynamicData' = [dynamicData EXCEPT ![t] = [h |-> h, references |-> {"thread", "object"}]]
         /\ SetCurrentThreadHandle(t, h, FALSE, "idle")
    /\ life' = [life EXCEPT ![t] = "alive"]
    /\ UNCHANGED <<mhDynamicThreadArray, mbDynamicThreadArrayInitialized, initFutex, section, cached>>

\* The Thread object is destroyed or begins another thread.
DropObject(t) ==
    /\ life[t] # "unborn" /\ "object" \in dynamicData[t].references
    /\ CarefulEnds => doing[t].after # "exit"
    /\ dynamicData' = Without(t, "object") /\ handleOf' = ClosedWithout(t, "object")
    /\ UNCHANGED <<mhDynamicThreadArray, mbDynamicThreadArrayInitialized, initFutex, section, cached, life, doing>>

\* The function of the thread has returned.
RunReturns(t) ==
    /\ At(t, "idle") /\ cached[t] # kThreadIdInvalid
    /\ SetCurrentThreadHandle(t, kThreadIdInvalid, FALSE, "release")
    /\ UNCHANGED <<handleOf, mhDynamicThreadArray, mbDynamicThreadArrayInitialized, initFutex, section, cached, dynamicData, life>>

Release(t) ==
    /\ At(t, "release")
    /\ dynamicData' = Without(t, "thread") /\ handleOf' = ClosedWithout(t, "thread")
    /\ life' = [life EXCEPT ![t] = "exited"]
    /\ doing' = [doing EXCEPT ![t] = Idle]
    /\ UNCHANGED <<mhDynamicThreadArray, mbDynamicThreadArrayInitialized, initFutex, section, cached>>

\* ThreadEnd, by either kind, once GetThreadId is cached: the data is released
\* first.  "We use 'true' here just to be safe".
ThreadEnd(t) ==
    /\ At(t, "idle") /\ cached[t] # kThreadIdInvalid
    /\ IF t \in LibraryThreads
       THEN /\ CarefulEnds => "object" \in dynamicData[t].references
            /\ dynamicData' = Without(t, "thread") /\ handleOf' = ClosedWithout(t, "thread")
       ELSE UNCHANGED <<dynamicData, handleOf>>
    /\ SetCurrentThreadHandle(t, kThreadIdInvalid, TRUE, "exit")
    /\ UNCHANGED <<mhDynamicThreadArray, mbDynamicThreadArrayInitialized, initFutex, section, cached, life>>

\* Others end their threads without telling the library; and the end of ThreadEnd.
Exit(t) ==
    /\ At(t, "exit") \/ (t \in ExternalThreads /\ At(t, "idle"))
    /\ life' = [life EXCEPT ![t] = "exited"]
    /\ doing' = [doing EXCEPT ![t] = Idle]
    /\ UNCHANGED <<handleOf, mhDynamicThreadArray, mbDynamicThreadArrayInitialized, initFutex, section, cached, dynamicData>>

-----------------------------------------------------------------------------
(* DynamicThreadArray::Initialize.                                         *)

InitializeDone(t) ==
    /\ At(t, "check")
    /\ Goto(t, IF mbDynamicThreadArrayInitialized THEN "check enter" ELSE "init lock")
    /\ UNCHANGED <<handleOf, mhDynamicThreadArray, mbDynamicThreadArrayInitialized, initFutex, section, cached, dynamicData, life>>

\* Whoever was first has done it.
InitializeLock(t) ==
    /\ At(t, "init lock") /\ initFutex = Nobody
    /\ IF mbDynamicThreadArrayInitialized
       THEN Goto(t, "check enter") /\ UNCHANGED initFutex
       ELSE Goto(t, "init") /\ initFutex' = t
    /\ UNCHANGED <<handleOf, mhDynamicThreadArray, mbDynamicThreadArrayInitialized, section, cached, dynamicData, life>>

InitializeArray(t) ==
    /\ At(t, "init")
    /\ mhDynamicThreadArray' = [i \in Slots |-> kThreadIdInvalid]
    /\ section' = Nobody
    /\ Goto(t, "initialized")
    /\ UNCHANGED <<handleOf, mbDynamicThreadArrayInitialized, initFutex, cached, dynamicData, life>>

InitializeFlag(t) ==
    /\ At(t, "initialized")
    /\ mbDynamicThreadArrayInitialized' = TRUE /\ initFutex' = Nobody
    /\ Goto(t, "check enter")
    /\ UNCHANGED <<handleOf, mhDynamicThreadArray, section, cached, dynamicData, life>>

-----------------------------------------------------------------------------
(* CheckDynamicThreadArray, AddDynamicThreadHandle.                        *)

\* EnterCriticalSection.
Enter(t) ==
    /\ \E step \in {<<"check enter", "check locked">>, <<"add enter", "add locked">>,
                    <<"remove enter", "remove locked">>} :
         At(t, step[1]) /\ Goto(t, step[2])
    /\ section = Nobody
    /\ section' = t
    /\ UNCHANGED <<handleOf, mhDynamicThreadArray, mbDynamicThreadArrayInitialized, initFutex, cached, dynamicData, life>>

\* The slots of handles that are no good, or of threads that have exited.
Over(i) ==
    LET h == mhDynamicThreadArray[i]
    IN  h # kThreadIdInvalid /\ (handleOf[h] = Nobody \/ life[handleOf[h]] = "exited")

\* What SetCurrentThreadHandle does next.
AfterCheck(t) ==
    IF ~doing[t].dynamic THEN "set"
    ELSE IF doing[t].h # kThreadIdInvalid THEN "add enter"
    ELSE IF cached[t] # kThreadIdInvalid THEN "remove enter" ELSE "set"

CheckHandles(t) ==
    /\ At(t, "check locked")
    /\ handleOf' = [h \in Handles |-> IF \E i \in Slots : Over(i) /\ mhDynamicThreadArray[i] = h
                                      THEN Nobody ELSE handleOf[h]]
    /\ mhDynamicThreadArray' = [i \in Slots |-> IF Over(i) THEN kThreadIdInvalid ELSE mhDynamicThreadArray[i]]
    /\ section' = Nobody
    /\ Goto(t, AfterCheck(t))
    /\ UNCHANGED <<mbDynamicThreadArrayInitialized, initFutex, cached, dynamicData, life>>

\* Into the first slot that is free.
AddHandle(t) ==
    /\ At(t, "add locked")
    /\ LET free == {i \in Slots : mhDynamicThreadArray[i] = kThreadIdInvalid}
       IN  IF free = {}
           THEN handleOf' = [handleOf EXCEPT ![doing[t].h] = Nobody] /\ UNCHANGED mhDynamicThreadArray
           ELSE /\ mhDynamicThreadArray' =
                     [mhDynamicThreadArray EXCEPT ![CHOOSE i \in free : \A j \in free : i <= j] = doing[t].h]
                /\ UNCHANGED handleOf
    /\ section' = Nobody
    /\ Goto(t, "set")
    /\ UNCHANGED <<mbDynamicThreadArrayInitialized, initFutex, cached, dynamicData, life>>

\* Mutant of RemoveHandle: the handle is closed and stays.
RemoveKeeps(t) ==
    /\ At(t, "remove locked")
    /\ handleOf' = [handleOf EXCEPT ![cached[t]] = Nobody]
    /\ section' = Nobody
    /\ Goto(t, "set")
    /\ UNCHANGED <<mhDynamicThreadArray, mbDynamicThreadArrayInitialized, initFutex, cached, dynamicData, life>>

\* The cached handle, if it is a dynamic one: it is known by its number.
RemoveHandle(t) ==
    /\ At(t, "remove locked")
    /\ LET at == {i \in Slots : mhDynamicThreadArray[i] = cached[t]}
       IN  IF at = {} THEN UNCHANGED <<handleOf, mhDynamicThreadArray>>
           ELSE /\ handleOf' = [handleOf EXCEPT ![cached[t]] = Nobody]
                /\ mhDynamicThreadArray' = [mhDynamicThreadArray EXCEPT
                       ![CHOOSE i \in at : \A j \in at : i <= j] = kThreadIdInvalid]
    /\ section' = Nobody
    /\ Goto(t, "set")
    /\ UNCHANGED <<mbDynamicThreadArrayInitialized, initFutex, cached, dynamicData, life>>

\* TlsSetValue, and back to the caller.
SetTls(t) ==
    /\ At(t, "set")
    /\ cached' = [cached EXCEPT ![t] = doing[t].h]
    /\ Goto(t, doing[t].after)
    /\ UNCHANGED <<handleOf, mhDynamicThreadArray, mbDynamicThreadArrayInitialized, initFutex, section, dynamicData, life>>

-----------------------------------------------------------------------------
HandlesNext ==
    \/ \E t \in HandleThreads :
          \/ GetThreadId(t) \/ ThreadEnd(t) \/ Exit(t)
          \/ InitializeDone(t) \/ InitializeLock(t) \/ InitializeArray(t) \/ InitializeFlag(t)
          \/ Enter(t) \/ CheckHandles(t) \/ AddHandle(t) \/ RemoveHandle(t) \/ SetTls(t)
    \/ \E t \in LibraryThreads : BeginThread(t) \/ DropObject(t) \/ RunReturns(t) \/ Release(t)

HandlesTypeOK ==
    /\ handleOf \in [Handles -> HandleThreads \cup {Nobody}]
    /\ mhDynamicThreadArray \in [Slots -> Handles \cup {kThreadIdInvalid}]
    /\ mbDynamicThreadArrayInitialized \in BOOLEAN
    /\ initFutex \in HandleThreads \cup {Nobody} /\ section \in HandleThreads \cup {Nobody, "raw"}
    /\ cached \in [HandleThreads -> Handles \cup {kThreadIdInvalid}]
    /\ \A t \in LibraryThreads : dynamicData[t].references \subseteq {"thread", "object"}
    /\ life \in [HandleThreads -> {"unborn", "alive", "exited"}]

\* "so that the user gets a consistent return value from the GetThreadId
\* function for each unique thread" (eathread_pc.cpp:214-216): as long as a
\* thread lives, the id that is cached for it is an open handle of that thread,
\* whatever others close and however the numbers of handles are used again.
CachedIdsAreOwn ==
    \A t \in HandleThreads :
        At(t, "idle") /\ cached[t] # kThreadIdInvalid => handleOf[cached[t]] = t

\* Does t carry a handle that it is going to add?
Carries(t, h) ==
    /\ doing[t].h = h /\ doing[t].dynamic
    /\ doing[t].step \notin {"idle", "set", "release", "exit"}

\* Each open handle is kept in one place, from where it will be closed once: a
\* slot of the array, the data of a thread, or the hands of the thread that has
\* just duplicated it.  A closed handle is kept nowhere.
HandlesAreKeptOnce ==
    \A h \in Handles :
        Cardinality({i \in Slots : mhDynamicThreadArray[i] = h})
          + Cardinality({t \in LibraryThreads : dynamicData[t].h = h /\ dynamicData[t].references # {}})
          + Cardinality({t \in HandleThreads : Carries(t, h)})
        = IF handleOf[h] = Nobody THEN 0 ELSE 1
=============================================================================
