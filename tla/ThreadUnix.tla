----------------------------- MODULE ThreadUnix -----------------------------
(***************************************************************************)
(* EA::Thread::Thread on POSIX (source/unix/eathread_thread_unix.cpp).     *)
(* The thread holds mRunMutex while it runs, and posts mStartedSemaphore   *)
(* when it has it: WaitForEnd waits for both, with a timeout, and only     *)
(* then joins.                                                             *)
(*                                                                         *)
(* On Kettle (source/kettle/eathread_thread_kettle.cpp) the functions of   *)
(* scePthread do the same; only mThreadId is not written by the creation,  *)
(* but after it.                                                           *)
(***************************************************************************)
EXTENDS ThreadState

Posix == platform \in {"unix", "kettle"}

-----------------------------------------------------------------------------
(* BeginThreadInternal.                                                    *)

Begin(u) == Posix /\ BeginFinds(u, 2)

\* One reference for the object, one for the thread, one for this function.
BeginConstructs(u) ==
    /\ Posix /\ At(u, "construct")
    /\ data' = [data EXCEPT ![user[u].ptr] =
                   [Fresh EXCEPT !.used = TRUE, !.live = TRUE, !.mnRefCount = 3]]
    /\ mpData' = [mpData EXCEPT ![u] = user[u].ptr]
    /\ Go(u, "create")
    /\ UNCHANGED <<platform, thread, handle, enumData>>

\* pthread_create succeeds, and has written mThreadId when the thread runs ...
BeginCreates(u) ==
    /\ platform = "unix" /\ At(u, "create")
    /\ \E n \in Threads :
          /\ Born(n)
          /\ thread' = [thread EXCEPT ![n] = [pc |-> "created", ptr |-> user[u].ptr, by |-> u]]
          /\ data' = [data EXCEPT ![user[u].ptr] =
                         [@ EXCEPT !.mThreadId = n, !.mSysThreadId = n]]
    /\ Go(u, "created")
    /\ UNCHANGED <<platform, mpData, handle, enumData>>

\* ... or fails: the three references are released.
BeginFails(u) ==
    /\ Posix /\ At(u, "create")
    /\ UserReleasesSome(u, user[u].ptr, 3, "idle")
    /\ mpData' = [mpData EXCEPT ![u] = None]
    /\ UNCHANGED <<platform, thread, handle, enumData>>

BeginReturns(u) ==
    /\ Posix /\ At(u, "created")
    /\ UserReleases(u, user[u].ptr, "idle")
    /\ UNCHANGED <<platform, mpData, thread, handle, enumData>>

\* With a name or an affinity mask, BeginThreadInternal releases its reference
\* just so, but then Begin goes on with the data of the object (except on Kettle) ...
BeginGoesOn(u) ==
    /\ platform = "unix" /\ At(u, "created")
    /\ Careful => mpData[u] = user[u].ptr
    /\ UserReleases(u, user[u].ptr, "name")
    /\ UNCHANGED <<platform, mpData, thread, handle, enumData>>

\* ... for which SetAffinityMask and SetName leave what is modelled here as it is.
BeginNames(u) ==
    /\ platform = "unix" /\ At(u, "name")
    /\ Return(u)
    /\ UNCHANGED <<platform, data, mpData, thread, handle, enumData>>

-----------------------------------------------------------------------------
(* The thread: RunnableFunctionInternal.                                   *)

ThreadLocks(n) ==
    /\ Posix /\ IsAt(n, "created")
    /\ data[thread[n].ptr].mRunMutex = None
    /\ Set(thread[n].ptr, "mRunMutex", n)
    /\ GoThread(n, "locked")
    /\ UNCHANGED <<platform, mpData, user, handle, enumData>>

ThreadPosts(n) ==
    /\ Posix /\ IsAt(n, "locked")
    /\ Set(thread[n].ptr, "mStartedSemaphore", data[thread[n].ptr].mStartedSemaphore + 1)
    /\ GoThread(n, "posted")
    /\ UNCHANGED <<platform, mpData, user, handle, enumData>>

ThreadRuns(n) ==
    /\ Posix /\ IsAt(n, "posted")
    /\ Set(thread[n].ptr, "mnStatus", "running")
    /\ GoThread(n, "running")
    /\ UNCHANGED <<platform, mpData, user, handle, enumData>>

\* The user's function returns.
ThreadEnds(n) ==
    /\ Posix /\ IsAt(n, "running")
    /\ Set(thread[n].ptr, "mnStatus", "ended")
    /\ GoThread(n, "ended")
    /\ UNCHANGED <<platform, mpData, user, handle, enumData>>

\* Mutant of ThreadUnlocks: the mutex stays locked.
ThreadKeepsRunMutex(n) ==
    /\ Posix /\ IsAt(n, "ended")
    /\ GoThread(n, "unlocked")
    /\ UNCHANGED <<platform, data, mpData, user, handle, enumData>>

ThreadUnlocks(n) ==
    /\ Posix /\ IsAt(n, "ended")
    /\ Set(thread[n].ptr, "mRunMutex", None)
    /\ GoThread(n, "unlocked")
    /\ UNCHANGED <<platform, mpData, user, handle, enumData>>

ThreadExits(n) == Posix /\ ThreadReleases(n, "unlocked")

-----------------------------------------------------------------------------
(* WaitForEnd.                                                             *)

\* GetStatus, which has no effect of its own.
ReadStatus(u) ==
    /\ Posix /\ At(u, "check")
    /\ LET status == TheData(u).mnStatus
       IN  GoWith(u, CASE status = "none" -> "startedWait"
                       [] status = "running" -> "lockRun"
                       [] status = "ended" -> "join", status)
    /\ UNCHANGED <<platform, data, mpData, thread, handle, enumData>>

StartedWait(u) ==
    /\ Posix /\ At(u, "startedWait")
    /\ TheData(u).mStartedSemaphore > 0
    /\ Set(Of(u), "mStartedSemaphore", TheData(u).mStartedSemaphore - 1)
    /\ GoWith(u, "repost", "running")
    /\ UNCHANGED <<platform, mpData, thread, handle, enumData>>

Repost(u) ==
    /\ Posix /\ At(u, "repost")
    /\ Set(Of(u), "mStartedSemaphore", TheData(u).mStartedSemaphore + 1)
    /\ Go(u, "lockRun")
    /\ UNCHANGED <<platform, mpData, thread, handle, enumData>>

\* The wait for mStartedSemaphore times out: as for a thread that has ended,
\* join it.
StartedWaitTimesOut(u) ==
    /\ Posix /\ At(u, "startedWait")
    /\ StartTimesOut
    /\ Go(u, "join")
    /\ UNCHANGED <<platform, data, mpData, thread, handle, enumData>>

LockRun(u) ==
    /\ Posix /\ At(u, "lockRun")
    /\ TheData(u).mRunMutex = None
    /\ Set(Of(u), "mRunMutex", u)
    /\ Go(u, "joinLocked")
    /\ UNCHANGED <<platform, mpData, thread, handle, enumData>>

LockRunTimesOut(u) ==
    /\ Posix /\ At(u, "lockRun")
    /\ Return(u)
    /\ UNCHANGED <<platform, data, mpData, thread, handle, enumData>>

\* pthread_join returns when the thread has exited.
Join(u) ==
    /\ Posix /\ user[u].pc \in {"joinLocked", "join"}
    /\ \E n \in Threads :
          /\ TheData(u).mSysThreadId = n /\ IsAt(n, "exited")
          /\ handle' = [handle EXCEPT ![n] = @ + 1]
    /\ Set(Of(u), "mThreadId", None)
    /\ IF At(u, "joinLocked") THEN GoWith(u, "unlockRun", "ended") ELSE Go(u, "return")
    /\ UNCHANGED <<platform, mpData, thread, enumData>>

UnlockRun(u) ==
    /\ Posix /\ At(u, "unlockRun")
    /\ Set(Of(u), "mRunMutex", None)
    /\ Go(u, "return")
    /\ UNCHANGED <<platform, mpData, thread, handle, enumData>>

\* If the thread ended, GetStatus fetches its status again, with its result:
\* both are still there.
WaitForEndReturns(u) ==
    /\ Posix /\ At(u, "return")
    /\ Return(u)
    /\ UNCHANGED <<platform, data, mpData, thread, handle, enumData>>

-----------------------------------------------------------------------------
\* The same steps run an object (RunnableObjectInternal).
UnixThreadStep(n) ==
    \/ ThreadLocks(n) \/ ThreadPosts(n) \/ ThreadRuns(n) \/ ThreadEnds(n)
    \/ ThreadUnlocks(n) \/ ThreadExits(n)

\* The steps of a user inside a function that do not depend on the time.
UnixUserStep(u) ==
    \/ BeginConstructs(u) \/ BeginCreates(u) \/ BeginReturns(u) \/ BeginGoesOn(u) \/ BeginNames(u)
    \/ ReadStatus(u) \/ StartedWait(u) \/ Repost(u) \/ LockRun(u) \/ Join(u)
    \/ UnlockRun(u) \/ WaitForEndReturns(u)

\* What a user does, and what the time or the system does to it.
UnixChoice(u) ==
    Begin(u) \/ BeginFails(u) \/ StartedWaitTimesOut(u) \/ LockRunTimesOut(u)
-----------------------------------------------------------------------------
(* Kettle.                                                                 *)

Kettle == platform = "kettle"

\* scePthreadCreate gives mSysThreadId, to which it succeeds and the thread
\* runs at once ...
KettleCreates(u) ==
    /\ Kettle /\ At(u, "create")
    /\ \E n \in Threads :
          /\ Born(n)
          /\ thread' = [thread EXCEPT ![n] = [pc |-> "created", ptr |-> user[u].ptr, by |-> u]]
          /\ Set(user[u].ptr, "mSysThreadId", n)
    /\ Go(u, "identify")
    /\ UNCHANGED <<platform, mpData, handle, enumData>>

\* ... and mThreadId follows.
KettleIdentifies(u) ==
    /\ Kettle /\ At(u, "identify")
    /\ Set(user[u].ptr, "mThreadId", data[user[u].ptr].mSysThreadId)
    /\ Go(u, "created")
    /\ UNCHANGED <<platform, mpData, thread, handle, enumData>>

KettleBegins(u) ==
    /\ Kettle
    /\ \/ BeginConstructs(u) \/ KettleCreates(u) \/ KettleIdentifies(u) \/ BeginReturns(u)

\* A thread runs a function (this is RunnableFunctionInternal) or an object
\* (RunnableObjectInternal), with the same steps.
KettleRuns(n) ==
    /\ Kettle
    /\ \/ ThreadLocks(n) \/ ThreadPosts(n) \/ ThreadRuns(n) \/ ThreadEnds(n)
       \/ ThreadUnlocks(n) \/ ThreadExits(n)

\* WaitForEnd without its polling and its timeouts.
KettleWaits(u) ==
    /\ Kettle
    /\ \/ ReadStatus(u) \/ StartedWait(u) \/ Repost(u) \/ LockRun(u) \/ Join(u)
       \/ UnlockRun(u) \/ WaitForEndReturns(u)
=============================================================================
