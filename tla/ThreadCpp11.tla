---------------------------- MODULE ThreadCpp11 ----------------------------
(***************************************************************************)
(* EA::Thread::Thread over std::thread (source/cpp11/                      *)
(* eathread_thread_cpp11.cpp).  The constructor of the data, which has two *)
(* references from the start, begins the thread; WaitForEnd waits for the  *)
(* future of the value that the thread sets, and joins.                    *)
(***************************************************************************)
EXTENDS ThreadState

Cpp11 == platform = "cpp11"

\* The references of the caller's data are those of the constructor and one
\* more.
Cpp11Begin(u) == Cpp11 /\ BeginFinds(u, 3)
Cpp11BeginObject(u) == Cpp11 /\ BeginObject(u)

\* Mutant of Cpp11Constructs: the object's reference only.
Cpp11ConstructsForOne(u) ==
    /\ Cpp11 /\ At(u, "construct")
    /\ \E n \in Threads :
          /\ Born(n)
          /\ thread' = [thread EXCEPT ![n] = [pc |-> "created", ptr |-> user[u].ptr, by |-> u]]
          /\ data' = [data EXCEPT ![user[u].ptr] =
                 [Fresh EXCEPT !.used = TRUE, !.live = TRUE, !.mnRefCount = 1, !.mSysThreadId = n]]
    /\ Go(u, "identify")
    /\ UNCHANGED <<platform, mpData, handle, enumData>>

\* The constructor begins the thread ...
Cpp11Constructs(u) ==
    /\ Cpp11 /\ At(u, "construct")
    /\ \E n \in Threads :
          /\ Born(n)
          /\ thread' = [thread EXCEPT ![n] = [pc |-> "created", ptr |-> user[u].ptr, by |-> u]]
          /\ data' = [data EXCEPT ![user[u].ptr] =
                 [Fresh EXCEPT !.used = TRUE, !.live = TRUE, !.mnRefCount = 2, !.mSysThreadId = n]]
    /\ Go(u, "identify")
    /\ UNCHANGED <<platform, mpData, handle, enumData>>

\* ... and only then mpComp->mThread is it.
Cpp11Identifies(u) ==
    /\ Cpp11 /\ At(u, "identify")
    /\ Set(user[u].ptr, "mThreadId", data[user[u].ptr].mSysThreadId)
    /\ Go(u, "publish")
    /\ UNCHANGED <<platform, mpData, thread, handle, enumData>>

Cpp11Publishes(u) ==
    /\ Cpp11 /\ At(u, "publish")
    /\ mpData' = [mpData EXCEPT ![u] = user[u].ptr]
    /\ Go(u, "created")
    /\ UNCHANGED <<platform, data, thread, handle, enumData>>

\* Begin returns the id of the thread, which it reads from the data.
Cpp11BeginReturns(u) ==
    /\ Cpp11 /\ At(u, "created")
    /\ Return(u)
    /\ UNCHANGED <<platform, data, mpData, thread, handle, enumData>>

-----------------------------------------------------------------------------
(* The thread: RunnableFunctionInternal.                                   *)

Cpp11ThreadRuns(n) ==
    /\ Cpp11 /\ IsAt(n, "created")
    /\ Set(thread[n].ptr, "mnStatus", "running")
    /\ GoThread(n, "running")
    /\ UNCHANGED <<platform, mpData, user, handle, enumData>>

\* The promise gets the value of the user's function.
Cpp11ThreadReturns(n) ==
    /\ Cpp11 /\ IsAt(n, "running")
    /\ Set(thread[n].ptr, "hasValue", TRUE)
    /\ GoThread(n, "valued")
    /\ UNCHANGED <<platform, mpData, user, handle, enumData>>

Cpp11ThreadEnds(n) ==
    /\ Cpp11 /\ IsAt(n, "valued")
    /\ Set(thread[n].ptr, "mnStatus", "ended")
    /\ GoThread(n, "ended")
    /\ UNCHANGED <<platform, mpData, user, handle, enumData>>

\* The same steps run an object (RunnableObjectInternal).
Cpp11Runs(n) ==
    \/ Cpp11ThreadRuns(n) \/ Cpp11ThreadReturns(n) \/ Cpp11ThreadEnds(n)
    \/ Cpp11 /\ ThreadReleases(n, "ended")

-----------------------------------------------------------------------------
\* WaitForEnd: wait for the future ...
Cpp11Waits(u) ==
    /\ Cpp11 /\ At(u, "check")
    /\ TheData(u).hasValue
    /\ Go(u, "join")
    /\ UNCHANGED <<platform, data, mpData, thread, handle, enumData>>

Cpp11WaitTimesOut(u) ==
    /\ Cpp11 /\ At(u, "check")
    /\ Return(u)
    /\ UNCHANGED <<platform, data, mpData, thread, handle, enumData>>

\* ... and join.
Cpp11Joins(u) ==
    /\ Cpp11 /\ At(u, "join")
    /\ \E n \in Threads :
          /\ TheData(u).mThreadId = n /\ IsAt(n, "exited")
          /\ handle' = [handle EXCEPT ![n] = @ + 1]
    /\ Set(Of(u), "mThreadId", None)
    /\ GoWith(u, "return", "ended")
    /\ UNCHANGED <<platform, mpData, thread, enumData>>

Cpp11Returns(u) ==
    /\ Cpp11 /\ At(u, "return")
    /\ Return(u)
    /\ UNCHANGED <<platform, data, mpData, thread, handle, enumData>>

-----------------------------------------------------------------------------
Cpp11UserStep(u) ==
    \/ Cpp11Constructs(u) \/ Cpp11Identifies(u) \/ Cpp11Publishes(u) \/ Cpp11BeginReturns(u)
    \/ Cpp11Waits(u) \/ Cpp11Joins(u) \/ Cpp11Returns(u)

Cpp11Choice(u) ==
    Cpp11Begin(u) \/ Cpp11BeginObject(u) \/ Cpp11WaitTimesOut(u)
=============================================================================
