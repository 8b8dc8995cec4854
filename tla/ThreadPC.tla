------------------------------ MODULE ThreadPC ------------------------------
(***************************************************************************)
(* EA::Thread::Thread on Windows (source/pc/eathread_thread_pc.cpp).  The  *)
(* thread is created suspended and resumed by Begin; WaitForEnd waits for  *)
(* its handle, mhThread, and closes it, as do GetStatus when it finds that *)
(* the thread has exited and the destructor of the data.                   *)
(***************************************************************************)
EXTENDS ThreadState

PC == platform = "pc"

-----------------------------------------------------------------------------
(* Begin.                                                                  *)

PCBegin(u) == PC /\ BeginFinds(u, 2)
PCBeginObject(u) == PC /\ BeginObject(u)

PCConstructs(u) ==
    /\ PC /\ At(u, "construct")
    /\ data' = [data EXCEPT ![user[u].ptr] =
                   [Fresh EXCEPT !.used = TRUE, !.live = TRUE, !.mnRefCount = 3]]
    /\ mpData' = [mpData EXCEPT ![u] = user[u].ptr]
    /\ Go(u, "create")
    /\ UNCHANGED <<platform, thread, handle, enumData>>

\* _beginthreadex, suspended, and then mhThread, priority and processor.
PCCreates(u) ==
    /\ PC /\ At(u, "create")
    /\ \E n \in Threads :
          /\ Born(n)
          /\ thread' = [thread EXCEPT ![n] = [pc |-> "suspended", ptr |-> user[u].ptr, by |-> u]]
          /\ data' = [data EXCEPT ![user[u].ptr] =
                         [@ EXCEPT !.mThreadId = n, !.mSysThreadId = n]]
    /\ Go(u, "resume")
    /\ UNCHANGED <<platform, mpData, handle, enumData>>

PCFails(u) ==
    /\ PC /\ At(u, "create")
    /\ UserReleasesSome(u, user[u].ptr, 3, "idle")
    /\ mpData' = [mpData EXCEPT ![u] = None]
    /\ UNCHANGED <<platform, thread, handle, enumData>>

PCResumes(u) ==
    /\ PC /\ At(u, "resume")
    /\ GoThread(data[user[u].ptr].mSysThreadId, "created")
    /\ Go(u, "created")
    /\ UNCHANGED <<platform, data, mpData, handle, enumData>>

PCBeginReturns(u) ==
    /\ PC /\ At(u, "created")
    /\ UserReleases(u, user[u].ptr, "idle")
    /\ UNCHANGED <<platform, mpData, thread, handle, enumData>>

-----------------------------------------------------------------------------
(* The thread; the handle of a suspended or running thread is not yet      *)
(* signalled.                                                              *)

PCThreadRuns(n) ==
    /\ PC /\ IsAt(n, "created")
    /\ Set(thread[n].ptr, "mnStatus", "running")
    /\ GoThread(n, "running")
    /\ UNCHANGED <<platform, mpData, user, handle, enumData>>

\* The user's function returns.
PCThreadEnds(n) ==
    /\ PC /\ IsAt(n, "running")
    /\ Set(thread[n].ptr, "mnStatus", "ended")
    /\ GoThread(n, "ended")
    /\ UNCHANGED <<platform, mpData, user, handle, enumData>>

\* The same steps run an object (RunnableObjectInternal).
PCRuns(n) == PCThreadRuns(n) \/ PCThreadEnds(n) \/ (PC /\ ThreadReleases(n, "ended"))

-----------------------------------------------------------------------------
(* WaitForEnd and GetStatus.                                               *)

\* "If it was started..."; without a handle it must have ended.
PCChecks(u) ==
    /\ PC /\ At(u, "check")
    /\ IF TheData(u).mThreadId # None
       THEN Go(u, "waitHandle") ELSE GoWith(u, "return", "ended")
    /\ UNCHANGED <<platform, data, mpData, thread, handle, enumData>>

PCWaits(u) ==
    /\ PC /\ At(u, "waitHandle")
    /\ IsAt(TheData(u).mSysThreadId, "exited")
    /\ Go(u, "close")
    /\ UNCHANGED <<platform, data, mpData, thread, handle, enumData>>

PCWaitTimesOut(u) ==
    /\ PC /\ At(u, "waitHandle")
    /\ Return(u)
    /\ UNCHANGED <<platform, data, mpData, thread, handle, enumData>>

\* CloseHandle(mhThread); closing no handle does nothing.
PCCloses(u) ==
    /\ PC /\ user[u].pc \in {"close", "closeForStatus"}
    /\ handle' = IF TheData(u).mThreadId = None THEN handle
                 ELSE [handle EXCEPT ![TheData(u).mThreadId] = @ + 1]
    /\ Go(u, IF At(u, "close") THEN "zero" ELSE "zeroForStatus")
    /\ UNCHANGED <<platform, data, mpData, thread, enumData>>

\* Mutant of PCZeroes: the destructor of the data closes the handle again.
PCKeepsHandle(u) ==
    /\ PC /\ user[u].pc \in {"zero", "zeroForStatus"}
    /\ Set(Of(u), "mnStatus", "ended")
    /\ IF At(u, "zero") THEN GoWith(u, "return", "ended") ELSE Return(u)
    /\ UNCHANGED <<platform, mpData, thread, handle, enumData>>

\* mhThread = 0; mnStatus = kStatusEnded.
PCZeroes(u) ==
    /\ PC /\ user[u].pc \in {"zero", "zeroForStatus"}
    /\ data' = [data EXCEPT ![Of(u)] = [@ EXCEPT !.mThreadId = None, !.mnStatus = "ended"]]
    /\ IF At(u, "zero") THEN GoWith(u, "return", "ended") ELSE Return(u)
    /\ UNCHANGED <<platform, mpData, thread, handle, enumData>>

PCReturns(u) ==
    /\ PC /\ At(u, "return")
    /\ Return(u)
    /\ UNCHANGED <<platform, data, mpData, thread, handle, enumData>>

\* Mutant of PCGetStatus: whatever is no longer to be closed has ended.
PCGetStatusUnseen(u, o) ==
    /\ PC /\ At(u, "idle") /\ mpData[o] # None
    /\ Careful => ~InBegin(o) /\ MayClose(mpData[o]) = {}
    /\ Set(mpData[o], "mnStatus", "ended")
    /\ UNCHANGED <<platform, mpData, user, thread, handle, enumData>>

\* GetExitCodeThread says whether the thread has exited.  (A function that
\* returns 259, STILL_ACTIVE, is left out.)
PCGetStatus(u, o) ==
    /\ PC /\ At(u, "idle") /\ mpData[o] # None
    /\ Careful => ~InBegin(o) /\ MayClose(mpData[o]) = {}
    /\ \/ /\ data[mpData[o]].mThreadId = None
          /\ Set(mpData[o], "mnStatus", "ended")
          /\ UNCHANGED user
       \/ /\ data[mpData[o]].mThreadId # None /\ IsAt(data[mpData[o]].mThreadId, "exited")
          /\ user' = [user EXCEPT ![u] = [@ EXCEPT !.obj = o, !.pc = "closeForStatus"]]
          /\ UNCHANGED data
    /\ UNCHANGED <<platform, mpData, thread, handle, enumData>>

-----------------------------------------------------------------------------
PCUserStep(u) ==
    \/ PCConstructs(u) \/ PCCreates(u) \/ PCResumes(u) \/ PCBeginReturns(u)
    \/ PCChecks(u) \/ PCWaits(u) \/ PCCloses(u) \/ PCZeroes(u) \/ PCReturns(u)

PCChoice(u) ==
    \/ PCBegin(u) \/ PCBeginObject(u) \/ PCFails(u) \/ PCWaitTimesOut(u)
    \/ \E o \in Users : PCGetStatus(u, o)
=============================================================================
