---------------------------- MODULE ThreadPool ----------------------------
(***************************************************************************)
(* EA::Thread::ThreadPool (source/eathread_pool.cpp): clients queue jobs,  *)
(* wait for them, pause, shut down and destroy the pool; worker threads    *)
(* take jobs off mJobList and wait on mThreadCondition when it is empty.   *)
(*                                                                         *)
(* A step is a critical section of mThreadMutex, or one of the accesses    *)
(* the code makes without it: mbInitialized in Begin and Shutdown,         *)
(* mnPauseCount in Pause, mnActiveCount while waiting for current jobs and *)
(* the list of threads in Shutdown.  The condition is that of POSIX: a     *)
(* signal wakes a thread that waits, and is forgotten when none does.      *)
(***************************************************************************)
EXTENDS Integers, FiniteSets, Sequences

CONSTANTS
    Clients,         \* The threads that use the pool.
    Workers,         \* The threads the pool can create; an ended one is reused.
    MinCount, MaxCount, InitialCount,  \* The pool's parameters.
    MaxJobs,         \* Bound: the number of calls of Begin.
    MaxPause,        \* Bound: how often Pause(true) is outstanding.
    IdleTimeout,     \* Can an idle worker's wait time out
                     \* (mnIdleTimeoutMilliseconds is not kTimeoutNone)?
    WaitTimeout,     \* Do waits for jobs have a timeout?
    ShutdownTimeout, \* Does Shutdown?
    ShutdownKinds,   \* The JobWait values Shutdown is called with.
    AloneAtShutdown, \* Is Shutdown called only when no other call is going on?
    PromptStart,     \* Does a thread run before Thread::Begin returns?
    UserThreads      \* Do clients call AddThread?

Jobs == 1 .. MaxJobs

ASSUME PoolAssumption ==
    /\ IsFiniteSet(Clients) /\ IsFiniteSet(Workers)
    /\ Cardinality(Workers) >= MaxCount
    /\ {MinCount, MaxCount, InitialCount, MaxJobs, MaxPause} \subseteq Nat
    /\ {IdleTimeout, WaitTimeout, ShutdownTimeout, AloneAtShutdown, PromptStart, UserThreads}
           \subseteq BOOLEAN
    /\ ShutdownKinds \subseteq {"none", "current", "all"}

VARIABLES
    mbInitialized, mnCurrentCount, mnActiveCount, mnPauseCount, mnLastJobID,
    mThreadInfoList, \* The workers in the list.
    mJobList,        \* The ids of the waiting jobs.
    mbQuit,          \* The workers told to quit.
    thread,          \* Where each worker's thread is, see ThreadStates.
    mCurrentJob,     \* The job of each worker, 0 for none.
    call,            \* What each client is doing, see Calls.
    about,           \* The jobs each client's call is about.
    fate,            \* What became of each job.
    reported,        \* The jobs a wait reported complete.
    destroyed        \* Has the destructor run?

poolVars == <<mbInitialized, mnCurrentCount, mnActiveCount, mnPauseCount,
              mnLastJobID, mThreadInfoList, mJobList, mbQuit>>
vars == <<poolVars, thread, mCurrentJob, call, about, fate, reported, destroyed>>

ThreadStates ==
    {"ended",    \* No thread, or one that has ended.
     "begun",    \* Thread::Begin returned; the thread has yet to run.
     "ready",    \* Running; takes mThreadMutex next, for the first time,
     "finished", \*   after its job,
     "woken",    \*   after a signal,
     "expired",  \*   after its wait timed out.
     "waiting",  \* In mThreadCondition.Wait.
     "working"}  \* Runs its job.

Calls ==
    {"none", "begin", "unpause", "waitJob", "waitCurrent", "recheckCurrent",
     "waitAll", "recheckAll", "shutdownNone", "shutdownCurrent", "shutdownAll",
     "shutdownQuit", "poll"}

Fates == {"unborn", "begun", "refused", "queued", "running", "done", "dropped"}

TypeOK ==
    /\ mbInitialized \in BOOLEAN
    /\ mnCurrentCount \in Nat
    /\ mnActiveCount \in Nat
    /\ mnPauseCount \in Int
    /\ mnLastJobID \in 0 .. MaxJobs
    /\ mThreadInfoList \subseteq Workers
    /\ mJobList \in Seq(Jobs)
    /\ mbQuit \subseteq Workers
    /\ thread \in [Workers -> ThreadStates]
    /\ mCurrentJob \in [Workers -> Jobs \cup {0}]
    /\ call \in [Clients -> Calls]
    /\ about \in [Clients -> SUBSET Jobs]
    /\ fate \in [Jobs -> Fates]
    /\ reported \subseteq Jobs
    /\ destroyed \in BOOLEAN

Queued == {mJobList[i] : i \in 1 .. Len(mJobList)}

AtLeast(m, n) == IF m < n THEN n ELSE m
AtMost(m, n) == IF m > n THEN n ELSE m

\* How many threads ThreadPool::Init creates.
FirstCount == AtMost(AtLeast(InitialCount, MinCount), MaxCount)

\* The state of a worker whose Thread::Begin has returned.
JustBegun == IF PromptStart THEN "ready" ELSE "begun"

Init ==
    /\ mbInitialized = TRUE
    /\ mnCurrentCount = FirstCount
    /\ mnActiveCount = 0
    /\ mnPauseCount = 0
    /\ mnLastJobID = 0
    /\ mThreadInfoList \in {W \in SUBSET Workers : Cardinality(W) = FirstCount}
    /\ mJobList = <<>>
    /\ mbQuit = {}
    /\ thread = [w \in Workers |-> IF w \in mThreadInfoList THEN JustBegun ELSE "ended"]
    /\ mCurrentJob = [w \in Workers |-> 0]
    /\ call = [c \in Clients |-> "none"]
    /\ about = [c \in Clients |-> {}]
    /\ fate = [j \in Jobs |-> "unborn"]
    /\ reported = {}
    /\ destroyed = FALSE

-----------------------------------------------------------------------------
(* Shared parts.                                                           *)

Active(w) == thread[w] \in {"working", "finished"}     \* ThreadInfo::mbActive
Free == {w \in Workers \ mThreadInfoList : thread[w] = "ended"}
Waiting == {w \in Workers : thread[w] = "waiting"}

\* ThreadInfo::GetStatus() # kStatusRunning.
NotRunning(w) == thread[w] \in {"begun", "ended"}

\* Mutant of Wakeable: nobody is signalled.
WakeNobody == {{}}

\* The sets of waiting workers that Condition::Signal(false) may wake.
Wakeable == IF Waiting = {} THEN {{}} ELSE {{w} : w \in Waiting}

\* The threads after those in woken were signalled and those in begun begun;
\* FixThreads begins again any thread of the list that has ended.
Threads(begun, woken) ==
    [w \in Workers |->
        IF w \in begun \/ (w \in mThreadInfoList /\ thread[w] = "ended") THEN JustBegun
        ELSE IF w \in woken THEN "woken" ELSE thread[w]]

Idle(c) == call[c] = "none" /\ ~destroyed
Goto(c, label) == call' = [call EXCEPT ![c] = label]
Become(jobs, f) == fate' = [j \in Jobs |-> IF j \in jobs THEN f ELSE fate[j]]

-----------------------------------------------------------------------------
(* Worker threads: ThreadFunction.                                         *)

StartThread(w) ==
    /\ thread[w] = "begun"
    /\ thread' = [thread EXCEPT ![w] = "ready"]
    /\ UNCHANGED <<poolVars, mCurrentJob, call, about, fate, reported, destroyed>>

\* The worker has the mutex, at the head of its loop.
AtLoop(w) ==
    /\ thread[w] \in {"ready", "finished", "woken", "expired"}
    /\ mnActiveCount' = mnActiveCount - (IF thread[w] = "finished" THEN 1 ELSE 0)

Quits(w) == w \in mbQuit \/ thread[w] = "expired"

\* Mutant of Quit: RemoveThread does not decrement mnCurrentCount.
QuitKeepsCount(w) ==
    /\ AtLoop(w)
    /\ Quits(w)
    /\ mThreadInfoList' = mThreadInfoList \ {w}
    /\ mbQuit' = mbQuit \ {w}
    /\ thread' = [thread EXCEPT ![w] = "ended"]
    /\ mCurrentJob' = [mCurrentJob EXCEPT ![w] = 0]
    /\ UNCHANGED <<mbInitialized, mnCurrentCount, mnPauseCount, mnLastJobID, mJobList,
                   call, about, fate, reported, destroyed>>

\* Leave the loop; RemoveThread.
Quit(w) ==
    /\ AtLoop(w)
    /\ Quits(w)
    /\ mThreadInfoList' = mThreadInfoList \ {w}
    /\ mnCurrentCount' = mnCurrentCount - (IF w \in mThreadInfoList THEN 1 ELSE 0)
    /\ mbQuit' = mbQuit \ {w}
    /\ thread' = [thread EXCEPT ![w] = "ended"]
    /\ mCurrentJob' = [mCurrentJob EXCEPT ![w] = 0]
    /\ UNCHANGED <<mbInitialized, mnPauseCount, mnLastJobID, mJobList,
                   call, about, fate, reported, destroyed>>

TakeJob(w) ==
    /\ thread[w] \in {"ready", "finished", "woken", "expired"}
    /\ ~Quits(w)
    /\ mJobList # <<>>
    /\ mCurrentJob' = [mCurrentJob EXCEPT ![w] = Head(mJobList)]
    /\ mJobList' = Tail(mJobList)
    /\ mnActiveCount' = mnActiveCount + (IF thread[w] = "finished" THEN 0 ELSE 1)
    /\ thread' = [thread EXCEPT ![w] = "working"]
    /\ Become({Head(mJobList)}, "running")
    /\ UNCHANGED <<mbInitialized, mnCurrentCount, mnPauseCount, mnLastJobID,
                   mThreadInfoList, mbQuit, call, about, reported, destroyed>>

WaitForJob(w) ==
    /\ AtLoop(w)
    /\ ~Quits(w)
    /\ mJobList = <<>>
    /\ thread' = [thread EXCEPT ![w] = "waiting"]
    /\ UNCHANGED <<mbInitialized, mnCurrentCount, mnPauseCount, mnLastJobID, mThreadInfoList,
                   mJobList, mbQuit, mCurrentJob, call, about, fate, reported, destroyed>>

\* The job's function returns; the mutex is taken later.
FinishJob(w) ==
    /\ thread[w] = "working"
    /\ thread' = [thread EXCEPT ![w] = "finished"]
    /\ Become({mCurrentJob[w]}, "done")
    /\ UNCHANGED <<poolVars, mCurrentJob, call, about, reported, destroyed>>

\* The wait times out: the thread is no longer there to be signalled, but it
\* has yet to get the mutex back.
WaitExpires(w) ==
    /\ IdleTimeout
    /\ thread[w] = "waiting"
    /\ thread' = [thread EXCEPT ![w] = "expired"]
    /\ UNCHANGED <<poolVars, mCurrentJob, call, about, fate, reported, destroyed>>

-----------------------------------------------------------------------------
(* Begin and QueueJob.                                                     *)

\* A job id, and the look at mbInitialized without the mutex.
Begin(c) ==
    /\ Idle(c)
    /\ mnLastJobID < MaxJobs
    /\ mnLastJobID' = mnLastJobID + 1
    /\ IF mbInitialized
       THEN /\ Goto(c, "begin")
            /\ about' = [about EXCEPT ![c] = {mnLastJobID + 1}]
            /\ Become({mnLastJobID + 1}, "begun")
       ELSE Become({mnLastJobID + 1}, "refused") /\ UNCHANGED <<call, about>>
    /\ UNCHANGED <<mbInitialized, mnCurrentCount, mnActiveCount, mnPauseCount, mThreadInfoList,
                   mJobList, mbQuit, thread, mCurrentJob, reported, destroyed>>

\* Mutant of NeedsThread: off by one at mnMaxCount.
NeedsThreadPastMax ==
    /\ mnActiveCount >= mnCurrentCount \/ mJobList # <<>>
    /\ mnCurrentCount <= MaxCount

\* QueueJob creates a thread if none is free and there may be one more.
NeedsThread ==
    /\ mnActiveCount >= mnCurrentCount \/ mJobList # <<>>
    /\ mnCurrentCount < MaxCount

QueueJob(c) ==
    /\ call[c] = "begin"
    /\ \E added \in IF NeedsThread THEN {{w} : w \in Free} ELSE {{}},
          woken \in IF mnPauseCount = 0 THEN Wakeable ELSE {{}} :
            /\ mThreadInfoList' = mThreadInfoList \cup added
            /\ mnCurrentCount' = mnCurrentCount + Cardinality(added)
            /\ thread' = Threads(added, woken)
    /\ \E j \in about[c] : mJobList' = Append(mJobList, j)
    /\ Become(about[c], "queued")
    /\ Goto(c, "none")
    /\ about' = [about EXCEPT ![c] = {}]
    /\ UNCHANGED <<mbInitialized, mnActiveCount, mnPauseCount, mnLastJobID, mbQuit,
                   mCurrentJob, reported, destroyed>>

\* AddThread(tp, true) between Lock and Unlock.
AddThread(c) ==
    /\ UserThreads
    /\ Idle(c)
    /\ mbInitialized
    /\ \E w \in Free :
          /\ mThreadInfoList' = mThreadInfoList \cup {w}
          /\ mnCurrentCount' = mnCurrentCount + 1
          /\ thread' = [thread EXCEPT ![w] = JustBegun]
    /\ UNCHANGED <<mbInitialized, mnActiveCount, mnPauseCount, mnLastJobID, mJobList, mbQuit,
                   mCurrentJob, call, about, fate, reported, destroyed>>

-----------------------------------------------------------------------------
(* Pause.                                                                  *)

Pause(c) ==
    /\ Idle(c)
    /\ mnPauseCount < MaxPause
    /\ mnPauseCount' = mnPauseCount + 1
    /\ UNCHANGED <<mbInitialized, mnCurrentCount, mnActiveCount, mnLastJobID, mThreadInfoList,
                   mJobList, mbQuit, thread, mCurrentJob, call, about, fate, reported,
                   destroyed>>

Unpause(c) ==
    /\ Idle(c)
    /\ mnPauseCount > 0
    /\ mnPauseCount' = mnPauseCount - 1
    /\ Goto(c, IF mnPauseCount' = 0 THEN "unpause" ELSE "none")
    /\ UNCHANGED <<mbInitialized, mnCurrentCount, mnActiveCount, mnLastJobID, mThreadInfoList,
                   mJobList, mbQuit, thread, mCurrentJob, about, fate, reported,
                   destroyed>>

\* Mutant of UnpauseSignal: signals if there are no jobs instead of if there are.
UnpauseSignalInverted(c) ==
    /\ call[c] = "unpause"
    /\ thread' = IF mJobList # <<>> THEN thread
                 ELSE [w \in Workers |-> IF w \in Waiting THEN "woken" ELSE thread[w]]
    /\ Goto(c, "none")
    /\ UNCHANGED <<poolVars, mCurrentJob, about, fate, reported, destroyed>>

UnpauseSignal(c) ==
    /\ call[c] = "unpause"
    /\ thread' = IF mJobList = <<>> THEN thread
                 ELSE [w \in Workers |-> IF w \in Waiting THEN "woken" ELSE thread[w]]
    /\ Goto(c, "none")
    /\ UNCHANGED <<poolVars, mCurrentJob, about, fate, reported, destroyed>>

-----------------------------------------------------------------------------
(* WaitForJobCompletion.                                                   *)

UnchangedPool == UNCHANGED <<poolVars, thread, mCurrentJob, fate, destroyed>>

Ask(c, label, jobs) ==
    /\ Idle(c)
    /\ mbInitialized
    /\ Goto(c, label)
    /\ about' = [about EXCEPT ![c] = jobs]
    /\ UnchangedPool /\ UNCHANGED reported

With(f) == {j \in Jobs : fate[j] \in f}

WaitJob(c) == \E j \in With({"queued", "running", "done", "dropped"}) : Ask(c, "waitJob", {j})
WaitCurrent(c) == Ask(c, "waitCurrent", With({"running"}))
WaitAll(c) == Ask(c, "waitAll", With({"queued", "running"}))

Answer(c, ok) ==
    /\ reported' = IF ok THEN reported \cup about[c] ELSE reported
    /\ Goto(c, "none")
    /\ about' = [about EXCEPT ![c] = {}]
    /\ UnchangedPool

\* Mutant of JobIsGone: only the list of waiting jobs is searched.
JobIsNotListed(j) == j \notin Queued

\* One job: it is neither in the list nor being worked on.
JobIsGone(j) == j \notin Queued /\ ~\E w \in mThreadInfoList : Active(w) /\ mCurrentJob[w] = j

JobWaitEnds(c) ==
    /\ call[c] = "waitJob"
    /\ WaitTimeout \/ \A j \in about[c] : JobIsGone(j)
    /\ Answer(c, \A j \in about[c] : JobIsGone(j))

\* All jobs: the loop ends, and the state is looked at again.
\* Who waits for the current ones looks without the mutex, so maybe while a worker
\* that goes from one job to the next has decremented mnActiveCount and has yet to
\* increment it.
Continuing == {w \in Workers : thread[w] = "finished" /\ ~Quits(w) /\ mJobList # <<>>}
ActiveCounts == {mnActiveCount} \cup {mnActiveCount - 1 : w \in Continuing}
NoneLeft == mnActiveCount = 0 /\ mJobList = <<>>

LoopEnds(c) ==
    /\ \/ call[c] = "waitCurrent" /\ (0 \in ActiveCounts \/ WaitTimeout) /\ Goto(c, "recheckCurrent")
       \/ call[c] = "waitAll" /\ (NoneLeft \/ WaitTimeout) /\ Goto(c, "recheckAll")
    /\ UnchangedPool /\ UNCHANGED <<about, reported>>

Recheck(c) ==
    \/ call[c] = "recheckCurrent" /\ \E n \in ActiveCounts : Answer(c, n = 0)
    \/ call[c] = "recheckAll" /\ Answer(c, NoneLeft)

-----------------------------------------------------------------------------
(* Shutdown and the destructor.                                            *)

ShutdownCall == [none |-> "shutdownNone", current |-> "shutdownCurrent", all |-> "shutdownAll"]

Shutdown(c) ==
    /\ Idle(c)
    /\ mbInitialized
    /\ AloneAtShutdown => \A d \in Clients : call[d] = "none"
    /\ mbInitialized' = FALSE
    /\ \E kind \in ShutdownKinds : Goto(c, ShutdownCall[kind])
    /\ UNCHANGED <<mnCurrentCount, mnActiveCount, mnPauseCount, mnLastJobID, mThreadInfoList,
                   mJobList, mbQuit, thread, mCurrentJob, about, fate, reported,
                   destroyed>>

\* WaitForJobCompletion(-1, jobWait, timeout) returns, or times out; for no
\* jobs it returns at once.
ShutdownWaitEnds(c) ==
    /\ call[c] \in {"shutdownCurrent", "shutdownAll"}
    /\ ShutdownTimeout \/ (IF call[c] = "shutdownCurrent" THEN 0 \in ActiveCounts ELSE NoneLeft)
    /\ Goto(c, "shutdownQuit")
    /\ UnchangedPool /\ UNCHANGED <<about, reported>>

\* Mutant of ShutdownQuit: the condition is not signalled.
ShutdownQuitSilent(c) ==
    /\ call[c] \in {"shutdownNone", "shutdownQuit"}
    /\ IF call[c] = "shutdownNone"
       THEN mJobList' = <<>> /\ Become(Queued, "dropped")
       ELSE UNCHANGED <<mJobList, fate>>
    /\ mbQuit' = mbQuit \cup mThreadInfoList
    /\ mThreadInfoList' = {w \in mThreadInfoList : ~NotRunning(w)}
    /\ Goto(c, "poll")
    /\ UNCHANGED <<mbInitialized, mnCurrentCount, mnActiveCount, mnPauseCount, mnLastJobID,
                   thread, mCurrentJob, about, reported, destroyed>>

\* Tell every thread of the list to quit, drop from the list those that are
\* not running, and wake the others.
ShutdownQuit(c) ==
    /\ call[c] \in {"shutdownNone", "shutdownQuit"}
    /\ IF call[c] = "shutdownNone"
       THEN mJobList' = <<>> /\ Become(Queued, "dropped")
       ELSE UNCHANGED <<mJobList, fate>>
    /\ mbQuit' = mbQuit \cup mThreadInfoList
    /\ mThreadInfoList' = {w \in mThreadInfoList : ~NotRunning(w)}
    /\ thread' = [w \in Workers |-> IF w \in Waiting THEN "woken" ELSE thread[w]]
    /\ Goto(c, "poll")
    /\ UNCHANGED <<mbInitialized, mnCurrentCount, mnActiveCount, mnPauseCount, mnLastJobID,
                   mCurrentJob, about, reported, destroyed>>

ShutdownReturns(c) ==
    /\ call[c] = "poll"
    /\ mThreadInfoList = {}
    /\ mnPauseCount' = 0
    /\ Goto(c, "none")
    /\ UNCHANGED <<mbInitialized, mnCurrentCount, mnActiveCount, mnLastJobID, mThreadInfoList,
                   mJobList, mbQuit, thread, mCurrentJob, about, fate, reported,
                   destroyed>>

\* The destructor after a Shutdown; before one it makes that call itself.
Destroy(c) ==
    /\ Idle(c)
    /\ ~mbInitialized
    /\ \A d \in Clients : call[d] = "none"
    /\ destroyed' = TRUE
    /\ UNCHANGED <<poolVars, thread, mCurrentJob, call, about, fate, reported>>

-----------------------------------------------------------------------------
WorkerStep(w) ==
    \/ StartThread(w) \/ Quit(w) \/ TakeJob(w) \/ WaitForJob(w) \/ FinishJob(w)

\* The steps a client takes once it is inside a call.
ClientStep(c) ==
    \/ QueueJob(c) \/ UnpauseSignal(c) \/ JobWaitEnds(c) \/ LoopEnds(c) \/ Recheck(c)
    \/ ShutdownWaitEnds(c) \/ ShutdownQuit(c) \/ ShutdownReturns(c)

Call(c) ==
    \/ Begin(c) \/ AddThread(c) \/ Pause(c) \/ Unpause(c)
    \/ WaitJob(c) \/ WaitCurrent(c) \/ WaitAll(c) \/ Shutdown(c) \/ Destroy(c)

Next ==
    \/ \E w \in Workers : WorkerStep(w) \/ WaitExpires(w)
    \/ \E c \in Clients : ClientStep(c) \/ Call(c)

Spec == Init /\ [][Next]_vars

\* Threads that can run do run, jobs end, and a client that paused the pool
\* resumes it.
FairSpec ==
    /\ Spec
    /\ \A w \in Workers : WF_vars(WorkerStep(w))
    /\ \A c \in Clients : WF_vars(ClientStep(c)) /\ SF_vars(Unpause(c))

-----------------------------------------------------------------------------
(* Properties.                                                             *)

\* The counters are what QueueJob takes them for: the threads of the list and
\* those that have a job (its assertion, eathread_pool.cpp:298, follows).
CountsAreExact ==
    /\ mnCurrentCount = Cardinality(mThreadInfoList)
    /\ mnActiveCount = Cardinality({w \in Workers : Active(w)})
    /\ mnActiveCount <= mnCurrentCount

\* Every live thread of the pool is in the list: RemoveThread finds it (its
\* assertion, eathread_pool.cpp:610) and Shutdown can wait for it.
LiveThreadsAreListed == \A w \in Workers : thread[w] # "ended" => w \in mThreadInfoList

\* QueueJob never creates a thread when there are mnMaxCount or more; only a
\* client's AddThread goes past that number.
WithinMaxCount ==
    [][Len(mJobList') > Len(mJobList) /\ mnCurrentCount >= MaxCount
          => mnCurrentCount' = mnCurrentCount]_vars

\* A job is in one place: in the list once, or with the one worker that has
\* it, or in neither, before its Begin and after it is done or dropped.
JobsInOnePlace ==
    \A j \in Jobs :
        /\ Cardinality({i \in 1 .. Len(mJobList) : mJobList[i] = j})
               = IF fate[j] = "queued" THEN 1 ELSE 0
        /\ Cardinality({w \in Workers : thread[w] = "working" /\ mCurrentJob[w] = j})
               = IF fate[j] = "running" THEN 1 ELSE 0

\* A wait that reports success reports the truth: the jobs it is about are
\* done, or were dropped by Shutdown(kJobWaitNone).
ReportedJobsAreOver == \A j \in reported : fate[j] \in {"done", "dropped"}

\* No wakeup is lost: while jobs wait and the pool is not paused (or about to
\* signal that it is not), some thread is on its way to take one.
SomeoneWillTakeJobs ==
    mJobList # <<>> /\ mnPauseCount = 0 /\ mbInitialized /\ MaxCount > 0 =>
        \/ \E w \in mThreadInfoList : thread[w] \notin {"waiting", "expired", "ended"}
        \/ \E c \in Clients : call[c] = "unpause"

\* Every job that was queued is run, or dropped by Shutdown.
QueuedJobsAreRun ==
    \A j \in Jobs : fate[j] = "queued" ~> fate[j] \in {"done", "dropped"}

\* Shutdown "waits for busy threads to complete, destroys all threads"
\* (eathread_pool.h:132): it returns.
ShutdownEnds == \A c \in Clients :
    call[c] \in {"shutdownNone", "shutdownCurrent", "shutdownAll", "shutdownQuit", "poll"} ~> call[c] = "none"

\* The destructor's assertion (eathread_pool.cpp:87), and with it that no
\* thread uses the pool after its destructor.
DestroyedPoolIsEmpty ==
    destroyed => /\ mJobList = <<>> /\ mThreadInfoList = {}
                 /\ mnCurrentCount = 0 /\ mnActiveCount = 0
                 /\ \A w \in Workers : thread[w] = "ended"

\* What the pool decides by is true, though threads quit when they are idle and
\* clients add some: its counters and its list, and no Begin takes it past its
\* maximum.
CountsAreKept == []TypeOK /\ []CountsAreExact /\ []JobsInOnePlace /\ WithinMaxCount

\* mThreadInfoList has every thread that may still run, so that Shutdown tells
\* each of them to quit, and a destroyed pool has no thread, count or job left,
\* as the destructor asserts.
ThreadsAreAccounted == LiveThreadsAreListed /\ DestroyedPoolIsEmpty
=============================================================================
