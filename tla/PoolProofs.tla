---------------------------- MODULE PoolProofs ----------------------------
(***************************************************************************)
(* Proofs about ThreadPool for every set of clients and workers, any       *)
(* number of jobs and all parameters of the pool.                          *)
(***************************************************************************)
EXTENDS ThreadPool, FiniteSetTheorems, TLAPS

\* Shutdown drops threads that have begun and do not run yet.  In these pools it
\* finds none.
Steady == PromptStart \/ ShutdownKinds = {}

ShutdownCalls == {"shutdownNone", "shutdownCurrent", "shutdownAll", "shutdownQuit", "poll"}

\* The list has every thread that has not ended, and mnCurrentCount counts it.
ListIsWhole ==
    /\ \A w \in Workers : thread[w] # "ended" => w \in mThreadInfoList
    /\ mnCurrentCount = Cardinality(mThreadInfoList)

\* The list is whole but for threads that Shutdown dropped, which only quit.
ThreadsInv ==
    /\ \A w \in mThreadInfoList : thread[w] # "ended"
    /\ \A w \in Workers \ mThreadInfoList :
          thread[w] = "ended" \/ (w \in mbQuit /\ thread[w] \in {"begun", "ready"})
    /\ PromptStart => \A w \in Workers : thread[w] # "begun"
    /\ mnCurrentCount \in Nat /\ mnCurrentCount >= Cardinality(mThreadInfoList)
    /\ mnActiveCount = Cardinality({w \in Workers : Active(w)})
    /\ Steady \/ mbInitialized => ListIsWhole

ShutdownInv ==
    /\ \A c \in Clients : call[c] \in ShutdownCalls => ~mbInitialized /\ ShutdownKinds # {}
    /\ mbInitialized => mbQuit = {}

Works(w, j) == thread[w] = "working" /\ mCurrentJob[w] = j

\* Each job is where its fate says, once.
JobsInv ==
    /\ \A j \in Jobs : fate[j] = "unborn" <=> j > mnLastJobID
    /\ \A j \in Jobs : fate[j] = "queued" <=> \E i \in 1 .. Len(mJobList) : mJobList[i] = j
    /\ \A i, k \in 1 .. Len(mJobList) : mJobList[i] = mJobList[k] => i = k
    /\ \A j \in Jobs : fate[j] = "running" <=> \E w \in Workers : Works(w, j)
    /\ \A w \in Workers : thread[w] = "working" => mCurrentJob[w] \in Jobs
    /\ \A w, v \in Workers : thread[w] = "working" /\ Works(v, mCurrentJob[w]) => w = v

\* A call of Begin has one job, which no other call has.
CallersInv ==
    /\ \A c \in Clients : call[c] = "begin" => \E j \in Jobs : about[c] = {j} /\ fate[j] = "begun"
    /\ \A c, d \in Clients : call[c] = "begin" /\ call[d] = "begin" /\ about[c] = about[d] => c = d

WaitsInv ==
    /\ \A c \in Clients : call[c] \in {"waitJob", "waitAll", "recheckAll"} =>
          \A j \in about[c] : fate[j] \in {"queued", "running", "done", "dropped"}
    /\ \A c \in Clients : call[c] \in {"waitCurrent", "recheckCurrent"} =>
          \A j \in about[c] : fate[j] \in {"running", "done"}
    /\ ReportedJobsAreOver

PoolInv == TypeOK /\ ThreadsInv /\ ShutdownInv /\ JobsInv /\ CallersInv /\ WaitsInv

\* Whoever queues a job leaves a thread that will look for it.
HandOverInv ==
    /\ mnPauseCount >= 0
    /\ \A w \in Workers : thread[w] # "expired"
    /\ mJobList # <<>> /\ mbInitialized /\ MaxCount > 0 => mThreadInfoList # {}
    /\ SomeoneWillTakeJobs

\* Shutdown leaves no job behind: not those that a wait for the running ones does
\* not wait for, nor those that a wait for all gave up.
LeavesNoJob == "current" \notin ShutdownKinds /\ (ShutdownTimeout => "all" \notin ShutdownKinds)

\* One client shuts the pool down and no other adds a job or a thread.
EndInv ==
    /\ ~mbInitialized =>
         /\ \A c \in Clients : call[c] \in {"none", "unpause"} \cup ShutdownCalls
         /\ \A c, d \in Clients : call[c] \in ShutdownCalls /\ call[d] \in ShutdownCalls => c = d
         /\ \A c \in Clients : call[c] # "shutdownCurrent" /\ (call[c] = "shutdownAll" => ~ShutdownTimeout)
         /\ (\A c \in Clients : call[c] \notin ShutdownCalls) => mThreadInfoList = {}
         /\ (\A c \in Clients : call[c] \notin {"shutdownNone", "shutdownAll"}) => mJobList = <<>>
    /\ destroyed => ~mbInitialized /\ \A c \in Clients : call[c] = "none"

USE PoolAssumption
-----------------------------------------------------------------------------
(* What moving one worker does to the counts.                              *)

ActiveWorkers == {w \in Workers : Active(w)}

LEMMA CountOne ==
    ASSUME NEW S, IsFiniteSet(S), NEW w
    PROVE  /\ IsFiniteSet(S \cup {w}) /\ IsFiniteSet(S \ {w})
           /\ Cardinality(S \cup {w}) = Cardinality(S) + IF w \in S THEN 0 ELSE 1
           /\ Cardinality(S \ {w}) = Cardinality(S) - IF w \in S THEN 1 ELSE 0
           /\ Cardinality(S) \in Nat /\ Cardinality(S \ {w}) \in Nat
<1> QED
  BY FS_AddElement, FS_RemoveElement, FS_CardinalityType

\* A worker goes to label, and mnActiveCount changes by whether it was active and is.
LEMMA ActiveMoves ==
    ASSUME TypeOK, mnActiveCount = Cardinality(ActiveWorkers),
           NEW w \in Workers, NEW label, thread' = [thread EXCEPT ![w] = label],
           mnActiveCount' = mnActiveCount - (IF Active(w) THEN 1 ELSE 0)
                                + (IF label \in {"working", "finished"} THEN 1 ELSE 0)
    PROVE  mnActiveCount' = Cardinality(ActiveWorkers')
<1>1. IsFiniteSet(ActiveWorkers)
  BY FS_Subset DEF ActiveWorkers, PoolAssumption
<1>2. ActiveWorkers' = IF label \in {"working", "finished"} THEN ActiveWorkers \cup {w}
                       ELSE ActiveWorkers \ {w}
  BY DEF ActiveWorkers, Active, TypeOK
<1>3. w \in ActiveWorkers <=> Active(w)
  BY DEF ActiveWorkers
<1>4. /\ Cardinality(ActiveWorkers \cup {w}) = mnActiveCount + IF Active(w) THEN 0 ELSE 1
      /\ Cardinality(ActiveWorkers \ {w}) = mnActiveCount - IF Active(w) THEN 1 ELSE 0
  BY <1>1, <1>3, CountOne
<1>5. mnActiveCount \in Nat
  BY DEF TypeOK
<1> HIDE DEF Active
<1> QED
  BY <1>2, <1>4, <1>5

\* Nobody becomes active or ceases to be.
LEMMA ActiveStay ==
    ASSUME mnActiveCount = Cardinality(ActiveWorkers), mnActiveCount' = mnActiveCount,
           \A w \in Workers : Active(w)' <=> Active(w)
    PROVE  mnActiveCount' = Cardinality(ActiveWorkers')
<1>1. ActiveWorkers' = ActiveWorkers
  BY DEF ActiveWorkers
<1> QED
  BY <1>1

-----------------------------------------------------------------------------
(* Each conjunct, over the steps of Next.                                  *)

LEMMA ThreadsFirst == ASSUME Init PROVE ThreadsInv
<1>1. ActiveWorkers = {}
  BY DEF Init, ActiveWorkers, Active, JustBegun
<1>2. mnActiveCount = Cardinality({w \in Workers : Active(w)})
  BY <1>1, FS_EmptySet DEF Init, ActiveWorkers
<1>3. Cardinality(mThreadInfoList) \in Nat
  BY FS_Subset, FS_CardinalityType DEF Init, PoolAssumption
<1> QED
  BY <1>2, <1>3 DEF Init, ThreadsInv, ListIsWhole, JustBegun

LEMMA WorkersKeepThreads ==
    ASSUME TypeOK, ThreadsInv, NEW w \in Workers, WorkerStep(w) \/ WaitExpires(w)
    PROVE  ThreadsInv'
<1> USE DEF TypeOK, ThreadsInv, ListIsWhole
<1>0. mnActiveCount = Cardinality(ActiveWorkers) /\ IsFiniteSet(mThreadInfoList)
  BY FS_Subset DEF ActiveWorkers, PoolAssumption
<1>1. CASE StartThread(w)
  <2>1. mnActiveCount' = Cardinality(ActiveWorkers')
    BY <1>0, <1>1, ActiveStay DEF StartThread, Active, poolVars
  <2> QED
    BY <1>1, <2>1 DEF StartThread, poolVars, ActiveWorkers
<1>2. CASE Quit(w)
  <2>1. mnActiveCount' = Cardinality(ActiveWorkers')
    <3>1. /\ thread' = [thread EXCEPT ![w] = "ended"]
          /\ mnActiveCount' = mnActiveCount - (IF Active(w) THEN 1 ELSE 0)
                               + (IF "ended" \in {"working", "finished"} THEN 1 ELSE 0)
      BY <1>2 DEF Quit, AtLoop, Active
    <3> QED
      BY <1>0, <3>1, ActiveMoves
  <2>2. /\ mnCurrentCount' >= Cardinality(mThreadInfoList')
        /\ mnCurrentCount = Cardinality(mThreadInfoList) => mnCurrentCount' = Cardinality(mThreadInfoList')
        /\ mnCurrentCount' \in Nat
    <3>1. /\ Cardinality(mThreadInfoList \ {w}) = Cardinality(mThreadInfoList) - IF w \in mThreadInfoList THEN 1 ELSE 0
          /\ Cardinality(mThreadInfoList) \in Nat /\ Cardinality(mThreadInfoList \ {w}) \in Nat
      BY <1>0, CountOne
    <3>2. /\ mThreadInfoList' = mThreadInfoList \ {w}
          /\ mnCurrentCount' = mnCurrentCount - IF w \in mThreadInfoList THEN 1 ELSE 0
      BY <1>2 DEF Quit
    <3> QED
      BY <3>1, <3>2
  <2> QED
    BY <1>2, <2>1, <2>2 DEF Quit, AtLoop, ActiveWorkers
<1>3. CASE TakeJob(w)
  <2>1. mnActiveCount' = Cardinality(ActiveWorkers')
    <3>1. /\ thread' = [thread EXCEPT ![w] = "working"]
          /\ mnActiveCount' = mnActiveCount - (IF Active(w) THEN 1 ELSE 0)
                               + (IF "working" \in {"working", "finished"} THEN 1 ELSE 0)
      BY <1>3 DEF TakeJob, Active
    <3> QED
      BY <1>0, <3>1, ActiveMoves
  <2> QED
    BY <1>3, <2>1 DEF TakeJob, Quits, ActiveWorkers
<1>4. CASE WaitForJob(w)
  <2>1. mnActiveCount' = Cardinality(ActiveWorkers')
    <3>1. /\ thread' = [thread EXCEPT ![w] = "waiting"]
          /\ mnActiveCount' = mnActiveCount - (IF Active(w) THEN 1 ELSE 0)
                               + (IF "waiting" \in {"working", "finished"} THEN 1 ELSE 0)
      BY <1>4 DEF WaitForJob, AtLoop, Active
    <3> QED
      BY <1>0, <3>1, ActiveMoves
  <2> QED
    BY <1>4, <2>1 DEF WaitForJob, AtLoop, Quits, ActiveWorkers
<1>5. CASE FinishJob(w)
  <2>1. mnActiveCount' = Cardinality(ActiveWorkers')
    BY <1>0, <1>5, ActiveStay DEF FinishJob, Active, poolVars
  <2> QED
    BY <1>5, <2>1 DEF FinishJob, poolVars, ActiveWorkers
<1>6. CASE WaitExpires(w)
  <2>1. mnActiveCount' = Cardinality(ActiveWorkers')
    BY <1>0, <1>6, ActiveStay DEF WaitExpires, Active, poolVars
  <2> QED
    BY <1>6, <2>1 DEF WaitExpires, poolVars, ActiveWorkers
<1> QED
  BY <1>1, <1>2, <1>3, <1>4, <1>5, <1>6 DEF WorkerStep

LEMMA ClientsKeepThreads ==
    ASSUME TypeOK, ThreadsInv, ShutdownInv, NEW c \in Clients, ClientStep(c) \/ Call(c)
    PROVE  ThreadsInv'
<1> USE DEF TypeOK, ThreadsInv, ListIsWhole
<1>0. mnActiveCount = Cardinality(ActiveWorkers) /\ IsFiniteSet(mThreadInfoList)
  BY FS_Subset DEF ActiveWorkers, PoolAssumption
<1>1. CASE QueueJob(c)
  <2>1. PICK added \in IF NeedsThread THEN {{w} : w \in Free} ELSE {{}},
             woken \in IF mnPauseCount = 0 THEN Wakeable ELSE {{}} :
            /\ mThreadInfoList' = mThreadInfoList \cup added
            /\ mnCurrentCount' = mnCurrentCount + Cardinality(added)
            /\ thread' = Threads(added, woken)
    BY <1>1 DEF QueueJob
  <2>2. woken \subseteq Waiting
    BY <2>1 DEF Wakeable
  <2>3. added = {} \/ \E w \in Free : added = {w}
    BY <2>1
  <2>4. \A w \in Workers : thread'[w] = IF w \in added THEN JustBegun
                                      ELSE IF w \in woken THEN "woken" ELSE thread[w]
    BY <2>1 DEF Threads
  <2>5. mnActiveCount' = Cardinality(ActiveWorkers')
    BY <1>0, <1>1, <2>2, <2>3, <2>4, ActiveStay DEF QueueJob, Active, Free, Waiting, JustBegun
  <2>6. mnCurrentCount' - Cardinality(mThreadInfoList') = mnCurrentCount - Cardinality(mThreadInfoList)
        /\ Cardinality(mThreadInfoList') \in Nat /\ mnCurrentCount' \in Nat
    <3>1. CASE added = {}
      BY <1>0, <2>1, <3>1, FS_EmptySet, FS_CardinalityType
    <3>2. CASE \E w \in Free : added = {w}
      <4>1. PICK w \in Free : added = {w}
        BY <3>2
      <4>2. Cardinality(added) = 1 /\ w \notin mThreadInfoList
        BY <4>1, FS_Singleton DEF Free
      <4>3. /\ Cardinality(mThreadInfoList \cup {w}) = Cardinality(mThreadInfoList) + 1
            /\ Cardinality(mThreadInfoList) \in Nat
        BY <1>0, <4>2, CountOne
      <4>4. mThreadInfoList' = mThreadInfoList \cup {w} /\ mnCurrentCount' = mnCurrentCount + 1
        BY <2>1, <4>1, <4>2
      <4> QED
        BY <4>3, <4>4
    <3> QED
      BY <2>3, <3>1, <3>2
  <2> QED
    <3>1. UNCHANGED <<mbQuit, mbInitialized>>
      BY <1>1 DEF QueueJob
    <3>2. /\ \A w \in mThreadInfoList' : thread'[w] # "ended"
          /\ \A w \in Workers \ mThreadInfoList' :
                thread'[w] = "ended" \/ (w \in mbQuit' /\ thread'[w] \in {"begun", "ready"})
          /\ PromptStart => \A w \in Workers : thread'[w] # "begun"
      BY <2>1, <2>2, <2>3, <2>4, <3>1 DEF Free, Waiting, JustBegun
    <3>3. ListIsWhole => \A w \in Workers : thread'[w] # "ended" => w \in mThreadInfoList'
      BY <2>1, <2>2, <2>3, <2>4 DEF Free, Waiting
    <3>4. mnCurrentCount = Cardinality(mThreadInfoList) => mnCurrentCount' = Cardinality(mThreadInfoList')
      BY <1>0, <2>6, FS_CardinalityType
    <3>5. mnCurrentCount' >= Cardinality(mThreadInfoList')
      BY <1>0, <2>6, FS_CardinalityType
    <3> QED
      BY <2>5, <2>6, <3>1, <3>2, <3>3, <3>4, <3>5 DEF ActiveWorkers
<1>2. CASE AddThread(c)
  <2>1. PICK w \in Free :
          /\ mThreadInfoList' = mThreadInfoList \cup {w}
          /\ mnCurrentCount' = mnCurrentCount + 1
          /\ thread' = [thread EXCEPT ![w] = JustBegun]
    BY <1>2 DEF AddThread
  <2>2. mnActiveCount' = Cardinality(ActiveWorkers')
    BY <1>0, <1>2, <2>1, ActiveStay DEF AddThread, Active, Free, JustBegun
  <2>3. mnCurrentCount' - Cardinality(mThreadInfoList') = mnCurrentCount - Cardinality(mThreadInfoList)
        /\ Cardinality(mThreadInfoList') \in Nat /\ mnCurrentCount' \in Nat
    <3>1. w \notin mThreadInfoList
      BY <2>1 DEF Free
    <3>2. /\ Cardinality(mThreadInfoList \cup {w}) = Cardinality(mThreadInfoList) + 1
          /\ Cardinality(mThreadInfoList) \in Nat
      BY <1>0, <3>1, CountOne
    <3> QED
      BY <2>1, <3>2
  <2> QED
    BY <1>2, <2>1, <2>2, <2>3 DEF AddThread, Free, JustBegun, ActiveWorkers
<1>3. CASE UnpauseSignal(c)
  <2>1. mnActiveCount' = Cardinality(ActiveWorkers')
    BY <1>0, <1>3, ActiveStay DEF UnpauseSignal, Active, poolVars, Waiting
  <2> QED
    BY <1>3, <2>1 DEF UnpauseSignal, poolVars, ActiveWorkers, Waiting
<1>4. CASE ShutdownQuit(c)
  <2>1. ~mbInitialized /\ mbInitialized' = mbInitialized /\ ShutdownKinds # {}
    BY <1>4 DEF ShutdownQuit, ShutdownCalls, ShutdownInv
  <2>2. Steady => mThreadInfoList' = mThreadInfoList
    BY <1>4, <2>1 DEF ShutdownQuit, NotRunning, Steady
  <2>3. mnActiveCount' = Cardinality(ActiveWorkers')
    BY <1>0, <1>4, ActiveStay DEF ShutdownQuit, Active, Waiting
  <2>4. mnCurrentCount' \in Nat /\ mnCurrentCount' >= Cardinality(mThreadInfoList')
    <3>1. mThreadInfoList' \subseteq mThreadInfoList /\ mnCurrentCount' = mnCurrentCount
      BY <1>4 DEF ShutdownQuit
    <3>2. /\ Cardinality(mThreadInfoList') <= Cardinality(mThreadInfoList)
          /\ Cardinality(mThreadInfoList) \in Nat /\ Cardinality(mThreadInfoList') \in Nat
      BY <1>0, <3>1, FS_Subset, FS_CardinalityType
    <3> QED
      BY <3>1, <3>2
  <2>5. \A w \in mThreadInfoList' : thread'[w] # "ended"
    BY <1>4 DEF ShutdownQuit, Waiting
  <2>6. \A w \in Workers \ mThreadInfoList' :
           thread'[w] = "ended" \/ (w \in mbQuit' /\ thread'[w] \in {"begun", "ready"})
    BY <1>4 DEF ShutdownQuit, Waiting, NotRunning
  <2>7. PromptStart => \A w \in Workers : thread'[w] # "begun"
    BY <1>4 DEF ShutdownQuit, Waiting
  <2>8. Steady => ListIsWhole'
    BY <1>4, <2>2 DEF ShutdownQuit, Waiting
  <2> QED
    BY <2>1, <2>3, <2>4, <2>5, <2>6, <2>7, <2>8 DEF ActiveWorkers
<1>5. CASE UNCHANGED <<mThreadInfoList, thread, mnCurrentCount, mnActiveCount, mbQuit>> /\ (mbInitialized' => mbInitialized)
  <2>1. mnActiveCount' = Cardinality(ActiveWorkers')
    BY <1>0, <1>5, ActiveStay DEF Active
  <2> QED
    BY <1>5, <2>1 DEF ActiveWorkers
<1> QED
  BY <1>1, <1>2, <1>3, <1>4, <1>5
     DEF ClientStep, Call, JobWaitEnds, LoopEnds, Recheck, ShutdownWaitEnds, ShutdownReturns, Begin, Pause, Unpause,
         WaitJob, WaitCurrent, WaitAll, Shutdown, Destroy, Ask, Answer, UnchangedPool, poolVars

LEMMA ShutdownOn ==
    ASSUME TypeOK, ShutdownInv, Next
    PROVE  ShutdownInv'
<1> USE DEF TypeOK, ShutdownInv, ShutdownCalls
<1>1. CASE \E w \in Workers : WorkerStep(w) \/ WaitExpires(w)
  BY <1>1 DEF WorkerStep, StartThread, Quit, TakeJob, WaitForJob, FinishJob, WaitExpires, poolVars
<1>2. CASE \E c \in Clients : ClientStep(c)
  BY <1>2 DEF ClientStep, QueueJob, UnpauseSignal, JobWaitEnds, LoopEnds, Recheck, ShutdownWaitEnds, Answer, Goto,
              UnchangedPool, ShutdownQuit, ShutdownReturns, poolVars
<1>3. ASSUME NEW c \in Clients, Call(c)
      PROVE  ShutdownInv'
  <2>1. CASE Shutdown(c)
    <3>1. mbInitialized' = FALSE /\ ShutdownKinds # {}
      BY <2>1 DEF Shutdown
    <3> QED
      BY <3>1
  <2> QED
    BY <1>3, <2>1 DEF Call, Begin, AddThread, Pause, Unpause, WaitJob, WaitCurrent, WaitAll, Ask, Destroy,
                      Goto, UnchangedPool, poolVars
<1> QED
  BY <1>1, <1>2, <1>3 DEF Next

LEMMA FatesStay ==
    ASSUME TypeOK, NEW S, NEW f \in Fates, Become(S, f)
    PROVE  fate' \in [Jobs -> Fates]
<1> QED
  BY DEF TypeOK, Become

LEMMA TypeOn ==
    ASSUME TypeOK, ThreadsInv', Next
    PROVE  TypeOK'
<1>0. mnCurrentCount' \in Nat /\ mnActiveCount' \in Nat
  <2>1. IsFiniteSet(ActiveWorkers') /\ IsFiniteSet(mThreadInfoList')
    <3>1. mThreadInfoList' \subseteq Workers
      <4> USE DEF TypeOK
      <4>1. CASE \E w \in Workers : WorkerStep(w) \/ WaitExpires(w)
        BY <4>1 DEF WorkerStep, StartThread, Quit, TakeJob, WaitForJob, FinishJob, WaitExpires, poolVars
      <4>2. CASE \E c \in Clients : ClientStep(c)
        BY <4>2 DEF ClientStep, QueueJob, Free, UnpauseSignal, JobWaitEnds, LoopEnds, Recheck, ShutdownWaitEnds, Answer,
                    UnchangedPool, ShutdownQuit, ShutdownReturns, poolVars
      <4>3. CASE \E c \in Clients : Call(c)
        BY <4>3 DEF Call, AddThread, Free, Begin, Pause, Unpause, WaitJob, WaitCurrent, WaitAll, Ask,
                    Shutdown, Destroy, UnchangedPool, poolVars
      <4> QED
        BY <4>1, <4>2, <4>3 DEF Next
    <3> QED
      BY <3>1, FS_Subset DEF ActiveWorkers, PoolAssumption
  <2> QED
    BY <2>1, FS_CardinalityType DEF ThreadsInv, ActiveWorkers
<1> USE <1>0 DEF TypeOK, Jobs
<1>1. ASSUME NEW w \in Workers, WorkerStep(w) \/ WaitExpires(w)
      PROVE  TypeOK'
  <2> USE DEF ThreadStates, Fates, Become, poolVars
  <2>1. CASE StartThread(w)
    BY <2>1 DEF StartThread
  <2>2. CASE Quit(w)
    BY <2>2 DEF Quit
  <2>3. CASE TakeJob(w)
    BY <2>3 DEF TakeJob
  <2>4. CASE WaitForJob(w)
    BY <2>4 DEF WaitForJob
  <2>5. CASE FinishJob(w)
    BY <2>5 DEF FinishJob
  <2>6. CASE WaitExpires(w)
    BY <2>6 DEF WaitExpires
  <2> QED
    BY <1>1, <2>1, <2>2, <2>3, <2>4, <2>5, <2>6 DEF WorkerStep
<1>2. ASSUME NEW c \in Clients, ClientStep(c)
      PROVE  TypeOK'
  <2> USE DEF ThreadStates, Calls, Fates, Become, Goto, poolVars
  <2>1. CASE QueueJob(c)
    BY <2>1 DEF QueueJob, Threads, JustBegun, Free
  <2>2. CASE UnpauseSignal(c)
    BY <2>2 DEF UnpauseSignal
  <2>3. CASE JobWaitEnds(c)
    BY <2>3 DEF JobWaitEnds, Answer, UnchangedPool
  <2>4. CASE LoopEnds(c) \/ ShutdownWaitEnds(c)
    BY <2>4 DEF LoopEnds, ShutdownWaitEnds, UnchangedPool
  <2>5. CASE Recheck(c)
    BY <2>5 DEF Recheck, Answer, UnchangedPool
  <2>6. CASE ShutdownQuit(c)
    <3>0. fate' \in [Jobs -> Fates]
      <4>1. CASE Become(Queued, "dropped")
        BY <4>1, FatesStay
      <4> QED
        BY <2>6, <4>1 DEF ShutdownQuit
    <3>1. mJobList' \in Seq(Jobs)
      <4>1. mJobList' = <<>> \/ mJobList' = mJobList
        BY <2>6 DEF ShutdownQuit
      <4>2. <<>> \in Seq(Jobs)
        OBVIOUS
      <4> QED
        BY <4>1, <4>2
    <3>2. mbQuit' \subseteq Workers /\ mThreadInfoList' \subseteq Workers /\ thread' \in [Workers -> ThreadStates]
      BY <2>6 DEF ShutdownQuit
    <3>3. call' \in [Clients -> Calls]
      BY <2>6 DEF ShutdownQuit
    <3> QED
      BY <2>6, <3>0, <3>1, <3>2, <3>3 DEF ShutdownQuit
  <2>7. CASE ShutdownReturns(c)
    BY <2>7 DEF ShutdownReturns
  <2> QED
    BY <1>2, <2>1, <2>2, <2>3, <2>4, <2>5, <2>6, <2>7 DEF ClientStep
<1>3. ASSUME NEW c \in Clients, Call(c)
      PROVE  TypeOK'
  <2> USE DEF ThreadStates, Calls, Fates, Become, Goto, Ask, With, UnchangedPool, poolVars
  <2>1. CASE Begin(c)
    <3>1. mnLastJobID' \in 0 .. MaxJobs /\ mnLastJobID + 1 \in Jobs
      BY <2>1 DEF Begin, PoolAssumption
    <3>2. call' \in [Clients -> Calls] /\ about' \in [Clients -> SUBSET Jobs]
      <4>1. CASE mbInitialized
        <5>1. call' = [call EXCEPT ![c] = "begin"] /\ about' = [about EXCEPT ![c] = {mnLastJobID + 1}]
          BY <2>1, <4>1 DEF Begin
        <5> QED
          BY <3>1, <5>1
      <4>2. CASE ~mbInitialized
        BY <2>1, <4>2 DEF Begin
      <4> QED
        BY <4>1, <4>2
    <3>3. fate' \in [Jobs -> Fates]
      <4>1. Become({mnLastJobID + 1}, "begun") \/ Become({mnLastJobID + 1}, "refused")
        BY <2>1 DEF Begin
      <4> QED
        BY <4>1, FatesStay
    <3> QED
      BY <2>1, <3>1, <3>2, <3>3 DEF Begin
  <2>2. CASE AddThread(c)
    BY <2>2 DEF AddThread, JustBegun, Free
  <2>3. CASE Pause(c) \/ Unpause(c)
    <3>1. mnPauseCount' \in Int
      BY <2>3 DEF Pause, Unpause
    <3>2. call' \in [Clients -> Calls]
      BY <2>3 DEF Pause, Unpause
    <3> QED
      BY <2>3, <3>1, <3>2 DEF Pause, Unpause
  <2>4. CASE WaitJob(c)
    BY <2>4 DEF WaitJob
  <2>5. CASE WaitCurrent(c) \/ WaitAll(c)
    BY <2>5 DEF WaitCurrent, WaitAll
  <2>6. CASE Shutdown(c)
    <3>1. \A kind \in ShutdownKinds : ShutdownCall[kind] \in Calls
      BY DEF ShutdownCall, PoolAssumption
    <3>2. call' \in [Clients -> Calls]
      BY <2>6, <3>1 DEF Shutdown
    <3> QED
      BY <2>6, <3>2 DEF Shutdown
  <2>7. CASE Destroy(c)
    BY <2>7 DEF Destroy
  <2> QED
    BY <1>3, <2>1, <2>2, <2>3, <2>4, <2>5, <2>6, <2>7 DEF Call
<1> QED
  BY <1>1, <1>2, <1>3 DEF Next

LEMMA TailIsRest ==
    ASSUME NEW s \in Seq(Jobs), s # <<>>
    PROVE  /\ Len(s) \in Nat /\ Len(s) > 0 /\ Len(Tail(s)) = Len(s) - 1
           /\ Head(s) = s[1] /\ Head(s) \in Jobs
           /\ \A i \in 1 .. Len(Tail(s)) : Tail(s)[i] = s[i + 1]
OBVIOUS

LEMMA AppendAddsLast ==
    ASSUME NEW s \in Seq(Jobs), NEW j \in Jobs
    PROVE  /\ Len(s) \in Nat /\ Len(Append(s, j)) = Len(s) + 1
           /\ Append(s, j)[Len(s) + 1] = j
           /\ \A i \in 1 .. Len(s) : Append(s, j)[i] = s[i]
OBVIOUS

\* No job moves, begins or ends.
LEMMA JobsStay ==
    ASSUME JobsInv, fate' = fate, mJobList' = mJobList, mnLastJobID' = mnLastJobID,
           \A w \in Workers : thread'[w] = "working" <=> thread[w] = "working",
           \A w \in Workers : thread[w] = "working" => mCurrentJob'[w] = mCurrentJob[w]
    PROVE  JobsInv'
<1>1. \A w \in Workers, j \in Jobs : Works(w, j)' <=> Works(w, j)
  BY DEF Works
<1> QED
  BY <1>1 DEF JobsInv, Works

LEMMA TakeJobKeepsJobs ==
    ASSUME TypeOK, JobsInv, NEW w \in Workers, TakeJob(w)
    PROVE  JobsInv'
<1> DEFINE h == Head(mJobList)
<1>0. /\ thread[w] # "working" /\ mJobList # <<>> /\ mJobList' = Tail(mJobList) /\ mnLastJobID' = mnLastJobID
      /\ mCurrentJob' = [mCurrentJob EXCEPT ![w] = h] /\ thread' = [thread EXCEPT ![w] = "working"]
      /\ fate' = [j \in Jobs |-> IF j = h THEN "running" ELSE fate[j]]
  BY DEF TakeJob, Become
<1>1. /\ mJobList \in Seq(Jobs) /\ Len(mJobList) \in Nat /\ Len(mJobList) > 0
      /\ Len(mJobList') = Len(mJobList) - 1 /\ h = mJobList[1] /\ h \in Jobs
      /\ \A i \in 1 .. Len(mJobList') : mJobList'[i] = mJobList[i + 1]
  BY <1>0, TailIsRest DEF TypeOK
<1> HIDE DEF h
<1>2. fate[h] = "queued" /\ h <= mnLastJobID
  BY <1>1 DEF JobsInv, Jobs, TypeOK
<1>3. /\ thread'[w] = "working" /\ mCurrentJob'[w] = h
      /\ \A v \in Workers : v # w => thread'[v] = thread[v] /\ mCurrentJob'[v] = mCurrentJob[v]
  BY <1>0 DEF TypeOK
<1>4. \A j \in Jobs : fate'[j] = "unborn" <=> j > mnLastJobID'
  BY <1>0, <1>1, <1>2 DEF JobsInv, Jobs, TypeOK
<1>5. \A j \in Jobs : fate'[j] = "queued" <=> \E i \in 1 .. Len(mJobList') : mJobList'[i] = j
  <2>1. ASSUME NEW j \in Jobs, fate'[j] = "queued"
        PROVE  \E i \in 1 .. Len(mJobList') : mJobList'[i] = j
    <3>1. j # h /\ fate[j] = "queued"
      BY <1>0, <2>1
    <3>2. PICK i \in 1 .. Len(mJobList) : mJobList[i] = j
      BY <3>1 DEF JobsInv
    <3>3. i # 1 /\ i - 1 \in 1 .. Len(mJobList') /\ (i - 1) + 1 = i
      BY <1>1, <3>1, <3>2
    <3> QED
      BY <1>1, <3>2, <3>3
  <2>2. ASSUME NEW j \in Jobs, NEW i \in 1 .. Len(mJobList'), mJobList'[i] = j
        PROVE  fate'[j] = "queued"
    <3>1. i + 1 \in 1 .. Len(mJobList) /\ i + 1 # 1 /\ mJobList[i + 1] = j /\ 1 \in 1 .. Len(mJobList)
      BY <1>1, <2>2
    <3>2. j # h /\ fate[j] = "queued"
      BY <1>1, <3>1 DEF JobsInv
    <3> QED
      BY <1>0, <3>2
  <2> QED
    BY <2>1, <2>2
<1>6. \A i, k \in 1 .. Len(mJobList') : mJobList'[i] = mJobList'[k] => i = k
  <2> TAKE i, k \in 1 .. Len(mJobList')
  <2>1. /\ i + 1 \in 1 .. Len(mJobList) /\ k + 1 \in 1 .. Len(mJobList)
        /\ mJobList'[i] = mJobList[i + 1] /\ mJobList'[k] = mJobList[k + 1]
    BY <1>1
  <2>2. mJobList[i + 1] = mJobList[k + 1] => i + 1 = k + 1
    BY <2>1 DEF JobsInv
  <2> QED
    BY <2>1, <2>2
<1>7. \A v \in Workers : ~Works(v, h)
  BY <1>1, <1>2 DEF JobsInv
<1>8. \A v \in Workers, j \in Jobs : Works(v, j)' <=> (Works(v, j) \/ (v = w /\ j = h))
  <2> TAKE v \in Workers, j \in Jobs
  <2>1. thread[w] # "working"
    BY <1>0
  <2>2. CASE v = w
    BY <1>3, <2>1, <2>2 DEF Works
  <2>3. CASE v # w
    BY <1>3, <2>3 DEF Works
  <2> QED
    BY <2>2, <2>3
<1>9. \A j \in Jobs : fate'[j] = "running" <=> \E v \in Workers : Works(v, j)'
  <2> TAKE j \in Jobs
  <2>1. fate'[j] = IF j = h THEN "running" ELSE fate[j]
    BY <1>0
  <2>2. CASE j = h
    BY <1>8, <2>1, <2>2
  <2>3. CASE j # h
    <3>1. \A v \in Workers : Works(v, j)' <=> Works(v, j)
      BY <1>8, <2>3
    <3>2. fate[j] = "running" <=> \E v \in Workers : Works(v, j)
      BY DEF JobsInv
    <3> QED
      BY <2>1, <2>3, <3>1, <3>2
  <2> QED
    BY <2>2, <2>3
<1>10. /\ \A v \in Workers : thread'[v] = "working" => mCurrentJob'[v] \in Jobs
       /\ \A u, v \in Workers : thread'[u] = "working" /\ Works(v, mCurrentJob[u])' => u = v
  BY <1>0, <1>1, <1>3, <1>7, <1>8 DEF JobsInv, Works
<1> QED
  BY <1>4, <1>5, <1>6, <1>9, <1>10 DEF JobsInv, Works

LEMMA FinishJobKeepsJobs ==
    ASSUME TypeOK, JobsInv, NEW w \in Workers, FinishJob(w)
    PROVE  JobsInv'
<1> DEFINE g == mCurrentJob[w]
<1>1. /\ thread[w] = "working" /\ thread'[w] = "finished"
      /\ \A v \in Workers : v # w => thread'[v] = thread[v]
      /\ mCurrentJob' = mCurrentJob /\ mJobList' = mJobList /\ mnLastJobID' = mnLastJobID
      /\ fate' = [j \in Jobs |-> IF j = g THEN "done" ELSE fate[j]]
  BY DEF FinishJob, Become, poolVars, TypeOK
<1>2. g \in Jobs /\ fate[g] = "running" /\ g <= mnLastJobID
  BY <1>1 DEF JobsInv, Works, Jobs, TypeOK
<1>3. \A v \in Workers, j \in Jobs : Works(v, j)' <=> (Works(v, j) /\ j # g)
  <2>1. \A v \in Workers : thread[v] = "working" /\ mCurrentJob[v] = g => v = w
    BY <1>1 DEF JobsInv, Works
  <2> QED
    BY <1>1, <2>1 DEF Works
<1>4. \A j \in Jobs : fate'[j] = IF j = g THEN "done" ELSE fate[j]
  BY <1>1
<1> HIDE DEF g
<1>5. \A j \in Jobs : fate'[j] = "unborn" <=> j > mnLastJobID'
  BY <1>1, <1>2, <1>4 DEF JobsInv
<1>6. \A j \in Jobs : fate'[j] = "queued" <=> \E i \in 1 .. Len(mJobList') : mJobList'[i] = j
  BY <1>1, <1>2, <1>4 DEF JobsInv
<1>7. \A j \in Jobs : fate'[j] = "running" <=> \E v \in Workers : Works(v, j)'
  BY <1>3, <1>4 DEF JobsInv
<1>8. /\ \A v \in Workers : thread'[v] = "working" => mCurrentJob'[v] \in Jobs
      /\ \A u, v \in Workers : thread'[u] = "working" /\ Works(v, mCurrentJob[u])' => u = v
  BY <1>1, <1>3 DEF JobsInv
<1> QED
  BY <1>1, <1>5, <1>6, <1>7, <1>8 DEF JobsInv

LEMMA BeginKeepsJobs ==
    ASSUME TypeOK, JobsInv, NEW c \in Clients, Begin(c)
    PROVE  JobsInv'
<1> DEFINE n == mnLastJobID + 1
<1>1. /\ n \in Jobs /\ mnLastJobID' = n /\ mJobList' = mJobList /\ thread' = thread /\ mCurrentJob' = mCurrentJob
      /\ \E f \in {"begun", "refused"} : Become({n}, f)
  BY DEF Begin, TypeOK, Jobs, PoolAssumption
<1>2. fate[n] = "unborn"
  BY <1>1 DEF JobsInv, TypeOK
<1>3. /\ fate'[n] \in {"begun", "refused"}
      /\ \A j \in Jobs : j # n => fate'[j] = fate[j]
  BY <1>1 DEF Become
<1>4. \A j \in Jobs : fate'[j] = "unborn" <=> j > mnLastJobID'
  BY <1>1, <1>3 DEF JobsInv, Jobs, TypeOK
<1> HIDE DEF n
<1>5. \A j \in Jobs : /\ fate'[j] = "queued" <=> fate[j] = "queued"
                      /\ fate'[j] = "running" <=> fate[j] = "running"
  BY <1>1, <1>2, <1>3
<1>6. \A w \in Workers, j \in Jobs : Works(w, j)' <=> Works(w, j)
  BY <1>1 DEF Works
<1> QED
  BY <1>1, <1>4, <1>5, <1>6 DEF JobsInv

LEMMA QueueJobKeepsJobs ==
    ASSUME TypeOK, JobsInv, CallersInv, NEW c \in Clients, QueueJob(c)
    PROVE  JobsInv'
<1>1. PICK n \in Jobs : about[c] = {n} /\ fate[n] = "begun"
  BY DEF CallersInv, QueueJob
<1>2. /\ mJobList' = Append(mJobList, n) /\ Become({n}, "queued")
      /\ mnLastJobID' = mnLastJobID /\ mCurrentJob' = mCurrentJob
  BY <1>1 DEF QueueJob
<1>3. \A w \in Workers : thread'[w] = "working" <=> thread[w] = "working"
  BY DEF QueueJob, Threads, Free, Wakeable, Waiting, JustBegun
<1>4. \A j \in Jobs : fate'[j] = IF j = n THEN "queued" ELSE fate[j]
  BY <1>2 DEF Become
<1>5. /\ mJobList \in Seq(Jobs) /\ Len(mJobList) \in Nat /\ Len(mJobList') = Len(mJobList) + 1
      /\ mJobList'[Len(mJobList) + 1] = n
      /\ \A i \in 1 .. Len(mJobList) : mJobList'[i] = mJobList[i]
  BY <1>2, AppendAddsLast DEF TypeOK
<1>6. \A i \in 1 .. Len(mJobList) : mJobList[i] # n
  BY <1>1 DEF JobsInv
<1>7. \A i \in 1 .. Len(mJobList') : i \in 1 .. Len(mJobList) \/ i = Len(mJobList) + 1
  BY <1>5
<1>8. \A i \in 1 .. Len(mJobList) : i \in 1 .. Len(mJobList')
  BY <1>5
<1>9. Len(mJobList) + 1 \in 1 .. Len(mJobList')
  BY <1>5
<1>10. \A j \in Jobs : fate'[j] = "queued" <=> \E i \in 1 .. Len(mJobList') : mJobList'[i] = j
  <2> TAKE j \in Jobs
  <2>1. fate[j] = "queued" <=> \E i \in 1 .. Len(mJobList) : mJobList[i] = j
    BY DEF JobsInv
  <2>2. CASE j = n
    BY <1>4, <1>5, <1>9, <2>2
  <2>3. CASE j # n
    BY <1>4, <1>5, <1>7, <1>8, <2>1, <2>3
  <2> QED
    BY <2>2, <2>3
<1>11. \A i, k \in 1 .. Len(mJobList') : mJobList'[i] = mJobList'[k] => i = k
  BY <1>5, <1>6, <1>7 DEF JobsInv
<1>12. \A w \in Workers, j \in Jobs : Works(w, j)' <=> Works(w, j)
  BY <1>2, <1>3 DEF Works
<1>13. \A j \in Jobs : fate'[j] = "running" <=> \E w \in Workers : Works(w, j)'
  BY <1>1, <1>4, <1>12 DEF JobsInv
<1>14. \A j \in Jobs : fate'[j] = "unborn" <=> j > mnLastJobID'
  BY <1>1, <1>2, <1>4 DEF JobsInv
<1>15. /\ \A w \in Workers : thread'[w] = "working" => mCurrentJob'[w] \in Jobs
       /\ \A w, v \in Workers : thread'[w] = "working" /\ Works(v, mCurrentJob[w])' => w = v
  BY <1>2, <1>3, <1>12 DEF JobsInv
<1> QED
  BY <1>2, <1>10, <1>11, <1>13, <1>14, <1>15 DEF JobsInv

LEMMA ShutdownQuitKeepsJobs ==
    ASSUME TypeOK, JobsInv, NEW c \in Clients, ShutdownQuit(c)
    PROVE  JobsInv'
<1>1. /\ \A w \in Workers : thread'[w] = "working" <=> thread[w] = "working"
      /\ mCurrentJob' = mCurrentJob /\ mnLastJobID' = mnLastJobID
  BY DEF ShutdownQuit, Waiting
<1>2. CASE call[c] # "shutdownNone"
  BY <1>1, <1>2, JobsStay DEF ShutdownQuit
<1>3. CASE call[c] = "shutdownNone"
  <2>1. mJobList' = <<>> /\ Become(Queued, "dropped")
    BY <1>3 DEF ShutdownQuit
  <2>2. \A j \in Jobs : fate'[j] = IF fate[j] = "queued" THEN "dropped" ELSE fate[j]
    BY <2>1 DEF Become, Queued, JobsInv
  <2>3. \A w \in Workers, j \in Jobs : Works(w, j)' <=> Works(w, j)
    BY <1>1 DEF Works
  <2>4. Len(mJobList') = 0
    BY <2>1
  <2>5. /\ \A j \in Jobs : fate'[j] = "unborn" <=> j > mnLastJobID'
        /\ \A j \in Jobs : fate'[j] # "queued"
        /\ \A i \in 1 .. Len(mJobList') : FALSE
    BY <1>1, <2>2, <2>4 DEF JobsInv
  <2>6. \A j \in Jobs : fate'[j] = "running" <=> \E w \in Workers : Works(w, j)'
    BY <2>2, <2>3 DEF JobsInv
  <2> QED
    BY <1>1, <2>3, <2>5, <2>6 DEF JobsInv
<1> QED
  BY <1>2, <1>3

LEMMA JobsOn ==
    ASSUME TypeOK, JobsInv, CallersInv, Next
    PROVE  JobsInv'
<1>1. ASSUME NEW w \in Workers, StartThread(w) \/ Quit(w) \/ WaitForJob(w) \/ WaitExpires(w)
      PROVE  JobsInv'
  BY <1>1, JobsStay DEF StartThread, Quit, AtLoop, WaitForJob, WaitExpires, poolVars, TypeOK
<1>2. ASSUME NEW c \in Clients, AddThread(c) \/ UnpauseSignal(c)
      PROVE  JobsInv'
  BY <1>2, JobsStay DEF AddThread, UnpauseSignal, Free, Waiting, JustBegun, poolVars, TypeOK
<1>3. CASE UNCHANGED <<fate, mJobList, mnLastJobID, thread, mCurrentJob>>
  BY <1>3, JobsStay
<1> QED
  BY <1>1, <1>2, <1>3, TakeJobKeepsJobs, FinishJobKeepsJobs, BeginKeepsJobs, QueueJobKeepsJobs, ShutdownQuitKeepsJobs
     DEF Next, WorkerStep, ClientStep, Call, JobWaitEnds, LoopEnds, Recheck, ShutdownWaitEnds, ShutdownReturns, Pause, Unpause,
         WaitJob, WaitCurrent, WaitAll, Shutdown, Destroy, Ask, Answer, UnchangedPool, poolVars

\* How a job's fate may change in one step.
Moves == {<<"unborn", "begun">>, <<"unborn", "refused">>, <<"begun", "queued">>,
          <<"queued", "running">>, <<"running", "done">>, <<"queued", "dropped">>}

LEMMA FatesMove ==
    ASSUME TypeOK, JobsInv, CallersInv, Next
    PROVE  \A j \in Jobs : fate'[j] = fate[j] \/ <<fate[j], fate'[j]>> \in Moves
<1>1. ASSUME NEW w \in Workers, TakeJob(w)
      PROVE  \A j \in Jobs : fate'[j] = fate[j] \/ <<fate[j], fate'[j]>> \in Moves
  <2>1. Head(mJobList) \in Jobs /\ fate[Head(mJobList)] = "queued"
    BY <1>1, TailIsRest DEF TakeJob, JobsInv, TypeOK
  <2> QED
    BY <1>1, <2>1 DEF TakeJob, Become, Moves
<1>2. ASSUME NEW w \in Workers, FinishJob(w)
      PROVE  \A j \in Jobs : fate'[j] = fate[j] \/ <<fate[j], fate'[j]>> \in Moves
  <2>1. mCurrentJob[w] \in Jobs /\ fate[mCurrentJob[w]] = "running"
    BY <1>2 DEF FinishJob, JobsInv, Works
  <2> QED
    BY <1>2, <2>1 DEF FinishJob, Become, Moves
<1>3. ASSUME NEW c \in Clients, Begin(c)
      PROVE  \A j \in Jobs : fate'[j] = fate[j] \/ <<fate[j], fate'[j]>> \in Moves
  <2>1. mnLastJobID + 1 \in Jobs /\ fate[mnLastJobID + 1] = "unborn"
    BY <1>3 DEF Begin, JobsInv, TypeOK, Jobs, PoolAssumption
  <2> QED
    BY <1>3, <2>1 DEF Begin, Become, Moves
<1>4. ASSUME NEW c \in Clients, QueueJob(c)
      PROVE  \A j \in Jobs : fate'[j] = fate[j] \/ <<fate[j], fate'[j]>> \in Moves
  <2>1. PICK n \in Jobs : about[c] = {n} /\ fate[n] = "begun"
    BY <1>4 DEF QueueJob, CallersInv
  <2> QED
    BY <1>4, <2>1 DEF QueueJob, Become, Moves
<1>5. ASSUME NEW c \in Clients, ShutdownQuit(c)
      PROVE  \A j \in Jobs : fate'[j] = fate[j] \/ <<fate[j], fate'[j]>> \in Moves
  <2>1. \A j \in Queued : j \in Jobs => fate[j] = "queued"
    BY DEF Queued, JobsInv
  <2> QED
    BY <1>5, <2>1 DEF ShutdownQuit, Become, Moves
<1> QED
  BY <1>1, <1>2, <1>3, <1>4, <1>5
     DEF Next, WorkerStep, ClientStep, Call, StartThread, Quit, WaitForJob, WaitExpires, AddThread, UnpauseSignal,
         JobWaitEnds, LoopEnds, Recheck, ShutdownWaitEnds, ShutdownReturns, Pause, Unpause,
         WaitJob, WaitCurrent, WaitAll, Shutdown, Destroy, Ask, Answer, UnchangedPool, poolVars

\* What is said of a client that takes no step stays true.
LEMMA OthersWait ==
    ASSUME TypeOK, JobsInv, CallersInv, Next, NEW d \in Clients,
           call'[d] = call[d], about'[d] = about[d]
    PROVE  /\ call[d] \in {"waitJob", "waitAll", "recheckAll"} /\ WaitsInv =>
                 \A j \in about'[d] : fate'[j] \in {"queued", "running", "done", "dropped"}
           /\ call[d] \in {"waitCurrent", "recheckCurrent"} /\ WaitsInv =>
                 \A j \in about'[d] : fate'[j] \in {"running", "done"}
<1>1. \A j \in Jobs : fate'[j] = fate[j] \/ <<fate[j], fate'[j]>> \in Moves
  BY FatesMove
<1> QED
  BY <1>1 DEF WaitsInv, Moves, TypeOK

LEMMA CallersOn ==
    ASSUME TypeOK, JobsInv, CallersInv, Next
    PROVE  CallersInv'
<1>1. ASSUME NEW c \in Clients, Begin(c)
      PROVE  CallersInv'
  <2> DEFINE n == mnLastJobID + 1
  <2>1. n \in Jobs /\ fate[n] = "unborn"
    BY <1>1 DEF Begin, JobsInv, TypeOK, Jobs, PoolAssumption
  <2>2. \A j \in Jobs : fate[j] = "begun" => fate'[j] = "begun" /\ j # n
    BY <1>1, <2>1 DEF Begin, Become
  <2>3. CASE mbInitialized
    <3>1. /\ call' = [call EXCEPT ![c] = "begin"] /\ about' = [about EXCEPT ![c] = {n}] /\ fate'[n] = "begun"
      BY <1>1, <2>1, <2>3 DEF Begin, Goto, Become
    <3> HIDE DEF n
    <3>2. \A d \in Clients : d # c /\ call'[d] = "begin" =>
             /\ call[d] = "begin" /\ about'[d] = about[d] /\ about[d] # {n}
             /\ \E j \in Jobs : about[d] = {j} /\ fate'[j] = "begun"
      BY <2>2, <3>1 DEF CallersInv, TypeOK
    <3>3. about'[c] = {n}
      BY <3>1 DEF TypeOK
    <3>4. \A d \in Clients : call'[d] = "begin" => \E j \in Jobs : about'[d] = {j} /\ fate'[j] = "begun"
      BY <2>1, <3>1, <3>2, <3>3
    <3>5. ASSUME NEW d \in Clients, NEW e \in Clients, call'[d] = "begin", call'[e] = "begin", about'[d] = about'[e]
          PROVE  d = e
      BY <3>2, <3>3, <3>5 DEF CallersInv
    <3> QED
      BY <3>4, <3>5 DEF CallersInv
  <2>4. CASE ~mbInitialized
    BY <1>1, <2>2, <2>4 DEF Begin, CallersInv
  <2> QED
    BY <2>3, <2>4
<1>2. ASSUME NEW c \in Clients, QueueJob(c)
      PROVE  CallersInv'
  <2>1. /\ call[c] = "begin" /\ call' = [call EXCEPT ![c] = "none"] /\ about' = [about EXCEPT ![c] = {}]
        /\ Become(about[c], "queued")
    BY <1>2 DEF QueueJob, Goto
  <2>2. \A d \in Clients : call'[d] = "begin" => d # c /\ call[d] = "begin" /\ about'[d] = about[d]
    BY <2>1 DEF TypeOK
  <2>3. ASSUME NEW d \in Clients, call'[d] = "begin"
        PROVE  \E j \in Jobs : about'[d] = {j} /\ fate'[j] = "begun"
    <3>1. PICK j \in Jobs : about[d] = {j} /\ fate[j] = "begun"
      BY <2>2, <2>3 DEF CallersInv
    <3>2. PICK n \in Jobs : about[c] = {n} /\ fate[n] = "begun"
      BY <2>1 DEF CallersInv
    <3>3. j # n
      <4>1. call[d] = "begin" /\ call[c] = "begin" /\ d # c
        BY <2>1, <2>2, <2>3
      <4>2. about[d] # about[c]
        BY <4>1 DEF CallersInv
      <4> QED
        BY <3>1, <3>2, <4>2
    <3> QED
      BY <2>1, <2>2, <2>3, <3>1, <3>2, <3>3 DEF Become
  <2> QED
    BY <2>2, <2>3 DEF CallersInv
<1>3. ASSUME \A j \in Jobs : fate[j] = "begun" => fate'[j] = "begun",
             \A d \in Clients : call'[d] = "begin" => call[d] = "begin" /\ about'[d] = about[d]
      PROVE  CallersInv'
  BY <1>3 DEF CallersInv
<1>4. CASE \E w \in Workers : WorkerStep(w) \/ WaitExpires(w)
  <2>1. UNCHANGED <<call, about>>
    BY <1>4 DEF WorkerStep, StartThread, Quit, TakeJob, WaitForJob, FinishJob, WaitExpires
  <2>2. PICK w \in Workers : WorkerStep(w) \/ WaitExpires(w)
    BY <1>4
  <2>3. TakeJob(w) \/ FinishJob(w) \/ fate' = fate
    BY <2>2 DEF WorkerStep, StartThread, Quit, WaitForJob, WaitExpires
  <2>4. TakeJob(w) => Head(mJobList) \in Jobs /\ fate[Head(mJobList)] = "queued"
    BY TailIsRest DEF TakeJob, JobsInv, TypeOK
  <2>5. FinishJob(w) => fate[mCurrentJob[w]] = "running"
    BY <2>2 DEF FinishJob, JobsInv, Works
  <2> QED
    BY <1>3, <2>1, <2>3, <2>4, <2>5 DEF TakeJob, FinishJob, Become
<1>5. ASSUME NEW c \in Clients, ShutdownQuit(c)
      PROVE  CallersInv'
  <2>1. \A j \in Jobs : fate[j] = "begun" => j \notin Queued
    BY DEF Queued, JobsInv
  <2> QED
    BY <1>3, <1>5, <2>1 DEF ShutdownQuit, Become, Goto, TypeOK
<1>6. ASSUME NEW c \in Clients,
             AddThread(c) \/ UnpauseSignal(c) \/ ShutdownReturns(c) \/ Pause(c) \/ Unpause(c) \/ Destroy(c)
      PROVE  CallersInv'
  BY <1>3, <1>6 DEF AddThread, UnpauseSignal, ShutdownReturns, Pause, Unpause, Destroy, Goto, TypeOK
<1>7. ASSUME NEW c \in Clients, JobWaitEnds(c) \/ LoopEnds(c) \/ Recheck(c) \/ ShutdownWaitEnds(c)
      PROVE  CallersInv'
  BY <1>3, <1>7 DEF JobWaitEnds, LoopEnds, Recheck, ShutdownWaitEnds, Answer, UnchangedPool, Goto, TypeOK
<1>8. ASSUME NEW c \in Clients, WaitJob(c) \/ WaitCurrent(c) \/ WaitAll(c)
      PROVE  CallersInv'
  BY <1>3, <1>8 DEF WaitJob, WaitCurrent, WaitAll, Ask, UnchangedPool, Goto, TypeOK
<1>9. ASSUME NEW c \in Clients, Shutdown(c)
      PROVE  CallersInv'
  <2>1. \A kind \in ShutdownKinds : ShutdownCall[kind] # "begin"
    BY DEF ShutdownCall, PoolAssumption
  <2> QED
    BY <1>3, <1>9, <2>1 DEF Shutdown, Goto, TypeOK
<1> QED
  BY <1>1, <1>2, <1>4, <1>5, <1>6, <1>7, <1>8, <1>9 DEF Next, ClientStep, Call

LEMMA NobodyActive ==
    ASSUME TypeOK, ThreadsInv, JobsInv, 0 \in ActiveCounts
    PROVE  \A j \in Jobs : fate[j] # "running"
<1>1. IsFiniteSet(ActiveWorkers) /\ mnActiveCount = Cardinality(ActiveWorkers)
  BY FS_Subset DEF ActiveWorkers, ThreadsInv, PoolAssumption
<1>2. CASE mnActiveCount = 0
  <2>1. ActiveWorkers = {}
    BY <1>1, <1>2, FS_EmptySet
  <2> QED
    BY <2>1 DEF JobsInv, Works, ActiveWorkers, Active
<1>3. CASE mnActiveCount # 0
  <2>1. PICK w \in Workers : mnActiveCount - 1 = 0 /\ thread[w] = "finished"
    BY <1>3 DEF ActiveCounts, Continuing
  <2>2. w \in ActiveWorkers /\ mnActiveCount = 1
    BY <2>1 DEF ActiveWorkers, Active, TypeOK
  <2>3. \A v \in ActiveWorkers : v = w
    <3>1. IsFiniteSet(ActiveWorkers) /\ Cardinality(ActiveWorkers) = 1
      BY <1>1, <2>2
    <3>2. PICK x : ActiveWorkers = {x}
      BY <3>1, FS_Singleton
    <3> QED
      BY <2>2, <3>2
  <2>4. \A v \in Workers : thread[v] # "working"
    BY <2>1, <2>3 DEF ActiveWorkers, Active
  <2> QED
    BY <2>4 DEF JobsInv, Works
<1> QED
  BY <1>2, <1>3

LEMMA WaitsOn ==
    ASSUME TypeOK, ThreadsInv, JobsInv, CallersInv, WaitsInv, Next
    PROVE  WaitsInv'
<1>0. \A j \in Jobs : fate'[j] = fate[j] \/ <<fate[j], fate'[j]>> \in Moves
  BY FatesMove
<1>1. \A j \in reported : fate'[j] \in {"done", "dropped"}
  BY <1>0 DEF WaitsInv, ReportedJobsAreOver, Moves, TypeOK
<1> DEFINE Fits(d) == /\ call'[d] \in {"waitJob", "waitAll", "recheckAll"} =>
                           \A j \in about'[d] : fate'[j] \in {"queued", "running", "done", "dropped"}
                      /\ call'[d] \in {"waitCurrent", "recheckCurrent"} =>
                           \A j \in about'[d] : fate'[j] \in {"running", "done"}
<1>2. \A d \in Clients : call'[d] = call[d] /\ about'[d] = about[d] => Fits(d)
  BY OthersWait
<1>3. CASE \E w \in Workers : WorkerStep(w) \/ WaitExpires(w)
  <2>1. UNCHANGED <<call, about, reported>>
    BY <1>3 DEF WorkerStep, StartThread, Quit, TakeJob, WaitForJob, FinishJob, WaitExpires
  <2> QED
    BY <1>1, <1>2, <2>1 DEF WaitsInv, ReportedJobsAreOver
<1>4. ASSUME NEW c \in Clients, ClientStep(c) \/ Call(c)
      PROVE  WaitsInv'
  <2>1. \A d \in Clients \ {c} : call'[d] = call[d] /\ about'[d] = about[d]
    BY <1>4 DEF ClientStep, Call, QueueJob, UnpauseSignal, JobWaitEnds, LoopEnds, Recheck, ShutdownWaitEnds, Answer, UnchangedPool,
                ShutdownQuit, ShutdownReturns, Begin, AddThread, Pause, Unpause, WaitJob, WaitCurrent, WaitAll,
                Ask, Shutdown, Destroy, Goto, TypeOK
  <2>2. ASSUME Fits(c), reported' = reported
        PROVE  WaitsInv'
    BY <1>1, <1>2, <2>1, <2>2 DEF WaitsInv, ReportedJobsAreOver
  <2>3. CASE \/ QueueJob(c) \/ UnpauseSignal(c) \/ ShutdownQuit(c) \/ ShutdownReturns(c) \/ Begin(c)
             \/ AddThread(c) \/ Pause(c) \/ Unpause(c) \/ Destroy(c)
    <3>1. (call'[c] = call[c] /\ about'[c] = about[c]) \/ call'[c] \in {"none", "begin", "unpause", "poll"}
      BY <2>3 DEF QueueJob, UnpauseSignal, ShutdownQuit, ShutdownReturns, Begin, AddThread, Pause, Unpause,
                  Destroy, Goto, TypeOK
    <3>2. reported' = reported
      BY <2>3 DEF QueueJob, UnpauseSignal, ShutdownQuit, ShutdownReturns, Begin, AddThread, Pause, Unpause, Destroy
    <3> QED
      BY <1>2, <2>2, <3>1, <3>2
  <2>4. CASE Shutdown(c)
    <3>1. call'[c] \in ShutdownCalls /\ reported' = reported
      BY <2>4 DEF Shutdown, Goto, ShutdownCall, ShutdownCalls, PoolAssumption, TypeOK
    <3> QED
      BY <2>2, <3>1 DEF ShutdownCalls
  <2>5. CASE WaitJob(c) \/ WaitCurrent(c) \/ WaitAll(c)
    BY <2>2, <2>5 DEF WaitJob, WaitCurrent, WaitAll, Ask, UnchangedPool, With, Goto, TypeOK
  <2>6. CASE LoopEnds(c) \/ ShutdownWaitEnds(c)
    BY <2>2, <2>6 DEF LoopEnds, ShutdownWaitEnds, UnchangedPool, Goto, TypeOK, WaitsInv
  <2>7. ASSUME NEW ok, Answer(c, ok), ok => \A j \in about[c] : fate[j] \in {"done", "dropped"}
        PROVE  WaitsInv'
    <3>1. Fits(c)
      BY <2>7 DEF Answer, Goto, TypeOK
    <3>2. \A j \in reported' : j \in reported \/ fate[j] \in {"done", "dropped"}
      BY <2>7 DEF Answer
    <3>3. ReportedJobsAreOver'
      BY <1>1, <2>7, <3>2 DEF Answer, UnchangedPool, ReportedJobsAreOver
    <3> QED
      BY <1>2, <2>1, <3>1, <3>3 DEF WaitsInv
  <2>8. CASE JobWaitEnds(c)
    <3>1. \A j \in about[c] : j \in Jobs /\ fate[j] \in {"queued", "running", "done", "dropped"}
      BY <2>8 DEF JobWaitEnds, WaitsInv, TypeOK
    <3>2. \A j \in about[c] : JobIsGone(j) => fate[j] \notin {"queued", "running"}
      <4>1. \A j \in Jobs : fate[j] = "queued" => j \in Queued
        BY DEF JobsInv, Queued
      <4>2. \A j \in Jobs : fate[j] = "running" => \E w \in mThreadInfoList : Active(w) /\ mCurrentJob[w] = j
        BY DEF JobsInv, ThreadsInv, Works, Active
      <4> QED
        BY <3>1, <4>1, <4>2 DEF JobIsGone
    <3>3. (\A j \in about[c] : JobIsGone(j)) => \A j \in about[c] : fate[j] \in {"done", "dropped"}
      BY <3>1, <3>2
    <3> QED
      BY <2>7, <2>8, <3>3 DEF JobWaitEnds
  <2>9. CASE Recheck(c)
    <3>1. CASE call[c] = "recheckCurrent" /\ \E n \in ActiveCounts : Answer(c, n = 0)
      <4>1. PICK n \in ActiveCounts : Answer(c, n = 0)
        BY <3>1
      <4>2. n = 0 => \A j \in about[c] : fate[j] \in {"done", "dropped"}
        BY <3>1, NobodyActive DEF WaitsInv, TypeOK
      <4> QED
        BY <2>7, <4>1, <4>2
    <3>2. CASE call[c] = "recheckAll" /\ Answer(c, NoneLeft)
      <4>1. NoneLeft => 0 \in ActiveCounts /\ \A j \in Jobs : fate[j] # "queued"
        BY DEF NoneLeft, ActiveCounts, JobsInv
      <4>2. NoneLeft => \A j \in about[c] : fate[j] \in {"done", "dropped"}
        BY <3>2, <4>1, NobodyActive DEF WaitsInv, TypeOK
      <4> QED
        BY <2>7, <3>2, <4>2
    <3> QED
      BY <2>9, <3>1, <3>2 DEF Recheck
  <2> QED
    BY <1>4, <2>3, <2>4, <2>5, <2>6, <2>8, <2>9 DEF ClientStep, Call
<1> QED
  BY <1>3, <1>4 DEF Next

LEMMA PoolFirst == ASSUME Init PROVE PoolInv
<1>1. ThreadsInv
  BY ThreadsFirst
<1>2. IsFiniteSet(mThreadInfoList) /\ mnCurrentCount \in Nat
  <2>1. IsFiniteSet(mThreadInfoList)
    BY FS_Subset DEF Init, PoolAssumption
  <2> QED
    BY <1>1, <2>1, FS_CardinalityType DEF ThreadsInv
<1>3. TypeOK
  <2>1. mnLastJobID \in 0 .. MaxJobs /\ mCurrentJob \in [Workers -> Jobs \cup {0}] /\ fate \in [Jobs -> Fates]
    BY DEF Init, Jobs, Fates, PoolAssumption
  <2>2. thread \in [Workers -> ThreadStates] /\ mThreadInfoList \subseteq Workers /\ mbQuit \subseteq Workers
    BY DEF Init, ThreadStates, JustBegun
  <2>3. call \in [Clients -> Calls] /\ about \in [Clients -> SUBSET Jobs] /\ mJobList \in Seq(Jobs)
    BY DEF Init, Calls
  <2> QED
    <3>1. mbInitialized \in BOOLEAN /\ destroyed \in BOOLEAN
      BY DEF Init
    <3>2. mnActiveCount \in Nat /\ mnPauseCount \in Int /\ reported \subseteq Jobs
      BY DEF Init
    <3> QED
      BY <1>2, <2>1, <2>2, <2>3, <3>1, <3>2 DEF TypeOK
<1>4. ShutdownInv
  BY DEF Init, ShutdownInv, ShutdownCalls
<1>5. JobsInv
  BY DEF Init, JobsInv, Works, Jobs, JustBegun
<1>6. CallersInv /\ WaitsInv
  BY DEF Init, CallersInv, WaitsInv, ReportedJobsAreOver
<1> QED
  BY <1>1, <1>3, <1>4, <1>5, <1>6 DEF PoolInv

LEMMA PoolOn ==
    ASSUME PoolInv, [Next]_vars
    PROVE  PoolInv'
<1>1. CASE UNCHANGED vars
  BY <1>1 DEF PoolInv, vars, poolVars, TypeOK, ThreadsInv, ListIsWhole, Active, ShutdownInv, JobsInv, Works, CallersInv,
              WaitsInv, ReportedJobsAreOver
<1>2. CASE Next
  <2> USE <1>2 DEF PoolInv
  <2>1. ThreadsInv'
    BY WorkersKeepThreads, ClientsKeepThreads DEF Next
  <2>2. TypeOK'
    BY <2>1, TypeOn
  <2>3. ShutdownInv' /\ JobsInv' /\ CallersInv' /\ WaitsInv'
    BY ShutdownOn, JobsOn, CallersOn, WaitsOn
  <2> QED
    BY <2>1, <2>2, <2>3
<1> QED
  BY <1>1, <1>2

\* What the runs check follows from the invariant.
LEMMA WholeTells ==
    ASSUME PoolInv, Steady \/ mbInitialized
    PROVE  CountsAreExact /\ LiveThreadsAreListed
<1>1. IsFiniteSet(mThreadInfoList) /\ ActiveWorkers \subseteq mThreadInfoList
  BY FS_Subset DEF PoolInv, TypeOK, ThreadsInv, ActiveWorkers, Active, PoolAssumption
<1>2. mnActiveCount = Cardinality(ActiveWorkers) /\ ListIsWhole
  BY DEF PoolInv, ThreadsInv, ActiveWorkers
<1>3. Cardinality(ActiveWorkers) <= Cardinality(mThreadInfoList)
  BY <1>1, FS_Subset
<1> QED
  BY <1>2, <1>3 DEF CountsAreExact, LiveThreadsAreListed, ListIsWhole, ActiveWorkers

LEMMA PoolTells ==
    ASSUME PoolInv
    PROVE  TypeOK /\ JobsInOnePlace /\ ReportedJobsAreOver
<1> USE DEF PoolInv
<1>1. ASSUME NEW j \in Jobs
      PROVE  /\ Cardinality({i \in 1 .. Len(mJobList) : mJobList[i] = j}) = IF fate[j] = "queued" THEN 1 ELSE 0
             /\ Cardinality({w \in Workers : thread[w] = "working" /\ mCurrentJob[w] = j})
                    = IF fate[j] = "running" THEN 1 ELSE 0
  <2> DEFINE I == {i \in 1 .. Len(mJobList) : mJobList[i] = j}
             W == {w \in Workers : thread[w] = "working" /\ mCurrentJob[w] = j}
  <2>1. \A i, k \in I : i = k
    BY DEF JobsInv
  <2>2. I = {} \/ \E i : I = {i}
    BY <2>1
  <2>3. \A w, v \in W : w = v
    BY DEF JobsInv, Works
  <2>4. W = {} \/ \E w : W = {w}
    BY <2>3
  <2>5. (fate[j] = "queued" <=> I # {}) /\ (fate[j] = "running" <=> W # {})
    BY DEF JobsInv, Works
  <2> HIDE DEF I, W
  <2>6. Cardinality(I) = IF fate[j] = "queued" THEN 1 ELSE 0
    BY <2>2, <2>5, FS_EmptySet, FS_Singleton
  <2>7. Cardinality(W) = IF fate[j] = "running" THEN 1 ELSE 0
    BY <2>4, <2>5, FS_EmptySet, FS_Singleton
  <2> QED
    BY <2>6, <2>7 DEF I, W
<1> QED
  BY <1>1 DEF JobsInOnePlace, WaitsInv

\* The list, the counters, the jobs and the calls agree in every state.
THEOREM PoolInvariance == Spec => []PoolInv
<1>1. Init => PoolInv
  BY PoolFirst
<1>2. PoolInv /\ [Next]_vars => PoolInv'
  BY PoolOn
<1> QED
  BY <1>1, <1>2, PTL DEF Spec

\* mnCurrentCount counts the threads of mThreadInfoList and mnActiveCount those
\* that have a job, every job is in one place, and QueueJob creates no thread when
\* there are mnMaxCount.
THEOREM PoolCountsAreKept ==
    ASSUME Steady
    PROVE  Spec => CountsAreKept
<1>1. Spec => []PoolInv
  BY PoolInvariance
<1>2. ASSUME PoolInv, [Next]_vars
      PROVE  [Len(mJobList') > Len(mJobList) /\ mnCurrentCount >= MaxCount => mnCurrentCount' = mnCurrentCount]_vars
  <2> SUFFICES ASSUME Len(mJobList') > Len(mJobList), mnCurrentCount >= MaxCount, Next
               PROVE  mnCurrentCount' = mnCurrentCount
    BY <1>2
  <2>1. Len(mJobList) \in Nat /\ Len(<<>>) = 0 /\ mJobList' # <<>> /\ mJobList' # mJobList
    BY <1>2 DEF PoolInv, TypeOK
  <2>2. ASSUME NEW c \in Clients, QueueJob(c)
        PROVE  mnCurrentCount' = mnCurrentCount
    <3>1. ~NeedsThread
      BY <1>2 DEF NeedsThread, PoolInv, TypeOK, PoolAssumption
    <3>2. mnCurrentCount' = mnCurrentCount + Cardinality({})
      BY <2>2, <3>1 DEF QueueJob
    <3> QED
      BY <1>2, <3>2, FS_EmptySet DEF PoolInv, TypeOK
  <2>3. ASSUME NEW w \in Workers, TakeJob(w)
        PROVE  FALSE
    BY <1>2, <2>1, <2>3, TailIsRest DEF TakeJob, PoolInv, TypeOK
  <2> QED
    BY <2>1, <2>2, <2>3
       DEF Next, WorkerStep, ClientStep, Call, StartThread, Quit, WaitForJob, FinishJob, WaitExpires, AddThread,
           UnpauseSignal, JobWaitEnds, LoopEnds, Recheck, ShutdownWaitEnds, ShutdownQuit, ShutdownReturns, Begin, Pause, Unpause,
           WaitJob, WaitCurrent, WaitAll, Shutdown, Destroy, Ask, Answer, UnchangedPool, poolVars
<1>3. Spec => WithinMaxCount
  BY <1>1, <1>2, PTL DEF Spec, WithinMaxCount
<1>4. PoolInv => TypeOK /\ CountsAreExact /\ JobsInOnePlace
  BY PoolTells, WholeTells
<1> QED
  BY <1>1, <1>3, <1>4, PTL DEF CountsAreKept

\* A WaitForJobCompletion that says yes is right, whatever threads and other
\* clients did between its looks at the pool.
THEOREM PoolWaitsAreTruthful == Spec => []ReportedJobsAreOver
<1>1. Spec => []PoolInv
  BY PoolInvariance
<1> QED
  BY <1>1, PoolTells, PTL

-----------------------------------------------------------------------------
(* The hand-over of jobs, when idle threads stay.                          *)

LEMMA HandOverOn ==
    ASSUME IdleTimeout = FALSE, mbInitialized, mbInitialized', PoolInv, PoolInv', HandOverInv, Next
    PROVE  HandOverInv'
<1> USE DEF HandOverInv
<1>0. /\ \A w \in Workers : w \in mThreadInfoList <=> thread[w] # "ended"
      /\ \A w \in Workers : w \in mThreadInfoList' <=> thread'[w] # "ended"
      /\ TypeOK /\ TypeOK' /\ ShutdownInv
  BY DEF PoolInv, ThreadsInv, ListIsWhole
<1>1. ASSUME NEW w \in Workers, WorkerStep(w) \/ WaitExpires(w)
      PROVE  HandOverInv'
  <2>1. CASE StartThread(w) \/ TakeJob(w) \/ FinishJob(w)
    <3>1. /\ thread[w] # "ended" /\ thread'[w] \in {"ready", "working", "finished"}
          /\ \A v \in Workers \ {w} : thread'[v] = thread[v]
          /\ UNCHANGED <<mbInitialized, mnPauseCount, mThreadInfoList, call>>
      BY <1>0, <2>1 DEF StartThread, TakeJob, FinishJob, poolVars, TypeOK
    <3> QED
      BY <1>0, <3>1 DEF SomeoneWillTakeJobs, TypeOK
  <2>2. CASE Quit(w)
    <3>1. w \in mbQuit /\ ~mbInitialized
      BY <1>0, <2>2 DEF Quit, Quits, ShutdownInv
    <3> QED
      BY <1>0, <2>2, <3>1 DEF Quit, SomeoneWillTakeJobs, TypeOK
  <2>3. CASE WaitForJob(w)
    BY <1>0, <2>3 DEF WaitForJob, SomeoneWillTakeJobs, TypeOK
  <2> QED
    BY <1>1, <2>1, <2>2, <2>3 DEF WorkerStep, WaitExpires
<1>2. ASSUME NEW c \in Clients, QueueJob(c)
      PROVE  HandOverInv'
  <2>1. PICK added \in IF NeedsThread THEN {{w} : w \in Free} ELSE {{}},
             woken \in IF mnPauseCount = 0 THEN Wakeable ELSE {{}} :
            /\ mThreadInfoList' = mThreadInfoList \cup added
            /\ thread' = Threads(added, woken)
    BY <1>2 DEF QueueJob
  <2>2. /\ woken \subseteq Waiting
        /\ mnPauseCount = 0 /\ Waiting # {} => woken # {}
        /\ added \subseteq Free
    BY <2>1 DEF Wakeable
  <2>3. /\ \A w \in added : thread'[w] \in {"begun", "ready"}
        /\ \A w \in woken : thread'[w] = "woken"
        /\ \A w \in Workers \ (added \cup woken) : thread'[w] = thread[w]
    BY <1>0, <2>1, <2>2 DEF Threads, Free, Waiting, JustBegun
  <2>4. CASE added # {}
    BY <1>0, <1>2, <2>1, <2>2, <2>3, <2>4 DEF QueueJob, SomeoneWillTakeJobs, Free, Waiting
  <2>5. CASE added = {}
    <3>1. MaxCount > 0 => mThreadInfoList # {}
      <4>1. CASE NeedsThread
        BY <2>1, <2>5, <4>1
      <4>2. CASE ~NeedsThread
        <5>1. mnCurrentCount = Cardinality(mThreadInfoList) /\ mnCurrentCount \in Nat /\ mnActiveCount \in Nat
          BY DEF PoolInv, ThreadsInv, ListIsWhole, TypeOK
        <5>2. MaxCount > 0 => mnCurrentCount > 0
          BY <4>2, <5>1 DEF NeedsThread, PoolAssumption
        <5>3. mThreadInfoList = {} => Cardinality(mThreadInfoList) = 0
          BY FS_EmptySet
        <5>4. mThreadInfoList = {} => ~(mnCurrentCount > 0)
          BY <5>1, <5>3
        <5> QED
          BY <5>2, <5>4
      <4> QED
        BY <4>1, <4>2
    <3>2. \A w \in Workers : thread'[w] # "expired"
      BY <1>0, <2>2, <2>3
    <3>3. CASE mnPauseCount = 0 /\ MaxCount > 0
      <4>1. \E w \in mThreadInfoList' : thread'[w] \notin {"waiting", "expired", "ended"}
        <5>1. CASE woken # {}
          <6>1. PICK w \in woken : w \in Workers
            BY <2>2, <5>1 DEF Waiting
          <6>2. w \in mThreadInfoList' /\ thread'[w] = "woken"
            BY <1>0, <2>3, <6>1
          <6> QED
            BY <6>2
        <5>2. CASE woken = {}
          <6>1. PICK w \in mThreadInfoList : w \in Workers
            BY <1>0, <3>1, <3>3 DEF TypeOK
          <6>2. thread'[w] = thread[w] /\ thread[w] # "waiting" /\ thread[w] # "ended"
            BY <1>0, <2>2, <2>3, <2>5, <3>3, <5>2, <6>1 DEF Waiting
          <6> QED
            BY <2>1, <3>2, <6>1, <6>2
        <5> QED
          BY <5>1, <5>2
      <4> QED
        BY <1>2, <2>1, <3>1, <3>2, <3>3, <4>1 DEF QueueJob, SomeoneWillTakeJobs
    <3>4. CASE ~(mnPauseCount = 0 /\ MaxCount > 0)
      BY <1>2, <2>1, <3>1, <3>2, <3>4 DEF QueueJob, SomeoneWillTakeJobs
    <3> QED
      BY <3>3, <3>4
  <2> QED
    BY <2>4, <2>5
<1>3. ASSUME NEW c \in Clients, UnpauseSignal(c)
      PROVE  HandOverInv'
  <2>1. /\ UNCHANGED <<mJobList, mbInitialized, mnPauseCount, mThreadInfoList>>
        /\ \A w \in Workers : thread'[w] # "expired"
    BY <1>0, <1>3 DEF UnpauseSignal, poolVars, Waiting
  <2>2. mJobList # <<>> => \A w \in Workers : thread'[w] # "waiting"
    BY <1>0, <1>3 DEF UnpauseSignal, Waiting, TypeOK
  <2>3. mJobList # <<>> => \A w \in mThreadInfoList : thread'[w] \notin {"waiting", "expired", "ended"}
    BY <1>0, <2>1, <2>2 DEF TypeOK
  <2> QED
    BY <2>1, <2>3 DEF SomeoneWillTakeJobs
<1>4. ASSUME NEW c \in Clients, AddThread(c)
      PROVE  HandOverInv'
  <2>1. PICK w \in Free : mThreadInfoList' = mThreadInfoList \cup {w} /\ thread' = [thread EXCEPT ![w] = JustBegun]
    BY <1>4 DEF AddThread
  <2>2. w \in Workers /\ thread'[w] \in {"begun", "ready"} /\ \A v \in Workers \ {w} : thread'[v] = thread[v]
    BY <1>0, <2>1 DEF Free, JustBegun, TypeOK
  <2> QED
    BY <1>0, <1>4, <2>1, <2>2 DEF AddThread, SomeoneWillTakeJobs, TypeOK
<1>5. ASSUME NEW c \in Clients, Unpause(c) \/ Pause(c)
      PROVE  HandOverInv'
  <2>1. CASE Pause(c)
    BY <1>0, <2>1 DEF Pause, SomeoneWillTakeJobs, TypeOK
  <2>2. CASE Unpause(c)
    <3>1. call'[c] = "unpause" \/ mnPauseCount' # 0
      BY <1>0, <2>2 DEF Unpause, Goto, TypeOK
    <3>2. mnPauseCount' >= 0 /\ UNCHANGED <<mJobList, mbInitialized, mThreadInfoList, thread>>
      BY <1>0, <2>2 DEF Unpause, TypeOK
    <3> QED
      BY <3>1, <3>2 DEF SomeoneWillTakeJobs
  <2> QED
    BY <1>5, <2>1, <2>2
<1>6. ASSUME NEW c \in Clients, Shutdown(c) \/ ShutdownQuit(c) \/ ShutdownReturns(c)
      PROVE  HandOverInv'
  <2>1. mbInitialized' = FALSE
    BY <1>0, <1>6 DEF Shutdown, ShutdownQuit, ShutdownReturns, ShutdownInv, ShutdownCalls, TypeOK
  <2>2. mnPauseCount' >= 0 /\ \A w \in Workers : thread'[w] # "expired"
    BY <1>0, <1>6 DEF Shutdown, ShutdownQuit, ShutdownReturns, Waiting
  <2> QED
    BY <2>1, <2>2 DEF SomeoneWillTakeJobs
<1>7. ASSUME UNCHANGED <<mJobList, mbInitialized, mnPauseCount, mThreadInfoList, thread>>,
             \A d \in Clients : call[d] = "unpause" => call'[d] = "unpause"
      PROVE  HandOverInv'
  BY <1>7 DEF SomeoneWillTakeJobs
<1>8. ASSUME NEW c \in Clients,
             Begin(c) \/ WaitJob(c) \/ WaitCurrent(c) \/ WaitAll(c) \/ Destroy(c)
      PROVE  HandOverInv'
  BY <1>0, <1>7, <1>8 DEF Begin, WaitJob, WaitCurrent, WaitAll, Ask, Destroy, Idle, Goto, UnchangedPool, poolVars, TypeOK
<1>9. ASSUME NEW c \in Clients, JobWaitEnds(c) \/ LoopEnds(c) \/ Recheck(c) \/ ShutdownWaitEnds(c)
      PROVE  HandOverInv'
  BY <1>0, <1>7, <1>9 DEF JobWaitEnds, LoopEnds, Recheck, ShutdownWaitEnds, Answer, Goto, UnchangedPool, poolVars, TypeOK
<1> QED
  BY <1>1, <1>2, <1>3, <1>4, <1>5, <1>6, <1>8, <1>9 DEF Next, ClientStep, Call

LEMMA StaysShut == ASSUME Next PROVE mbInitialized' => mbInitialized
<1> QED
  BY DEF Next, WorkerStep, ClientStep, Call, StartThread, Quit, TakeJob, WaitForJob, FinishJob, WaitExpires,
         QueueJob, UnpauseSignal, JobWaitEnds, LoopEnds, Recheck, ShutdownWaitEnds, Answer, ShutdownQuit, ShutdownReturns, Begin,
         AddThread, Pause, Unpause, WaitJob, WaitCurrent, WaitAll, Ask, Shutdown, Destroy, UnchangedPool, poolVars

\* No wakeup is lost between QueueJob, the workers' waits, Pause and Unpause: while
\* jobs wait and the pool runs, a thread is on its way to take one.
THEOREM JobsAreHandedOver ==
    ASSUME IdleTimeout = FALSE
    PROVE  Spec => []SomeoneWillTakeJobs
<1> DEFINE OpenInv == mbInitialized => HandOverInv
<1>1. Init => OpenInv
  BY DEF Init, HandOverInv, SomeoneWillTakeJobs, JustBegun
<1>2. PoolInv /\ PoolInv' /\ OpenInv /\ [Next]_vars => OpenInv'
  <2>1. HandOverInv /\ UNCHANGED vars => HandOverInv'
    BY DEF HandOverInv, SomeoneWillTakeJobs, vars, poolVars
  <2>2. UNCHANGED vars => mbInitialized' = mbInitialized
    BY DEF vars, poolVars
  <2> QED
    BY <2>1, <2>2, StaysShut, HandOverOn
<1>3. OpenInv => SomeoneWillTakeJobs
  BY DEF HandOverInv, SomeoneWillTakeJobs
<1>4. Spec => []PoolInv
  BY PoolInvariance
<1> QED
  BY <1>1, <1>2, <1>3, <1>4, PTL DEF Spec

-----------------------------------------------------------------------------
(* The end of the pool.                                                    *)

LEMMA EndOn ==
    ASSUME Steady, AloneAtShutdown, LeavesNoJob, PoolInv, PoolInv', EndInv, Next
    PROVE  EndInv'
<1> USE DEF EndInv
<1>0. TypeOK /\ ShutdownInv /\ ThreadsInv
  BY DEF PoolInv
<1>1. ASSUME NEW w \in Workers, WorkerStep(w) \/ WaitExpires(w)
      PROVE  EndInv'
  <2>1. UNCHANGED <<mbInitialized, call, destroyed>>
    BY <1>1 DEF WorkerStep, StartThread, Quit, TakeJob, WaitForJob, FinishJob, WaitExpires, poolVars
  <2>2. mThreadInfoList' \subseteq mThreadInfoList /\ (mJobList = <<>> => mJobList' = <<>>)
    BY <1>1 DEF WorkerStep, StartThread, Quit, TakeJob, WaitForJob, FinishJob, WaitExpires, poolVars
  <2> QED
    BY <2>1, <2>2
<1>2. ASSUME mbInitialized', mbInitialized, destroyed' = destroyed
      PROVE  EndInv'
  BY <1>2
<1>3. ASSUME NEW c \in Clients, Shutdown(c)
      PROVE  EndInv'
  <2>1. \A d \in Clients : call[d] = "none"
    BY <1>3 DEF Shutdown
  <2>2. /\ call'[c] \in {"shutdownNone", "shutdownAll"} /\ (call'[c] = "shutdownAll" => ~ShutdownTimeout)
        /\ \A d \in Clients \ {c} : call'[d] = "none"
    <3>1. PICK kind \in ShutdownKinds : call' = [call EXCEPT ![c] = ShutdownCall[kind]]
      BY <1>3 DEF Shutdown, Goto
    <3>2. kind = "none" \/ (kind = "all" /\ ~ShutdownTimeout)
      BY <3>1 DEF LeavesNoJob, PoolAssumption
    <3> QED
      BY <1>0, <2>1, <3>1, <3>2 DEF ShutdownCall, TypeOK
  <2>3. ~mbInitialized' /\ ~destroyed'
    BY <1>3 DEF Shutdown, Idle
  <2> QED
    BY <2>2, <2>3 DEF ShutdownCalls
<1>11. ASSUME NEW c \in Clients, ShutdownWaitEnds(c)
       PROVE  EndInv'
  <2>1. call[c] = "shutdownAll" /\ ~mbInitialized /\ mJobList = <<>>
    BY <1>0, <1>11 DEF ShutdownWaitEnds, ShutdownCalls, ShutdownInv, NoneLeft
  <2>2. call'[c] = "shutdownQuit" /\ \A d \in Clients \ {c} : call'[d] = call[d]
    BY <1>0, <1>11 DEF ShutdownWaitEnds, Goto, TypeOK
  <2>3. UNCHANGED <<mbInitialized, destroyed, mJobList, mThreadInfoList>>
    BY <1>11 DEF ShutdownWaitEnds, UnchangedPool, poolVars
  <2> QED
    BY <2>1, <2>2, <2>3 DEF ShutdownCalls
<1>4. ASSUME NEW c \in Clients, ShutdownQuit(c)
      PROVE  EndInv'
  <2>1. call[c] \in ShutdownCalls /\ ~mbInitialized
    BY <1>0, <1>4 DEF ShutdownQuit, ShutdownCalls, ShutdownInv
  <2>2. mJobList' = <<>>
    <3>1. CASE call[c] = "shutdownNone"
      BY <1>4, <3>1 DEF ShutdownQuit
    <3>2. CASE call[c] = "shutdownQuit"
      <4>1. \A d \in Clients : call[d] \notin {"shutdownNone", "shutdownAll"}
        BY <2>1, <3>2 DEF ShutdownCalls
      <4> QED
        BY <1>4, <2>1, <3>2, <4>1 DEF ShutdownQuit
    <3> QED
      BY <1>4, <3>1, <3>2 DEF ShutdownQuit
  <2>3. call'[c] = "poll" /\ \A d \in Clients \ {c} : call'[d] = call[d]
    BY <1>0, <1>4 DEF ShutdownQuit, Goto, TypeOK
  <2>4. UNCHANGED <<mbInitialized, destroyed>> /\ ~destroyed
    BY <1>4, <2>1 DEF ShutdownQuit, ShutdownCalls
  <2> QED
    BY <2>1, <2>2, <2>3, <2>4 DEF ShutdownCalls
<1>5. ASSUME NEW c \in Clients, ShutdownReturns(c)
      PROVE  EndInv'
  <2>1. call[c] = "poll" /\ ~mbInitialized /\ call[c] \in ShutdownCalls
    BY <1>0, <1>5 DEF ShutdownReturns, ShutdownCalls, ShutdownInv
  <2>2. mThreadInfoList' = {} /\ UNCHANGED <<mJobList, mbInitialized, destroyed>> /\ ~destroyed
    BY <1>5, <2>1 DEF ShutdownReturns, ShutdownCalls
  <2>3. call'[c] = "none" /\ \A d \in Clients \ {c} : call'[d] = call[d]
    BY <1>0, <1>5 DEF ShutdownReturns, Goto, TypeOK
  <2>4. \A d \in Clients : call[d] \notin {"shutdownNone", "shutdownAll"}
    BY <2>1 DEF ShutdownCalls
  <2>5. mJobList' = <<>>
    BY <2>1, <2>2, <2>4
  <2> QED
    BY <2>1, <2>2, <2>3, <2>5 DEF ShutdownCalls
<1>6. ASSUME NEW c \in Clients, Pause(c) \/ Unpause(c) \/ UnpauseSignal(c)
      PROVE  EndInv'
  <2>1. /\ call[c] \in {"none", "unpause"} /\ call'[c] \in {"none", "unpause"}
        /\ \A d \in Clients \ {c} : call'[d] = call[d]
        /\ UNCHANGED <<mJobList, mThreadInfoList, mbInitialized, destroyed>> /\ ~destroyed
    BY <1>0, <1>6 DEF Pause, Unpause, UnpauseSignal, Idle, Goto, poolVars, TypeOK
  <2> QED
    BY <2>1 DEF ShutdownCalls
<1>7. ASSUME NEW c \in Clients, Begin(c)
      PROVE  EndInv'
  <2>1. ~mbInitialized => UNCHANGED call
    BY <1>7 DEF Begin
  <2>2. UNCHANGED <<mJobList, mThreadInfoList, mbInitialized, destroyed>> /\ ~destroyed
    BY <1>7 DEF Begin, Idle
  <2> QED
    BY <2>1, <2>2
<1>8. ASSUME NEW c \in Clients, Destroy(c)
      PROVE  EndInv'
  BY <1>8 DEF Destroy, poolVars
<1>9. ASSUME NEW c \in Clients,
             AddThread(c) \/ WaitJob(c) \/ WaitCurrent(c) \/ WaitAll(c)
      PROVE  EndInv'
  BY <1>2, <1>9 DEF AddThread, WaitJob, WaitCurrent, WaitAll, Ask, UnchangedPool, poolVars
<1>10. ASSUME NEW c \in Clients, QueueJob(c) \/ JobWaitEnds(c) \/ LoopEnds(c) \/ Recheck(c)
       PROVE  EndInv'
  <2>1. call[c] \in {"begin", "waitJob", "waitCurrent", "waitAll", "recheckCurrent", "recheckAll"}
    BY <1>10 DEF QueueJob, JobWaitEnds, LoopEnds, Recheck
  <2>2. mbInitialized
    BY <1>0, <2>1 DEF ShutdownCalls
  <2> QED
    BY <1>2, <1>10, <2>2 DEF QueueJob, JobWaitEnds, LoopEnds, Recheck, ShutdownWaitEnds, Answer, UnchangedPool, poolVars
<1> QED
  BY <1>1, <1>3, <1>4, <1>5, <1>6, <1>7, <1>8, <1>9, <1>10, <1>11 DEF Next, ClientStep, Call

\* Every live thread is in mThreadInfoList, so Shutdown tells it to quit, and the
\* destructor finds no job, no thread and no count, as it asserts.
THEOREM PoolThreadsAreAccounted ==
    ASSUME Steady, AloneAtShutdown, LeavesNoJob
    PROVE  Spec => []ThreadsAreAccounted
<1>1. Spec => []PoolInv
  BY PoolInvariance
<1>2. Init => EndInv
  BY DEF Init, EndInv
<1>3. PoolInv /\ PoolInv' /\ EndInv /\ [Next]_vars => EndInv'
  <2>1. EndInv /\ UNCHANGED vars => EndInv'
    BY DEF EndInv, vars, poolVars
  <2> QED
    BY <2>1, EndOn
<1>4. PoolInv /\ EndInv => ThreadsAreAccounted
  <2> SUFFICES ASSUME PoolInv, EndInv
               PROVE  ThreadsAreAccounted
    OBVIOUS
  <2>1. CountsAreExact /\ LiveThreadsAreListed /\ ThreadsInv /\ TypeOK
    BY WholeTells DEF PoolInv
  <2>2. ASSUME destroyed
        PROVE  DestroyedPoolIsEmpty
    <3>1. mJobList = <<>> /\ mThreadInfoList = {}
      BY <2>2 DEF EndInv, ShutdownCalls
    <3>2. \A w \in Workers : thread[w] = "ended"
      BY <2>1, <3>1 DEF LiveThreadsAreListed
    <3>3. {w \in Workers : Active(w)} = {}
      BY <3>2 DEF Active
    <3>4. mnCurrentCount = 0 /\ mnActiveCount = 0
      BY <2>1, <3>1, <3>3, FS_EmptySet DEF CountsAreExact
    <3> QED
      BY <3>1, <3>2, <3>4 DEF DestroyedPoolIsEmpty
  <2> QED
    BY <2>1, <2>2 DEF ThreadsAreAccounted, DestroyedPoolIsEmpty
<1> QED
  BY <1>1, <1>2, <1>3, <1>4, PTL DEF Spec
=============================================================================
