----------------------------- MODULE MCThreads -----------------------------
(***************************************************************************)
(* The four implementations of Thread, one of which the program is built   *)
(* with, for TLC.                                                          *)
(***************************************************************************)
EXTENDS ThreadUnix, ThreadPC, ThreadCpp11

ThreadStep(n) ==
    \/ UnixThreadStep(n) /\ ~Kettle
    \/ KettleRuns(n) \/ PCRuns(n) \/ Cpp11Runs(n) \/ ThreadFrees(n)

UserStep(u) ==
    \/ UserFrees(u) \/ BeginReleases(u) \/ BeginAllocates(u) \/ PollEnds(u) \/ EnumerateAddRefs(u)
    \/ UnixUserStep(u) /\ ~Kettle
    \/ KettleBegins(u) \/ KettleWaits(u) \/ PCUserStep(u) \/ Cpp11UserStep(u)

Choice(u) ==
    \/ UnixChoice(u) \/ PCChoice(u) \/ Cpp11Choice(u)
    \/ Destroy(u) \/ EnumerateThreads(u) \/ EnumDataRelease(u) \/ PollTimesOut(u)
    \/ \E v \in Users : Assign(u, v) \/ WaitForEnd(u, v)

Next ==
    \/ \E n \in Threads : ThreadStep(n) \/ DestroyWithin(n)
    \/ \E u \in Users : UserStep(u) \/ Choice(u)

Spec == Init /\ [][Next]_threadVars

\* Threads that can run do run, and the functions of threads return.
FairSpec ==
    /\ Spec
    /\ \A n \in Threads : WF_threadVars(ThreadStep(n))
    /\ \A u \in Users : WF_threadVars(UserStep(u))
=============================================================================
