----------------------------- MODULE Semaphores -----------------------------
(***************************************************************************)
(* Class Semaphore on its platforms, one of which is picked initially.     *)
(*                                                                         *)
(* Most platforms put mnCount, which GetCount reads, beside a semaphore of *)
(* the system that makes threads wait: a Post adds to mnCount first and to *)
(* the system's count next, a Wait takes from the system's count first.    *)
(* Windows has a fast version in which mnCount itself admits threads and   *)
(* is negative by the number of those that wait; threads that timed out    *)
(* take themselves off that number later (mnCancelCount).  The synthesized *)
(* version is made of a mutex and a condition.                             *)
(***************************************************************************)
EXTENDS SyncState

CONSTANTS
    SemaphoreKinds, \* The platforms.
    InitialCounts,  \* SemaphoreParameters::mInitialCount.
    MaxCount,       \* SemaphoreParameters::mMaxCount.
    MaxPost,        \* Bound: the largest argument of Post.
    OSMax,          \* Bound: the most the system's semaphore can hold
                    \* (SEM_VALUE_MAX and the like).
    UntimedKinds,   \* SemaphoreKinds whose users give no timeouts but kTimeoutNone and
                    \* kTimeoutImmediate.
    ModestKinds     \* SemaphoreKinds whose users post within the maximum only.

ASSUME SemaphoresAssumption ==
    /\ MaxCount \in Nat /\ OSMax \in Nat /\ MaxCount < OSMax
    /\ InitialCounts \subseteq 0 .. MaxCount /\ MaxPost \in Nat
    \* Without threads the one who waits is the one who posts.
    /\ "unthreadedSemaphore" \in SemaphoreKinds => Waiters \cap Posters # {}

VARIABLES
    count,      \* mnCount.
    cancel,     \* mnCancelCount.
    os,         \* The count of the system's semaphore.
    left,       \* The units the thread has still to post, or to release.
    fold,       \* The cancelled waits the thread is putting back.
    ret         \* What the thread's last call returned.

semaphoreVars == <<count, cancel, os, left, fold, ret>>
counts == <<kind, count, cancel, os, mutex>>

Return(t, result) ==
    /\ Goto(t, "idle") /\ ret' = [ret EXCEPT ![t] = result]
    /\ left' = [left EXCEPT ![t] = 0] /\ UNCHANGED fold
To(t, label) == Goto(t, label) /\ UNCHANGED <<left, fold, ret>>

\* The three ways to wait: kTimeoutNone, a time, kTimeoutImmediate.
Waits == {"wait", "timed", "try"}
\* Where a thread may still get a unit.
Waiting == Waits \cup {"osWait", "osTimed", "cvWait", "cvTimed", "relock", "retime"}

Clamped(n) == IF n < 0 THEN 0 ELSE n
Smaller(m, n) == IF m < n THEN m ELSE n

\* The units that threads at these labels have left, and the cancelled waits.
Left(labels) == Cardinality(Units(left, At(labels)))
Fold == Cardinality(Units(fold, Threads))

SystemKinds == {"unixSemaphore", "androidSemaphore", "appleSemaphore", "kettleSemaphore", "pcSharedSemaphore"}

\* The units that threads can take.
Value ==
    CASE kind \in SystemKinds -> os
      [] kind = "pcFastSemaphore" -> Clamped(count) + os + Left({"release"})
      [] OTHER -> count

\* Without threads there is only one.
Users == IF kind = "unthreadedSemaphore" THEN {CHOOSE t \in Waiters \cap Posters : TRUE} ELSE Threads

-----------------------------------------------------------------------------
(* The constructor and the calls.                                          *)

UnixSemaphoreInit(n) == kind = "unixSemaphore" /\ count = Clamped(n) /\ os = count
AndroidInit(n) == kind = "androidSemaphore" /\ count = Clamped(n) /\ os = count
AppleInit(n) == kind = "appleSemaphore" /\ count = Clamped(n) /\ os = count
KettleSemaphoreInit(n) == kind = "kettleSemaphore" /\ n >= 0 /\ count = n /\ os = count
PCInit(n) == kind \in {"pcFastSemaphore", "pcSharedSemaphore"} /\ count = Clamped(n)
             /\ os = (IF kind = "pcFastSemaphore" THEN 0 ELSE count)
SynthesizedInit(n) == kind = "synthesizedSemaphore" /\ count = Clamped(n) /\ os = 0
UnthreadedInit(n) == kind = "unthreadedSemaphore" /\ n >= 0 /\ count = n /\ os = 0

SemaphoreUsers ==
    /\ left = [t \in Threads |-> 0] /\ fold = [t \in Threads |-> 0]
    /\ ret = [t \in Threads |-> "none"]
    /\ cancel = 0
SemaphoreFresh == count = 0 /\ os = 0 /\ SemaphoreUsers

SemaphoreInit ==
    /\ kind \in SemaphoreKinds
    \* A negative count is none to most platforms.
    /\ \E n \in InitialCounts \cup {-1} :
        \/ UnixSemaphoreInit(n) \/ AndroidInit(n) \/ AppleInit(n) \/ KettleSemaphoreInit(n)
        \/ PCInit(n) \/ SynthesizedInit(n) \/ UnthreadedInit(n)
    /\ SyncInit /\ SemaphoreUsers

CallWait(t) ==
    /\ t \in Waiters /\ pc[t] = "idle"
    /\ \E w \in Waits \ (IF kind \in UntimedKinds THEN {"timed"} ELSE {}) : Goto(t, w)
    /\ ret' = [ret EXCEPT ![t] = "none"]
    /\ UNCHANGED <<counts, left, fold>>

CallPost(t) ==
    /\ t \in Posters /\ pc[t] = "idle"
    /\ \E n \in 1 .. MaxPost :
        /\ kind \in ModestKinds => count + n + Left({"post"}) <= MaxCount
        \* Bound: the fast version can pass the maximum (see MaxIsRespected), and
        \* its units pile up.
        /\ kind = "pcFastSemaphore" => Value + n <= OSMax
        /\ left' = [left EXCEPT ![t] = n]
    /\ Goto(t, "post")
    /\ ret' = [ret EXCEPT ![t] = "none"]
    /\ UNCHANGED <<counts, fold>>

-----------------------------------------------------------------------------
(* Steps over a semaphore of the system.                                   *)

TakeToken(t, from, to) ==
    pc[t] \in from /\ os > 0 /\ os' = os - 1 /\ To(t, to) /\ UNCHANGED <<kind, count, cancel, mutex>>

\* A wait with a time, or an attempt, finds nothing.
TimeOut(t) == pc[t] \in {"timed", "try"} /\ os = 0 /\ Return(t, "failed") /\ UNCHANGED counts

CountDown(t) ==
    pc[t] = "taken" /\ count' = count - 1 /\ Return(t, "ok") /\ UNCHANGED <<kind, cancel, os, mutex>>

CheckMax(t, next) ==
    /\ pc[t] = "post"
    /\ IF MaxCount - left[t] < count THEN Return(t, "failed") ELSE To(t, next)
    /\ UNCHANGED counts

CountUp(t, from, n) ==
    pc[t] = from /\ count' = count + n /\ To(t, "signal") /\ UNCHANGED <<kind, cancel, os, mutex>>

\* The system refuses a unit beyond its maximum.
Signal(t, n, max) ==
    /\ pc[t] = "signal"
    /\ IF os + n > max
         THEN To(t, "undo") /\ UNCHANGED counts
         ELSE /\ os' = os + n
              /\ IF left[t] > n
                   THEN left' = [left EXCEPT ![t] = @ - n] /\ Goto(t, "up") /\ UNCHANGED <<fold, ret>>
                   ELSE Return(t, "ok")
              /\ UNCHANGED <<kind, count, cancel, mutex>>

Undo(t, n) ==
    pc[t] = "undo" /\ count' = count - n /\ Return(t, "failed") /\ UNCHANGED <<kind, cancel, os, mutex>>

\* One unit at a time.
PostOnes(t) == CheckMax(t, "up") \/ CountUp(t, "up", 1) \/ Signal(t, 1, OSMax) \/ Undo(t, 1)

\* An interrupted wait of POSIX is repeated: no step.
UnixSemaphoreWait(t) == TakeToken(t, Waits, "taken") \/ TimeOut(t) \/ CountDown(t)
UnixSemaphorePost(t) == PostOnes(t)

AndroidWait(t) == TakeToken(t, Waits, "taken") \/ TimeOut(t) \/ CountDown(t)
AndroidPost(t) == PostOnes(t)

\* An interrupted wait fails on Apple, unless it has a timeout.
AppleWait(t) ==
    \/ TakeToken(t, Waits, "taken") \/ TimeOut(t) \/ CountDown(t)
    \/ pc[t] = "wait" /\ Return(t, "failed") /\ UNCHANGED counts
ApplePost(t) == PostOnes(t)

KettleSemaphoreWait(t) == TakeToken(t, Waits, "taken") \/ TimeOut(t) \/ CountDown(t)
\* Mutant: the semaphore of the system was created without the maximum.
KettlePostUnlimited(t) ==
    CheckMax(t, "up") \/ CountUp(t, "up", left[t]) \/ Signal(t, left[t], OSMax) \/ Undo(t, left[t])
\* All units at once, and the system knows the maximum.
KettleSemaphorePost(t) ==
    CheckMax(t, "up") \/ CountUp(t, "up", left[t]) \/ Signal(t, left[t], MaxCount) \/ Undo(t, left[t])

\* A semaphore that Windows processes share: the check of the maximum is the
\* system's.
PCSharedWait(t) == TakeToken(t, Waits, "taken") \/ TimeOut(t) \/ CountDown(t)
PCSharedPost(t) ==
    CountUp(t, "post", left[t]) \/ Signal(t, left[t], MaxCount) \/ Undo(t, left[t])

-----------------------------------------------------------------------------
(* The fast version of Windows.                                            *)

\* UpdateCancelCount(fold[t]): count goes up to 0 at most, and the rest is put
\* off.  A failed exchange is repeated with the value it found.
UpdateCancelCount(t, from, rest) ==
    LET back == Smaller(fold[t], -count) IN
    /\ pc[t] = from
    /\ IF count < 0
         THEN count' = count + back /\ fold' = [fold EXCEPT ![t] = @ - back]
         ELSE UNCHANGED <<count, fold>>
    /\ Goto(t, rest)
    /\ UNCHANGED <<kind, cancel, os, mutex, left, ret>>

AddCancel(t) ==
    /\ cancel' = cancel + fold[t]
    /\ fold' = [fold EXCEPT ![t] = 0]
    /\ UNCHANGED <<kind, count, os, mutex, left>>

\* The decrement of the count admits the thread.
AdmittedAtZero == count >= 0          \* Mutant: off by one.
Admitted == count > 0

PCFastWait(t) ==
    \/ /\ pc[t] \in Waits
       /\ count' = count - 1
       /\ IF Admitted
            THEN Return(t, "ok")
            ELSE To(t, IF pc[t] = "wait" THEN "osWait" ELSE "osTimed")
       /\ UNCHANGED <<kind, cancel, os, mutex>>
    \/ /\ pc[t] \in {"osWait", "osTimed"}
       /\ os > 0 /\ os' = os - 1
       /\ Return(t, "ok")
       /\ UNCHANGED <<kind, count, cancel, mutex>>
    \/ /\ pc[t] = "osTimed" /\ os = 0
       /\ fold' = [fold EXCEPT ![t] = 1]
       /\ Goto(t, "cancel")
       /\ UNCHANGED <<counts, left, ret>>
    \/ UpdateCancelCount(t, "cancel", "cancelRest")
    \/ pc[t] = "cancelRest" /\ AddCancel(t) /\ Goto(t, "idle") /\ ret' = [ret EXCEPT ![t] = "failed"]

PCFastPost(t) ==
    \/ pc[t] = "post" /\ To(t, IF cancel > 0 THEN "exchange" ELSE "check") /\ UNCHANGED counts
    \/ /\ pc[t] = "exchange"
       /\ IF count < 0
            THEN /\ fold' = [fold EXCEPT ![t] = cancel] /\ cancel' = 0
                 /\ Goto(t, "refold") /\ UNCHANGED <<kind, count, os, mutex, left, ret>>
            ELSE To(t, "check") /\ UNCHANGED counts
    \/ UpdateCancelCount(t, "refold", "refoldRest")
    \/ pc[t] = "refoldRest" /\ AddCancel(t) /\ Goto(t, "check") /\ UNCHANGED ret
    \/ /\ pc[t] = "check"
       /\ IF MaxCount - left[t] < count THEN Return(t, "failed") ELSE To(t, "add")
       /\ UNCHANGED counts
    \/ /\ pc[t] = "add"
       /\ count' = count + left[t]
       /\ IF count < 0
            THEN /\ left' = [left EXCEPT ![t] = Smaller(@, -count)]
                 /\ Goto(t, "release") /\ UNCHANGED <<fold, ret>>
            ELSE Return(t, "ok")
       /\ UNCHANGED <<kind, cancel, os, mutex>>
    \/ pc[t] = "release" /\ os' = os + left[t] /\ Return(t, "ok") /\ UNCHANGED <<kind, count, cancel, mutex>>

-----------------------------------------------------------------------------
(* The synthesized version: mMutex and mCV.                                *)

Lock(t) == mutex \in {None, t} /\ mutex' = t

SynthesizedWait(t) ==
    \* The mutex is taken, and given up if the thread waits.
    \/ /\ pc[t] \in Waits /\ mutex \in {None, t}
       /\ IF count >= 1
            THEN count' = count - 1 /\ Return(t, "ok")
            ELSE /\ UNCHANGED count
                 /\ CASE pc[t] = "try" -> Return(t, "failed")
                      [] pc[t] = "wait" -> To(t, "cvWait")
                      [] OTHER -> To(t, "cvTimed")
       /\ UNCHANGED <<kind, cancel, os, mutex>>
    \* The condition may be signalled without reason.
    \/ pc[t] = "cvWait" /\ To(t, "relock") /\ UNCHANGED counts
    \/ pc[t] = "cvTimed" /\ \E how \in {"retime", "expired"} : To(t, how) /\ UNCHANGED counts
    \/ /\ pc[t] \in {"relock", "retime"} /\ mutex \in {None, t}
       /\ IF count < 1
            THEN UNCHANGED count /\ To(t, IF pc[t] = "relock" THEN "cvWait" ELSE "cvTimed")
            ELSE count' = count - 1 /\ Return(t, "ok")
       /\ UNCHANGED <<kind, cancel, os, mutex>>
    \/ pc[t] = "expired" /\ mutex \in {None, t} /\ Return(t, "failed") /\ UNCHANGED counts

\* Thread t is done and signals the condition.
Signalled(t) ==
    [u \in Threads |-> CASE u = t -> "idle"
                        [] pc[u] = "cvWait" -> "relock"
                        [] pc[u] = "cvTimed" -> "retime"
                        [] OTHER -> pc[u]]

\* A Post that would pass the maximum returns with the mutex locked.  One that
\* does not, signals the condition: the threads that wait need the mutex.
SynthesizedPost(t) ==
    /\ pc[t] = "post" /\ mutex \in {None, t}
    /\ IF MaxCount - left[t] < count
         THEN mutex' = t /\ Return(t, "failed") /\ UNCHANGED <<kind, count, cancel, os>>
         ELSE /\ count' = count + left[t]
              /\ pc' = Signalled(t)
              /\ ret' = [ret EXCEPT ![t] = "ok"] /\ left' = [left EXCEPT ![t] = 0]
              /\ UNCHANGED <<kind, cancel, os, mutex, fold>>

(* Without threads: the only thread polls.                                 *)

UnthreadedWait(t) ==
    \/ pc[t] \in {"wait", "try"} /\ count > 0 /\ count' = count - 1 /\ Return(t, "ok")
       /\ UNCHANGED <<kind, cancel, os, mutex>>
    \* A wait with a timeout leaves the count as it is.
    \/ pc[t] = "timed" /\ count > 0 /\ Return(t, "ok") /\ UNCHANGED counts
    \/ pc[t] \in {"timed", "try"} /\ count <= 0 /\ Return(t, "failed") /\ UNCHANGED counts

UnthreadedPost(t) ==
    /\ pc[t] = "post"
    /\ IF MaxCount - left[t] < count
         THEN Return(t, "failed") /\ UNCHANGED counts
         ELSE count' = count + left[t] /\ Return(t, "ok") /\ UNCHANGED <<kind, cancel, os, mutex>>

-----------------------------------------------------------------------------
SemaphoreStep(t) ==
    \/ kind = "unixSemaphore" /\ (UnixSemaphoreWait(t) \/ UnixSemaphorePost(t))
    \/ kind = "androidSemaphore" /\ (AndroidWait(t) \/ AndroidPost(t))
    \/ kind = "appleSemaphore" /\ (AppleWait(t) \/ ApplePost(t))
    \/ kind = "kettleSemaphore" /\ (KettleSemaphoreWait(t) \/ KettleSemaphorePost(t))
    \/ kind = "pcSharedSemaphore" /\ (PCSharedWait(t) \/ PCSharedPost(t))
    \/ kind = "pcFastSemaphore" /\ (PCFastWait(t) \/ PCFastPost(t))
    \/ kind = "synthesizedSemaphore" /\ (SynthesizedWait(t) \/ SynthesizedPost(t))
    \/ kind = "unthreadedSemaphore" /\ (UnthreadedWait(t) \/ UnthreadedPost(t))

SemaphoreNext == \E t \in Users : CallWait(t) \/ CallPost(t) \/ SemaphoreStep(t)

SemaphoreSpec == SemaphoreInit /\ [][SemaphoreNext]_<<syncVars, semaphoreVars>>

-----------------------------------------------------------------------------
(* Properties.                                                             *)

SemaphoreLabels ==
    Waiting \cup {"idle", "taken", "post", "up", "signal", "undo", "cancel", "cancelRest",
                 "exchange", "refold", "refoldRest", "check", "add", "release", "expired"}

SemaphoreTypeOK == kind \in SemaphoreKinds =>
    /\ count \in Int /\ cancel \in Nat /\ os \in Nat /\ (kind # "pcFastSemaphore" => os <= OSMax)
    /\ SyncTypeOK(SemaphoreLabels)
    /\ left \in [Threads -> Nat] /\ fold \in [Threads -> Nat]
    /\ ret \in [Threads -> {"none", "ok", "failed"}]

GetCount == IF kind = "pcFastSemaphore" THEN Clamped(count + cancel) ELSE count

\* What mnCount says is the units there are, but for threads on their way: those
\* that took a unit and have not counted it, units counted and not yet given to
\* the system, and in the fast version threads that wait or have timed out.
\* GetCount is right when nobody is in a call.
SemaphoreCountIsExact ==
    /\ kind \in SemaphoreKinds /\ At({"idle"}) = Threads => GetCount = Value
    /\ CASE kind \in {"unixSemaphore", "androidSemaphore", "appleSemaphore"} ->
            count = os + Cardinality(At({"taken", "signal", "undo"}))
      [] kind \in {"kettleSemaphore", "pcSharedSemaphore"} ->
            count = os + Cardinality(At({"taken"})) + Left({"signal", "undo"} \cup
                         (IF kind = "pcSharedSemaphore" THEN {"up"} ELSE {}))
      [] kind = "pcFastSemaphore" ->
            count + cancel + Fold + Cardinality(At({"osWait", "osTimed"})) = Value
      [] OTHER -> count >= 0

\* Where the system or a mutex guards the maximum, no race of Posts passes it.
\* (On the others two Posts can pass the check together; in the fast version the
\* check also misses the units that were released to threads that timed out.)
MaxIsRespected ==
    kind \in {"kettleSemaphore", "pcSharedSemaphore", "synthesizedSemaphore", "unthreadedSemaphore"}
        => Value <= MaxCount

\* Each platform implements the promise of the class.
CallOf(t) ==
    IF kind \notin SemaphoreKinds THEN "none" ELSE
    CASE pc[t] \in Waiting \cup {"cancel", "cancelRest", "expired"} -> "wait"
      [] pc[t] = "taken" -> "ok"
      [] pc[t] = "idle" -> ret[t]
      [] OTHER -> "post"

SemaphorePromise == INSTANCE CountingSemaphore WITH
    value <- Value, call <- [t \in Threads |-> CallOf(t)]
ImplementsCountingSemaphore == SemaphorePromise!Spec

\* No thread waits for ever while there are units.
UnitsReachWaiters == \A t \in Threads : []<>(pc[t] \notin Waiting \/ Value = 0)

\* GetCount, what each version counts and what the system's semaphore has agree
\* with the units that were posted and taken, whatever Posts fail and Waits time
\* out; where Post looks at the maximum under a lock it is never passed.
SemaphoreIsExact == SemaphoreTypeOK /\ SemaphoreCountIsExact /\ MaxIsRespected
=============================================================================
