-------------------------- MODULE ThreadAttributes --------------------------
(***************************************************************************)
(* What a thread is given beside the function it runs: a priority and a    *)
(* name.  The two share no state; first the priorities, then the names.    *)
(*                                                                         *)
(* Priorities: higher numbers are meant to run first, whatever the         *)
(* system's own numbers mean.  SetThreadPriority is for the caller,        *)
(* SetPriority for a Thread object, and Begin passes mnPriority on.  Each  *)
(* goes through the native priorities of the platform: a policy and a      *)
(* level, where some systems put the higher priorities lower, some refuse  *)
(* levels out of their range and some have gaps.  On Linux the function    *)
(* has real time levels and the object has none.                           *)
(*                                                                         *)
(* Names: mName of EAThreadDynamicData, and the name the system shows.     *)
(* Linux and Apple let a thread name only itself, so a new thread names    *)
(* itself from mName when it starts, while Begin writes the name once      *)
(* more.  strncpy takes time: a name is copied in two parts here, the      *)
(* first of which is all that Linux shows (16 bytes).                      *)
(***************************************************************************)
EXTENDS Integers

CONSTANTS
    PrioritySystems,   \* Of "linux", "posix", "posix_down", "kettle", "windows".
    PriorityThreads,
    MaxPriority,       \* Bound: of the priorities asked for, in both directions.
    NativeMin, NativeMax,  \* The levels of SCHED_FIFO and SCHED_RR.
    WindowsHighest, WindowsCritical  \* THREAD_PRIORITY_HIGHEST, _TIME_CRITICAL.

ASSUME PrioritiesAssumption ==
    /\ PrioritySystems \subseteq {"linux", "posix", "posix_down", "kettle", "windows"}
    /\ MaxPriority \in Nat /\ NativeMin \in Nat \ {0} /\ NativeMax \in Nat /\ NativeMin < NativeMax
    /\ WindowsHighest \in Nat /\ WindowsCritical \in Nat /\ WindowsHighest < WindowsCritical

VARIABLES
    prioritySystem,  \* The platform.
    native,     \* [policy, level] of each thread, NotBegun before it is begun.
    wanted,     \* The priority last accepted for it; Unset if there was none ...
    means,      \* ... and by what that was set.
    refusals    \* The threads whose last call, by one of the means, was refused.

priorityVars == <<prioritySystem, native, wanted, means, refusals>>

kThreadPriorityDefault == 0
Priorities == -MaxPriority .. MaxPriority
Unset == MaxPriority + 1
\* Thread::Begin and Thread::SetPriority, or SetThreadPriority.
Means == {"object", "function"}
NotBegun == [policy |-> "none", level |-> 0]
TimeShared == [policy |-> "other", level |-> 0]
Levels == NativeMin .. NativeMax
Posix == {"posix", "posix_down"}

Clamped(n, min, max) == IF n < min THEN min ELSE IF n > max THEN max ELSE n

-----------------------------------------------------------------------------
(* The conversions to the native priorities.                               *)

\* SCHED_OTHER has one level, and everything of SCHED_RR is above it.
\* EA_ALLOW_POSIX_THREADS_PRIORITIES is 0: an object asks for SCHED_OTHER only.
LinuxNative(by, n) ==
    IF by = "object" \/ n <= kThreadPriorityDefault THEN TimeShared
    ELSE [policy |-> "rr", level |-> n - kThreadPriorityDefault]

\* sched_get_priority_min and _max of the policy, which may be the wrong way round.
SchedMin == IF prioritySystem = "posix_down" THEN NativeMax ELSE NativeMin
SchedMax == IF prioritySystem = "posix_down" THEN NativeMin ELSE NativeMax
AdjustDir == IF SchedMin < SchedMax THEN 1 ELSE -1
Middle == (NativeMin + NativeMax) \div 2

PosixNative(n) ==
    [policy |-> "fifo", level |-> Clamped(Middle + AdjustDir * n, NativeMin, NativeMax)]

\* Mutant of KettleNative: like the other systems.
UpwardNative(n) == [policy |-> "rr", level |-> Clamped(Middle + n, NativeMin, NativeMax)]

\* SCE_KERNEL_PRIO_FIFO_HIGHEST is the smallest level, and _DEFAULT is between.
KettleNative(n) == [policy |-> "rr", level |-> Clamped(Middle + (-1 * n), NativeMin, NativeMax)]

\* In the normal class a process has these levels only.
WindowsLevels == {-WindowsCritical, WindowsCritical} \cup -WindowsHighest .. WindowsHighest

\* "set the priority to the next priority supported"
WindowsLevel(n) ==
    IF n >= WindowsCritical THEN WindowsCritical
    ELSE IF n <= -WindowsCritical THEN -WindowsCritical
    ELSE CHOOSE m \in WindowsLevels : m >= n /\ \A k \in WindowsLevels : k >= n => m <= k
WindowsNative(n) == [policy |-> "other", level |-> WindowsLevel(n)]

\* ConvertToNativePriority for objects, and what SetThreadPriority does by itself.
ToNative(by, n) ==
    CASE prioritySystem = "linux" -> LinuxNative(by, n)
      [] prioritySystem \in Posix -> PosixNative(n)
      [] prioritySystem = "kettle" -> KettleNative(n)
      [] prioritySystem = "windows" -> WindowsNative(n)

-----------------------------------------------------------------------------
(* The conversions from them.                                              *)

LinuxPriority(p) == kThreadPriorityDefault + p.level

PosixPriority(p) ==
    IF p.policy = "other" THEN 0 ELSE AdjustDir * (p.level - (SchedMin + SchedMax) \div 2)

KettlePriority(p) == -1 * (p.level - Middle)

WindowsPriority(p) == kThreadPriorityDefault + p.level

\* GetThreadPriority and GetPriority.
PriorityOf(t) ==
    CASE prioritySystem = "linux" -> LinuxPriority(native[t])
      [] prioritySystem \in Posix -> PosixPriority(native[t])
      [] prioritySystem = "kettle" -> KettlePriority(native[t])
      [] prioritySystem = "windows" -> WindowsPriority(native[t])

-----------------------------------------------------------------------------
(* The operations.                                                         *)

\* What the system refuses, of a caller that has the privilege to be scheduled in
\* real time.
Valid(p) ==
    CASE p.policy = "other" -> prioritySystem = "windows" \/ p.level = 0
      [] p.policy \in {"rr", "fifo"} -> p.level \in Levels

PrioritiesInit ==
    /\ prioritySystem \in PrioritySystems
    /\ native = [t \in PriorityThreads |-> NotBegun]
    /\ wanted = [t \in PriorityThreads |-> Unset]
    /\ means = [t \in PriorityThreads |-> "object"] /\ refusals = {}

\* Begin without parameters, or a thread that the library did not begin.
BeginPlainly(t) ==
    /\ native[t] = NotBegun
    /\ native' = [native EXCEPT ![t] =
           IF prioritySystem = "kettle" THEN [policy |-> "rr", level |-> Middle] ELSE TimeShared]
    /\ UNCHANGED <<prioritySystem, wanted, means, refusals>>

\* The call returns whether it was accepted.
Asks(t, by, n) ==
    IF Valid(ToNative(by, n))
    THEN /\ native' = [native EXCEPT ![t] = ToNative(by, n)]
         /\ wanted' = [wanted EXCEPT ![t] = n] /\ means' = [means EXCEPT ![t] = by]
         /\ refusals' = refusals \ ({t} \X Means)
    ELSE refusals' = refusals \cup {<<t, by>>} /\ UNCHANGED <<native, wanted, means>>

\* SetupThreadAttributes: PTHREAD_EXPLICIT_SCHED, so that nothing is inherited.
BeginWith(t, n) ==
    /\ native[t] = NotBegun
    /\ Asks(t, "object", n)
    /\ UNCHANGED prioritySystem

\* Thread::SetPriority, by anybody, or SetThreadPriority by the thread itself.
SetPriority(t, by, n) ==
    /\ native[t] # NotBegun
    /\ Asks(t, by, n)
    /\ UNCHANGED prioritySystem

PrioritiesNext ==
    \E t \in PriorityThreads :
        \/ BeginPlainly(t)
        \/ \E n \in Priorities : BeginWith(t, n) \/ \E by \in Means : SetPriority(t, by, n)

-----------------------------------------------------------------------------
PrioritiesTypeOK ==
    /\ prioritySystem \in PrioritySystems
    /\ native \in [PriorityThreads -> [policy : {"none", "other", "rr", "fifo"}, level : Int]]
    /\ wanted \in [PriorityThreads -> Priorities \cup {Unset}]
    /\ means \in [PriorityThreads -> Means] /\ refusals \subseteq PriorityThreads \X Means

\* Does the system run p rather than q?
RunsBefore(p, q) ==
    CASE p.policy = q.policy ->
            IF prioritySystem \in {"posix_down", "kettle"} THEN p.level < q.level ELSE p.level > q.level
      [] p.policy # q.policy -> q.policy = "other"

\* "higher EAThread priority integral values mean higher thread priorities for
\* running threads" (eathread.h:409-410): of two threads for which priorities
\* were accepted, the one with the lower number never runs before the other,
\* whatever was rounded or clamped.  On Linux that is so for threads that all set
\* theirs with SetThreadPriority, or all through objects (then none runs before
\* another); the sentence does not hold between the two.
PrioritiesAreOrdered ==
    \A t, u \in PriorityThreads :
        /\ Unset \notin {wanted[t], wanted[u]} /\ wanted[t] < wanted[u]
        /\ prioritySystem = "linux" => means[t] = means[u]
        => ~RunsBefore(native[t], native[u])

\* "convert system-specific thread priorities to these platform-independent
\* priorities and back without loss" (eathread.h:401-403): to set a thread, by
\* the same means, to the priority it is said to have changes nothing.
PrioritiesReadBack ==
    \A t \in PriorityThreads : wanted[t] # Unset => ToNative(means[t], PriorityOf(t)) = native[t]

\* "Accepts any integer priority value" (eathread.h:496-498): except by
\* SetThreadPriority on Linux, which has no more than its real time levels, no
\* number is refused.
PrioritiesAreAccepted == \A r \in refusals : prioritySystem = "linux" /\ r[2] = "function"

-----------------------------------------------------------------------------
(* Names.                                                                  *)

CONSTANTS
    NameSystems,    \* Of "linux", "apple", "bsd", "kettle", "windows".
    NamedThreads,   \* Threads that are begun ...
    Namer,          \* ... by this one, which has a name.
    CarefulNamers   \* Is a thread named by one at a time, once Begin has returned?

ASSUME NamesAssumption ==
    /\ NameSystems \subseteq {"linux", "apple", "bsd", "kettle", "windows"}
    /\ Namer \notin NamedThreads /\ CarefulNamers \in BOOLEAN

\* The first 15 characters, and the others up to EATHREAD_NAME_SIZE.
NoName == <<"", "">>
Names == {NoName} \cup {"a", "b"} \X {"", "x"}

VARIABLES
    nameSystem,  \* The platform.
    mName,       \* The name in the data of each thread.
    systemName,  \* The name the system has.
    nameAt,      \* "unborn", "created", "running".
    naming,      \* The naming each thread is doing: its step, for whom, and the name.
    given,       \* The name last given to each thread ...
    unshown      \* ... and the threads to whom somebody else gave it, where the system
                 \* has no way to show that.
nameVars == <<nameSystem, mName, systemName, nameAt, naming, given, unshown>>

NotNaming == [step |-> "none"]
\* EATHREAD_OTHER_THREAD_NAMING_SUPPORTED.
OnlyOneself == nameSystem \in {"linux", "apple"}

\* Nobody is naming t.
Unnamed(t) == \A u \in NamedThreads \cup {Namer} : naming[u].step # "none" => naming[u].on # t

NamesInit ==
    /\ nameSystem \in NameSystems
    /\ mName = [t \in NamedThreads |-> NoName]
    /\ systemName = [t \in NamedThreads |-> NoName]
    /\ nameAt = [t \in NamedThreads |-> "unborn"]
    /\ naming = [t \in NamedThreads \cup {Namer} |-> NotNaming]
    /\ given = [t \in NamedThreads |-> NoName] /\ unshown = {}

Naming(by, step, t, n) == naming' = [naming EXCEPT ![by] = [step |-> step, on |-> t, name |-> n]]

-----------------------------------------------------------------------------
(* Begin.                                                                  *)

\* Except on Windows the name is copied before the thread is created, on Kettle by
\* that name and no more; elsewhere Begin, if it has a name among its parameters
\* (the default is the empty one), then calls SetName.
BeginNamed(t, n) ==
    /\ nameAt[t] = "unborn" /\ naming[Namer].step = "none"
    /\ mName' = [mName EXCEPT ![t] = IF nameSystem = "windows" THEN @ ELSE n]
    /\ systemName' = [systemName EXCEPT ![t] = IF nameSystem = "kettle" THEN n ELSE @]
    /\ given' = [given EXCEPT ![t] = n]
    /\ \E named \in BOOLEAN :
          /\ n # NoName => named
          /\ nameAt' = [nameAt EXCEPT ![t] = IF nameSystem = "windows" /\ named THEN "suspended" ELSE "created"]
          /\ IF named /\ nameSystem # "kettle" THEN Naming(Namer, "head", t, n) ELSE UNCHANGED naming
    /\ UNCHANGED <<nameSystem, unshown>>

\* Windows resumes the thread after that.
Resumes(t) ==
    /\ nameAt[t] = "suspended" /\ naming[Namer].step = "none"
    /\ nameAt' = [nameAt EXCEPT ![t] = "created"]
    /\ UNCHANGED <<nameSystem, mName, systemName, naming, given, unshown>>

\* Mutant of StartNamed: the thread leaves its name to Begin.
StartUnnamed(t) ==
    /\ nameAt[t] = "created"
    /\ nameAt' = [nameAt EXCEPT ![t] = "running"]
    /\ UNCHANGED <<nameSystem, mName, systemName, naming, given, unshown>>

\* "Under Unix we need to set the thread name from the thread that is being named":
\* it is its own name, which is not copied.
StartNamed(t) ==
    /\ nameAt[t] = "created"
    /\ nameAt' = [nameAt EXCEPT ![t] = "running"]
    /\ IF (OnlyOneself /\ mName[t][1] # "") \/ nameSystem = "windows"
       THEN Naming(t, "system", t, mName[t]) ELSE UNCHANGED naming
    /\ UNCHANGED <<nameSystem, mName, systemName, given, unshown>>

-----------------------------------------------------------------------------
(* SetThreadName, for oneself or another, and Thread::SetName.             *)

SetThreadName(by, t, n) ==
    /\ naming[by].step = "none" /\ (by # Namer => nameAt[by] = "running")
    /\ nameAt[t] \in {"created", "running"}
    /\ CarefulNamers => nameAt[t] = "running" /\ Unnamed(t)
    /\ Naming(by, "head", t, n)
    /\ given' = [given EXCEPT ![t] = n]
    /\ unshown' = IF OnlyOneself /\ by # t THEN unshown \cup {t} ELSE unshown \ {t}
    /\ UNCHANGED <<nameSystem, mName, systemName, nameAt>>

\* strncpy, up to its middle ...
CopyHead(by) ==
    /\ naming[by].step = "head"
    /\ mName' = [mName EXCEPT ![naming[by].on][1] = naming[by].name[1]]
    /\ naming' = [naming EXCEPT ![by].step = "tail"]
    /\ UNCHANGED <<nameSystem, systemName, nameAt, given, unshown>>

\* ... and to its end.
CopyTail(by) ==
    /\ naming[by].step = "tail"
    /\ mName' = [mName EXCEPT ![naming[by].on][2] = naming[by].name[2]]
    /\ naming' = [naming EXCEPT ![by].step = "system"]
    /\ UNCHANGED <<nameSystem, systemName, nameAt, given, unshown>>

\* prctl has room for the first 15 characters.
LinuxName(n) == <<n[1], "">>

\* Internal::SetThreadName, with what mName is by now.
TellUnix(by) ==
    LET t == naming[by].on
    IN  systemName' =
          IF OnlyOneself /\ by # t THEN systemName
          ELSE [systemName EXCEPT ![t] = IF nameSystem = "linux" THEN LinuxName(mName[t]) ELSE mName[t]]

TellKettle(by) == systemName' = [systemName EXCEPT ![naming[by].on] = mName[naming[by].on]]

\* An empty name is not told.
TellWindows(by) ==
    systemName' = [systemName EXCEPT ![naming[by].on] = IF mName[naming[by].on][1] = "" THEN @ ELSE mName[naming[by].on]]

TellSystem(by) ==
    /\ naming[by].step = "system"
    /\ CASE nameSystem \in {"linux", "apple", "bsd"} -> TellUnix(by)
         [] nameSystem = "kettle" -> TellKettle(by)
         [] nameSystem = "windows" -> TellWindows(by)
    /\ naming' = [naming EXCEPT ![by] = NotNaming]
    /\ UNCHANGED <<nameSystem, mName, nameAt, given, unshown>>

-----------------------------------------------------------------------------
NamesNext ==
    \/ \E t \in NamedThreads :
          \/ \E n \in Names : BeginNamed(t, n)
          \/ Resumes(t) \/ StartNamed(t)
          \/ \E by \in NamedThreads \cup {Namer}, n \in Names : SetThreadName(by, t, n)
    \/ \E by \in NamedThreads \cup {Namer} : CopyHead(by) \/ CopyTail(by) \/ TellSystem(by)

NamesTypeOK ==
    /\ nameSystem \in NameSystems
    /\ mName \in [NamedThreads -> {"", "a", "b"} \X {"", "x"}]
    /\ systemName \in [NamedThreads -> {"", "a", "b"} \X {"", "x"}]
    /\ nameAt \in [NamedThreads -> {"unborn", "suspended", "created", "running"}]
    /\ unshown \subseteq NamedThreads

\* Once nobody is naming a thread any more, its data has the whole of the name
\* it was given last, and the system shows as much of that as it has room for,
\* whichever of Begin and the new thread was first; except a name that somebody
\* else gave where only the thread could (eathread_unix.cpp:466-469).
NamesAgree ==
    \A t \in NamedThreads : nameAt[t] = "running" /\ Unnamed(t) =>
        /\ mName[t] = given[t]
        /\ t \notin unshown /\ mName[t] # NoName =>
             systemName[t] = IF nameSystem = "linux" THEN LinuxName(mName[t]) ELSE mName[t]
=============================================================================
