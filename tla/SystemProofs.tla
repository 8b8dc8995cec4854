---------------------------- MODULE SystemProofs ----------------------------
(***************************************************************************)
(* Proofs about MCSystem: for any platforms, any number of threads,        *)
(* processors, priorities, names, handles and timer queues, and any clock. *)
(***************************************************************************)
EXTENDS MCSystem, FiniteSetTheorems, WellFoundedInduction, TLAPS

\* A step of the system is a step of each subject, or leaves it alone.
LEMMA OneSubjectMoves ==
    ASSUME [Next]_allVars
    PROVE  /\ [ProcessorsNext]_processorVars /\ [PrioritiesNext]_priorityVars /\ [NamesNext]_nameVars
           /\ [HandlesNext]_handleVars /\ [SelectionNext]_selectionVars
           /\ [TimeNext]_timeVars /\ [SleepNext]_sleepVars
<1>1. CASE UNCHANGED allVars
  BY <1>1 DEF allVars
<1>2. CASE Next
  BY <1>2 DEF Next
<1> QED
  BY <1>1, <1>2

-----------------------------------------------------------------------------
(* Priorities.                                                             *)

\* The priority a thread has is what its number was converted to by the means it
\* was set with, and nothing but SetThreadPriority of Linux refuses a number.
PriorityInv ==
    /\ PrioritiesTypeOK
    /\ \A t \in PriorityThreads : wanted[t] # Unset =>
          native[t] = ToNative(means[t], wanted[t]) /\ Valid(native[t])
    /\ PrioritiesAreAccepted

\* The levels of Windows: the least that is not lower.
LEMMA LeastLevel ==
    ASSUME NEW n \in Int
    PROVE  WindowsLevel(n) = IF n >= WindowsCritical THEN WindowsCritical
                             ELSE IF n <= -WindowsCritical THEN -WindowsCritical
                             ELSE IF n < -WindowsHighest THEN -WindowsHighest
                             ELSE IF n <= WindowsHighest THEN n ELSE WindowsCritical
<1> USE PrioritiesAssumption
<1>1. CASE n >= WindowsCritical \/ n <= -WindowsCritical
  BY <1>1 DEF WindowsLevel
<1>2. CASE n < WindowsCritical /\ n > -WindowsCritical
  <2> DEFINE least == IF n < -WindowsHighest THEN -WindowsHighest
                      ELSE IF n <= WindowsHighest THEN n ELSE WindowsCritical
             IsLeast(m) == m \in WindowsLevels /\ m >= n /\ \A k \in WindowsLevels : k >= n => m <= k
  <2>1. least \in WindowsLevels /\ WindowsLevels \subseteq Int
    BY <1>2 DEF WindowsLevels
  <2>2. IsLeast(least)
    BY <1>2, <2>1 DEF WindowsLevels
  <2>3. \A m : IsLeast(m) => m = least
    BY <2>1, <2>2
  <2>4. WindowsLevel(n) = CHOOSE m : IsLeast(m)
    <3>1. WindowsLevel(n) = CHOOSE m \in WindowsLevels : m >= n /\ \A k \in WindowsLevels : k >= n => m <= k
      BY <1>2 DEF WindowsLevel
    <3> QED
      BY <3>1
  <2> HIDE DEF least, IsLeast
  <2>5. WindowsLevel(n) = least
    BY <2>2, <2>3, <2>4
  <2> QED
    BY <1>2, <2>5 DEF least
<1> QED
  BY <1>1, <1>2

LEMMA MiddleIsBetween ==
    /\ Middle \in Int /\ NativeMin <= Middle /\ Middle <= NativeMax
    /\ NativeMin \in Int /\ NativeMax \in Int /\ NativeMin > 0
    /\ (SchedMin + SchedMax) \div 2 = Middle
    /\ AdjustDir = IF prioritySystem = "posix_down" THEN -1 ELSE 1
<1> QED
  BY PrioritiesAssumption DEF Middle, SchedMin, SchedMax, AdjustDir

\* What a number is converted to, by each system.
LEMMA NativeIs ==
    ASSUME prioritySystem \in PrioritySystems, NEW by \in Means, NEW n \in Int
    PROVE  /\ prioritySystem = "linux" =>
                 ToNative(by, n) = IF by = "object" \/ n <= 0 THEN [policy |-> "other", level |-> 0] ELSE [policy |-> "rr", level |-> n]
           /\ prioritySystem = "posix" =>
                 ToNative(by, n) = [policy |-> "fifo", level |-> Clamped(Middle + n, NativeMin, NativeMax)]
           /\ prioritySystem = "posix_down" =>
                 ToNative(by, n) = [policy |-> "fifo", level |-> Clamped(Middle - n, NativeMin, NativeMax)]
           /\ prioritySystem = "kettle" =>
                 ToNative(by, n) = [policy |-> "rr", level |-> Clamped(Middle - n, NativeMin, NativeMax)]
           /\ prioritySystem = "windows" => ToNative(by, n) = [policy |-> "other", level |-> WindowsLevel(n)]
<1>0. prioritySystem \in {"linux", "posix", "posix_down", "kettle", "windows"}
  BY PrioritiesAssumption
<1>1. CASE prioritySystem = "linux"
  BY <1>1 DEF ToNative, LinuxNative, kThreadPriorityDefault, TimeShared, Posix
<1>2. CASE prioritySystem \in {"posix", "posix_down"}
  BY <1>2, MiddleIsBetween DEF ToNative, PosixNative, Posix
<1>3. CASE prioritySystem = "kettle"
  BY <1>3, MiddleIsBetween DEF ToNative, KettleNative, Posix
<1>4. CASE prioritySystem = "windows"
  BY <1>4 DEF ToNative, WindowsNative, Posix
<1> QED
  BY <1>0, <1>1, <1>2, <1>3, <1>4

\* The answers of the system, one by one.
LEMMA ValidMeans ==
    ASSUME NEW p
    PROVE  /\ p.policy = "other" /\ prioritySystem = "windows" => Valid(p)
           /\ p.policy = "other" /\ p.level = 0 => Valid(p)
           /\ p.policy \in {"rr", "fifo"} /\ p.level \in Levels => Valid(p)
<1>1. ASSUME p.policy = "other", prioritySystem = "windows" \/ p.level = 0 PROVE Valid(p)
  BY <1>1 DEF Valid
<1>2. ASSUME p.policy \in {"rr", "fifo"}, p.level \in Levels PROVE Valid(p)
  BY <1>2 DEF Valid
<1> QED
  BY <1>1, <1>2

LEMMA RunsBeforeMeans ==
    ASSUME NEW p, NEW q, RunsBefore(p, q)
    PROVE  /\ p.policy # q.policy => q.policy = "other"
           /\ p.policy = q.policy =>
                 IF prioritySystem \in {"posix_down", "kettle"} THEN p.level < q.level ELSE p.level > q.level
<1>1. CASE p.policy = q.policy
  BY <1>1 DEF RunsBefore
<1>2. CASE p.policy # q.policy
  BY <1>2 DEF RunsBefore
<1> QED
  BY <1>1, <1>2

\* Numbers are converted to levels of the system.
LEMMA NativeIsTyped ==
    ASSUME prioritySystem \in PrioritySystems, NEW by \in Means, NEW n \in Int
    PROVE  /\ ToNative(by, n) \in [policy : {"other", "rr", "fifo"}, level : Int]
           /\ prioritySystem # "linux" \/ by = "object" => Valid(ToNative(by, n))
<1>0. prioritySystem \in {"linux", "posix", "posix_down", "kettle", "windows"}
  BY PrioritiesAssumption
<1>1. CASE prioritySystem = "linux"
  BY <1>1, NativeIs, ValidMeans
<1>2. CASE prioritySystem \in {"posix", "posix_down", "kettle"}
  BY <1>2, NativeIs, ValidMeans, MiddleIsBetween DEF Clamped, Levels
<1>3. CASE prioritySystem = "windows"
  BY <1>3, NativeIs, LeastLevel, ValidMeans, PrioritiesAssumption
<1> QED
  BY <1>0, <1>1, <1>2, <1>3

\* The conversion of what a thread is said to have gives what it has.
LEMMA ConversionsReadBack ==
    ASSUME prioritySystem \in PrioritySystems, NEW t, NEW by \in Means, NEW n \in Int, native[t] = ToNative(by, n)
    PROVE  ToNative(by, PriorityOf(t)) = native[t]
<1>0. prioritySystem \in {"linux", "posix", "posix_down", "kettle", "windows"}
  BY PrioritiesAssumption
<1>1. CASE prioritySystem = "linux"
  <2>1. PriorityOf(t) = IF by = "object" \/ n <= 0 THEN 0 ELSE n
    BY <1>1, NativeIs DEF PriorityOf, LinuxPriority, kThreadPriorityDefault, Posix
  <2> QED
    BY <1>1, <2>1, NativeIs
<1>2. CASE prioritySystem \in {"posix", "posix_down"}
  <2>1. native[t].policy = "fifo" /\ native[t].level \in NativeMin .. NativeMax
    BY <1>2, NativeIs, MiddleIsBetween DEF Clamped
  <2>2. PriorityOf(t) = IF prioritySystem = "posix_down" THEN Middle - native[t].level ELSE native[t].level - Middle
    BY <1>2, <2>1, MiddleIsBetween DEF PriorityOf, PosixPriority, Posix
  <2>3. PriorityOf(t) \in Int /\ ToNative(by, PriorityOf(t)) = [policy |-> "fifo", level |-> native[t].level]
    BY <1>2, <2>1, <2>2, NativeIs, MiddleIsBetween DEF Clamped
  <2> QED
    BY <1>2, <2>3, NativeIs
<1>3. CASE prioritySystem = "kettle"
  <2>1. native[t].policy = "rr" /\ native[t].level \in NativeMin .. NativeMax
    BY <1>3, NativeIs, MiddleIsBetween DEF Clamped
  <2>2. PriorityOf(t) = Middle - native[t].level
    BY <1>3, <2>1, MiddleIsBetween DEF PriorityOf, KettlePriority, Posix
  <2>3. PriorityOf(t) \in Int /\ ToNative(by, PriorityOf(t)) = [policy |-> "rr", level |-> native[t].level]
    BY <1>3, <2>1, <2>2, NativeIs, MiddleIsBetween DEF Clamped
  <2> QED
    BY <1>3, <2>3, NativeIs
<1>4. CASE prioritySystem = "windows"
  <2>1. PriorityOf(t) = WindowsLevel(n)
    BY <1>4, NativeIs, LeastLevel, PrioritiesAssumption DEF PriorityOf, WindowsPriority, kThreadPriorityDefault, Posix
  <2>2. WindowsLevel(n) \in Int
    BY LeastLevel, PrioritiesAssumption
  <2>3. WindowsLevel(WindowsLevel(n)) = WindowsLevel(n)
    BY <2>2, LeastLevel, PrioritiesAssumption
  <2> QED
    BY <1>4, <2>1, <2>2, <2>3, NativeIs
<1> QED
  BY <1>0, <1>1, <1>2, <1>3, <1>4

\* The conversions keep the order.
LEMMA ConversionsKeepOrder ==
    ASSUME prioritySystem \in PrioritySystems, NEW by \in Means, NEW of \in Means, prioritySystem = "linux" => by = of,
           NEW m \in Int, NEW n \in Int, m < n
    PROVE  ~RunsBefore(ToNative(by, m), ToNative(of, n))
<1>0. prioritySystem \in {"linux", "posix", "posix_down", "kettle", "windows"}
  BY PrioritiesAssumption
<1>1. CASE prioritySystem = "linux"
  BY <1>1, NativeIs, RunsBeforeMeans
<1>2. CASE prioritySystem \in {"posix", "posix_down", "kettle"}
  BY <1>2, NativeIs, MiddleIsBetween, RunsBeforeMeans DEF Clamped
<1>3. CASE prioritySystem = "windows"
  <2>1. WindowsLevel(m) <= WindowsLevel(n)
    BY LeastLevel, PrioritiesAssumption
  <2>2. WindowsLevel(m) \in Int /\ WindowsLevel(n) \in Int
    BY LeastLevel, PrioritiesAssumption
  <2> QED
    BY <1>3, <2>1, <2>2, NativeIs, RunsBeforeMeans
<1> QED
  BY <1>0, <1>1, <1>2, <1>3

LEMMA PrioritiesGoOn ==
    ASSUME PriorityInv, [PrioritiesNext]_priorityVars
    PROVE  PriorityInv'
<1> USE DEF PriorityInv
<1>1. CASE UNCHANGED priorityVars
  <2>1. /\ \A by, n : ToNative(by, n)' = ToNative(by, n)
        /\ \A t : Valid(native[t])' = Valid(native[t])
    BY <1>1 DEF priorityVars, ToNative, PosixNative, AdjustDir, SchedMin, SchedMax, Valid
  <2> QED
    BY <1>1, <2>1 DEF priorityVars, PrioritiesTypeOK, PrioritiesAreAccepted
<1>2. ASSUME NEW t \in PriorityThreads,
             \/ BeginPlainly(t)
             \/ \E n \in Priorities : BeginWith(t, n) \/ \E by \in Means : SetPriority(t, by, n)
      PROVE  PriorityInv'
  <2>0. prioritySystem' = prioritySystem /\ prioritySystem \in PrioritySystems
    BY <1>2 DEF BeginPlainly, BeginWith, SetPriority, PrioritiesTypeOK
  <2>1. /\ \A by, n : ToNative(by, n)' = ToNative(by, n)
        /\ \A p : (Valid(p))' = Valid(p)
    BY <2>0 DEF ToNative, PosixNative, AdjustDir, SchedMin, SchedMax, Valid
  <2>2. CASE BeginPlainly(t)
    <3>1. wanted[t] = Unset
      <4>1. ASSUME wanted[t] # Unset PROVE FALSE
        <5>1. native[t] = ToNative(means[t], wanted[t]) /\ wanted[t] \in Int /\ means[t] \in Means
          BY <4>1, PrioritiesAssumption DEF PrioritiesTypeOK, Priorities
        <5>2. native[t].policy # "none"
          BY <2>0, <5>1, NativeIsTyped
        <5> QED
          BY <2>2, <5>2 DEF BeginPlainly, NotBegun
      <4> QED
        BY <4>1
    <3>2. PrioritiesTypeOK'
      BY <2>0, <2>2, MiddleIsBetween DEF BeginPlainly, PrioritiesTypeOK, TimeShared
    <3>3. \A u \in PriorityThreads : wanted'[u] # Unset =>
             native'[u] = ToNative(means'[u], wanted'[u]) /\ Valid(native'[u])
      BY <2>2, <3>1 DEF BeginPlainly, PrioritiesTypeOK
    <3> QED
      BY <2>0, <2>1, <2>2, <3>2, <3>3 DEF BeginPlainly, PrioritiesAreAccepted, Unset
  <2>3. ASSUME NEW n \in Priorities, NEW by \in Means, Asks(t, by, n),
               prioritySystem = "linux" /\ ~Valid(ToNative(by, n)) => by = "function"
        PROVE  PriorityInv'
    <3>0. n \in Int
      BY PrioritiesAssumption DEF Priorities
    <3>1. ToNative(by, n) \in [policy : {"other", "rr", "fifo"}, level : Int]
          /\ (~Valid(ToNative(by, n)) => prioritySystem = "linux" /\ by = "function")
      BY <2>0, <2>3, <3>0, NativeIsTyped
    <3>2. CASE Valid(ToNative(by, n))
      <4>1. /\ native' = [native EXCEPT ![t] = ToNative(by, n)] /\ wanted' = [wanted EXCEPT ![t] = n]
            /\ means' = [means EXCEPT ![t] = by] /\ refusals' = refusals \ ({t} \X Means)
        BY <2>3, <3>2 DEF Asks
      <4>2. refusals' \subseteq refusals
        BY <4>1, Zenon
      <4>3. PrioritiesTypeOK'
        BY <2>0, <3>1, <4>1, <4>2 DEF PrioritiesTypeOK
      <4>4. \A u \in PriorityThreads : wanted'[u] # Unset =>
               native'[u] = ToNative(means'[u], wanted'[u]) /\ Valid(native'[u])
        BY <3>2, <4>1 DEF PrioritiesTypeOK
      <4>5. PrioritiesAreAccepted'
        BY <2>0, <4>2 DEF PrioritiesAreAccepted
      <4> QED
        BY <2>1, <4>3, <4>4, <4>5 DEF Unset
    <3>3. CASE ~Valid(ToNative(by, n))
      <4>1. /\ native' = native /\ wanted' = wanted /\ means' = means /\ refusals' = refusals \cup {<<t, by>>}
            /\ prioritySystem = "linux" /\ by = "function"
        BY <2>3, <3>1, <3>3 DEF Asks
      <4>2. PrioritiesTypeOK'
        BY <2>0, <4>1 DEF PrioritiesTypeOK
      <4>3. \A u \in PriorityThreads : wanted'[u] # Unset =>
               native'[u] = ToNative(means'[u], wanted'[u]) /\ Valid(native'[u])
        BY <4>1
      <4>4. PrioritiesAreAccepted'
        BY <2>0, <4>1 DEF PrioritiesAreAccepted
      <4> QED
        BY <2>1, <4>2, <4>3, <4>4 DEF Unset
    <3> QED
      BY <3>2, <3>3
  <2>4. ASSUME NEW n \in Priorities, BeginWith(t, n) PROVE PriorityInv'
    <3>1. Asks(t, "object", n) /\ "object" \in Means /\ n \in Int
      BY <2>4, PrioritiesAssumption DEF BeginWith, Means, Priorities
    <3>2. Valid(ToNative("object", n))
      BY <2>0, <3>1, NativeIsTyped
    <3> QED
      BY <2>3, <3>1, <3>2
  <2>5. ASSUME NEW n \in Priorities, NEW by \in Means, SetPriority(t, by, n) PROVE PriorityInv'
    <3>1. Asks(t, by, n) /\ n \in Int
      BY <2>5, PrioritiesAssumption DEF SetPriority, Priorities
    <3>2. ~Valid(ToNative(by, n)) => by = "function"
      BY <2>0, <3>1, NativeIsTyped DEF Means
    <3> QED
      BY <2>3, <3>1, <3>2
  <2> QED
    BY <1>2, <2>2, <2>4, <2>5
<1> QED
  BY <1>1, <1>2 DEF PrioritiesNext

LEMMA PrioritiesBegin == PrioritiesInit => PriorityInv
<1> QED
  BY DEF PrioritiesInit, PriorityInv, PrioritiesTypeOK, NotBegun, PrioritiesAreAccepted, Means

LEMMA PriorityInvKeeps == PriorityInv => PrioritiesAreKept
<1> SUFFICES ASSUME PriorityInv PROVE PrioritiesAreKept
  OBVIOUS
<1> USE DEF PriorityInv
<1>1. /\ prioritySystem \in PrioritySystems /\ \A t \in PriorityThreads : means[t] \in Means
      /\ \A t \in PriorityThreads : wanted[t] # Unset => wanted[t] \in Int
  BY PrioritiesAssumption DEF PrioritiesTypeOK, Priorities
<1>2. PrioritiesAreOrdered
  <2>1. ASSUME NEW t \in PriorityThreads, NEW u \in PriorityThreads,
               Unset \notin {wanted[t], wanted[u]}, wanted[t] < wanted[u],
               prioritySystem = "linux" => means[t] = means[u]
        PROVE  ~RunsBefore(native[t], native[u])
    <3>1. native[t] = ToNative(means[t], wanted[t]) /\ native[u] = ToNative(means[u], wanted[u])
      BY <2>1
    <3> QED
      BY <1>1, <2>1, <3>1, ConversionsKeepOrder
  <2> QED
    BY <2>1 DEF PrioritiesAreOrdered
<1>3. PrioritiesReadBack
  BY <1>1, ConversionsReadBack DEF PrioritiesReadBack
<1> QED
  BY <1>2, <1>3 DEF PrioritiesAreKept

-----------------------------------------------------------------------------
(* Handles.                                                                *)

\* The steps of SetCurrentThreadHandle before the array is looked through, and
\* those of adding and of removing a handle.
ToCheck == {"check", "init lock", "init", "initialized", "check enter", "check locked"}
ToAdd == {"add enter", "add locked"}
ToRemove == {"remove enter", "remove locked"}

HandleTypes ==
    /\ HandlesTypeOK
    /\ doing \in [HandleThreads -> [step : ToCheck \cup ToAdd \cup ToRemove \cup {"idle", "set", "release", "exit"},
                                    h : Handles \cup {kThreadIdInvalid}, dynamic : BOOLEAN,
                                    after : {"idle", "release", "exit"}]]
    /\ dynamicData \in [LibraryThreads -> [h : Handles \cup {kThreadIdInvalid},
                                           references : SUBSET {"thread", "object"}]]

\* The array is written only once the flag says that it was initialized.
ArrayInv ==
    /\ \A t \in HandleThreads :
          /\ doing[t].step \in {"init", "initialized"} => initFutex = t /\ ~mbDynamicThreadArrayInitialized
          /\ doing[t].step \in {"check enter", "check locked", "set"} \cup ToAdd \cup ToRemove
                => mbDynamicThreadArrayInitialized
    /\ ~mbDynamicThreadArrayInitialized => \A i \in Slots : mhDynamicThreadArray[i] = kThreadIdInvalid

\* Slot i has h, a handle of t.
SlotOf(t, i, h) == mhDynamicThreadArray[i] = h /\ handleOf[h] = t

\* The slots have handles of the threads of others, each of its own thread; data
\* that is referenced has the handle of its thread; and an open handle is
\* in a slot, in data, or carried by its thread.
PlacesInv ==
    /\ \A i \in Slots : mhDynamicThreadArray[i] # kThreadIdInvalid => handleOf[mhDynamicThreadArray[i]] \in ExternalThreads
    /\ \A t \in ExternalThreads, i \in Slots, j \in Slots, h \in Handles, k \in Handles :
          SlotOf(t, i, h) /\ SlotOf(t, j, k) => i = j
    /\ \A t \in LibraryThreads : dynamicData[t].references # {} =>
          dynamicData[t].h \in Handles /\ handleOf[dynamicData[t].h] = t
    /\ \A t \in HandleThreads, h \in Handles : handleOf[h] = t =>
          \/ \E i \in Slots : SlotOf(t, i, h)
          \/ t \in LibraryThreads /\ dynamicData[t].h = h /\ dynamicData[t].references # {}
          \/ Carries(t, h)

Slotless(t) == \A i \in Slots, h \in Handles : ~SlotOf(t, i, h)
InSlot(t, h) == h \in Handles /\ \E i \in Slots : SlotOf(t, i, h)

\* What a thread that lives and was begun by others is doing: it has no handle,
\* adds one, has added it, has it, gives it back before it ends, has given it back.
ExternalRight(t) ==
    \/ doing[t].step = "idle" /\ cached[t] = kThreadIdInvalid /\ Slotless(t)
    \/ /\ doing[t].step \in ToCheck \cup ToAdd /\ doing[t].dynamic /\ doing[t].after = "idle"
       /\ doing[t].h \in Handles /\ handleOf[doing[t].h] = t
       /\ cached[t] = kThreadIdInvalid /\ Slotless(t)
    \/ doing[t].step = "set" /\ doing[t].after = "idle" /\ InSlot(t, doing[t].h)
    \/ doing[t].step = "idle" /\ InSlot(t, cached[t])
    \/ /\ doing[t].step \in ToCheck \cup ToRemove /\ doing[t].dynamic /\ doing[t].after = "exit"
       /\ doing[t].h = kThreadIdInvalid /\ InSlot(t, cached[t])
    \/ /\ doing[t].step \in {"set", "exit"} /\ doing[t].after = "exit" /\ doing[t].h = kThreadIdInvalid

\* And one of the library: it caches its handle, has it, clears it before it
\* releases its data; or is in ThreadEnd, which has released that.
LibraryRight(t) ==
    \/ /\ doing[t].step \in ToCheck \cup {"set"} /\ ~doing[t].dynamic /\ doing[t].after = "idle"
       /\ doing[t].h = dynamicData[t].h /\ "thread" \in dynamicData[t].references
    \/ doing[t].step = "idle" /\ cached[t] = dynamicData[t].h /\ "thread" \in dynamicData[t].references
    \/ /\ doing[t].step \in ToCheck \cup {"set", "release"} /\ ~doing[t].dynamic /\ doing[t].after = "release"
       /\ doing[t].h = kThreadIdInvalid /\ "thread" \in dynamicData[t].references
    \/ /\ doing[t].step \in ToCheck \cup ToRemove /\ doing[t].dynamic /\ doing[t].after = "exit"
       /\ doing[t].h = kThreadIdInvalid /\ cached[t] = dynamicData[t].h
       /\ dynamicData[t].references = {"object"}
    \/ /\ doing[t].step \in {"set", "exit"} /\ doing[t].after = "exit" /\ doing[t].h = kThreadIdInvalid

ThreadRight(t) ==
    /\ life[t] # "alive" => doing[t] = Idle
    /\ t \in ExternalThreads => life[t] # "unborn" /\ (life[t] = "alive" => ExternalRight(t))
    /\ t \in LibraryThreads =>
          /\ life[t] = "unborn" => dynamicData[t].references = {}
          /\ life[t] = "alive" => LibraryRight(t)

HandleInv == HandleTypes /\ ArrayInv /\ PlacesInv /\ \A t \in HandleThreads : ThreadRight(t)

\* A thread is right as long as nobody touches what it has.
LEMMA OthersStayRight ==
    ASSUME NEW u \in HandleThreads, ThreadRight(u),
           doing'[u] = doing[u], cached'[u] = cached[u], life'[u] = life[u],
           u \in LibraryThreads => dynamicData'[u] = dynamicData[u],
           life[u] = "alive" /\ u \in ExternalThreads =>
              \A h \in Handles :
                 /\ handleOf[h] = u => handleOf'[h] = u
                 /\ \A i \in Slots : SlotOf(u, i, h)' <=> SlotOf(u, i, h)
    PROVE  ThreadRight(u)'
<1>1. ASSUME u \in ExternalThreads, life[u] = "alive" PROVE ExternalRight(u)'
  <2>1. ExternalRight(u) /\ Slotless(u)' = Slotless(u) /\ InSlot(u, doing[u].h)' = InSlot(u, doing[u].h)
        /\ InSlot(u, cached[u])' = InSlot(u, cached[u])
    BY <1>1 DEF ThreadRight, Slotless, InSlot
  <2> QED
    BY <1>1, <2>1 DEF ExternalRight
<1>2. ASSUME u \in LibraryThreads, life[u] = "alive" PROVE LibraryRight(u)'
  BY <1>2 DEF ThreadRight, LibraryRight
<1> QED
  BY <1>1, <1>2 DEF ThreadRight

\* Handles stay where they are when a thread goes on without them.
LEMMA PlacesStay ==
    ASSUME PlacesInv, UNCHANGED <<handleOf, mhDynamicThreadArray, dynamicData>>, NEW t \in HandleThreads,
           \A u \in HandleThreads \ {t} : doing'[u] = doing[u],
           \A h \in Handles : Carries(t, h) => Carries(t, h)' \/ InSlot(t, h)
    PROVE  PlacesInv'
<1>1. \A u, i, h : SlotOf(u, i, h)' = SlotOf(u, i, h)
  BY DEF SlotOf
<1>2. ASSUME NEW u \in HandleThreads, NEW h \in Handles, handleOf[h] = u, Carries(u, h)
      PROVE  Carries(u, h)' \/ \E i \in Slots : SlotOf(u, i, h)
  BY <1>2 DEF Carries, InSlot
<1>3. \A u \in HandleThreads, h \in Handles : handleOf[h] = u =>
          \/ \E i \in Slots : SlotOf(u, i, h)
          \/ u \in LibraryThreads /\ dynamicData[u].h = h /\ dynamicData[u].references # {}
          \/ Carries(u, h)'
  BY <1>2 DEF PlacesInv
<1> QED
  BY <1>1, <1>3 DEF PlacesInv

LEMMA HandlesBegin == HandlesInit => HandleInv
<1> SUFFICES ASSUME HandlesInit PROVE HandleInv
  OBVIOUS
<1> USE DEF HandlesInit, Idle
<1>0. Nobody \notin HandleThreads /\ ExternalThreads \subseteq HandleThreads /\ LibraryThreads \subseteq HandleThreads
      /\ kThreadIdInvalid \notin Handles
  BY HandlesAssumption DEF HandleThreads, Handles, kThreadIdInvalid
<1>1. HandleTypes
  BY <1>0 DEF HandleTypes, HandlesTypeOK
<1>2. ArrayInv
  BY DEF ArrayInv, ToAdd, ToRemove
<1>3. PlacesInv
  BY <1>0 DEF PlacesInv, SlotOf
<1>4. ASSUME NEW t \in HandleThreads PROVE ThreadRight(t)
  BY <1>0, HandlesAssumption DEF ThreadRight, ExternalRight, Slotless, SlotOf
<1> QED
  BY <1>1, <1>2, <1>3, <1>4 DEF HandleInv

LEMMA GotoMoves ==
    ASSUME HandleTypes, NEW t \in HandleThreads, NEW x, Goto(t, x)
    PROVE  /\ doing'[t].step = x /\ doing' = [doing EXCEPT ![t].step = doing'[t].step]
           /\ doing'[t].h = doing[t].h /\ doing'[t].dynamic = doing[t].dynamic /\ doing'[t].after = doing[t].after
           /\ \A u \in HandleThreads \ {t} : doing'[u] = doing[u]
<1>1. doing'[t].step = x
  BY DEF Goto, HandleTypes
<1> QED
  BY <1>1 DEF Goto, HandleTypes

LEMMA EnterIs ==
    ASSUME NEW t, Enter(t)
    PROVE  \/ At(t, "check enter") /\ Goto(t, "check locked")
           \/ At(t, "add enter") /\ Goto(t, "add locked")
           \/ At(t, "remove enter") /\ Goto(t, "remove locked")
<1>1. PICK step \in {<<"check enter", "check locked">>, <<"add enter", "add locked">>,
                     <<"remove enter", "remove locked">>} : At(t, step[1]) /\ Goto(t, step[2])
  BY DEF Enter
<1>2. CASE step = <<"check enter", "check locked">>
  <2>1. step[1] = "check enter" /\ step[2] = "check locked"
    BY <1>2
  <2> QED
    BY <1>1, <2>1
<1>3. CASE step = <<"add enter", "add locked">>
  <2>1. step[1] = "add enter" /\ step[2] = "add locked"
    BY <1>3
  <2> QED
    BY <1>1, <2>1
<1>4. CASE step = <<"remove enter", "remove locked">>
  <2>1. step[1] = "remove enter" /\ step[2] = "remove locked"
    BY <1>4
  <2> QED
    BY <1>1, <2>1
<1> QED
  BY <1>1, <1>2, <1>3, <1>4

\* A thread goes on in SetCurrentThreadHandle, or away from it, without a handle
\* being opened, closed or moved.
LEMMA HandlesWalk ==
    ASSUME HandleInv, NEW t \in HandleThreads,
           InitializeDone(t) \/ InitializeLock(t) \/ InitializeArray(t) \/ InitializeFlag(t) \/ Enter(t)
    PROVE  HandleInv'
<1> USE DEF HandleInv
<1> DEFINE s == doing'[t].step
<1>0. /\ ExternalThreads \subseteq HandleThreads /\ LibraryThreads \subseteq HandleThreads
      /\ Nobody \notin HandleThreads /\ ExternalThreads \cap LibraryThreads = {} /\ kThreadIdInvalid \notin Handles
  BY HandlesAssumption DEF HandleThreads, Handles, kThreadIdInvalid
<1>1. /\ life[t] = "alive" /\ UNCHANGED <<handleOf, cached, dynamicData, life>>
      /\ doing' = [doing EXCEPT ![t].step = s]
      /\ \/ doing[t].step \in ToCheck /\ s \in ToCheck
         \/ doing[t].step \in ToAdd /\ s \in ToAdd
         \/ doing[t].step \in ToRemove /\ s \in ToRemove
      /\ mhDynamicThreadArray' = mhDynamicThreadArray
  <2>1. CASE InitializeDone(t)
    BY <2>1, GotoMoves DEF InitializeDone, At, ToCheck
  <2>2. CASE InitializeLock(t)
    <3>1. CASE mbDynamicThreadArrayInitialized
      BY <2>2, <3>1, GotoMoves DEF InitializeLock, At, ToCheck
    <3>2. CASE ~mbDynamicThreadArrayInitialized
      BY <2>2, <3>2, GotoMoves DEF InitializeLock, At, ToCheck
    <3> QED
      BY <3>1, <3>2
  <2>3. CASE InitializeArray(t)
    <3>1. mhDynamicThreadArray = [i \in Slots |-> kThreadIdInvalid]
      BY <2>3 DEF InitializeArray, At, HandleTypes, HandlesTypeOK, ArrayInv
    <3> QED
      BY <2>3, <3>1, GotoMoves DEF InitializeArray, At, ToCheck
  <2>4. CASE InitializeFlag(t)
    BY <2>4, GotoMoves DEF InitializeFlag, At, ToCheck
  <2>5. CASE Enter(t)
    <3>1. /\ doing' = [doing EXCEPT ![t].step = doing'[t].step]
          /\ \/ doing[t].step = "check enter" /\ s = "check locked"
             \/ doing[t].step = "add enter" /\ s = "add locked"
             \/ doing[t].step = "remove enter" /\ s = "remove locked"
      BY <2>5, EnterIs, GotoMoves DEF At
    <3>2. life[t] = "alive"
      BY <2>5, EnterIs DEF At
    <3>3. \/ doing[t].step \in ToCheck /\ s \in ToCheck
          \/ doing[t].step \in ToAdd /\ s \in ToAdd
          \/ doing[t].step \in ToRemove /\ s \in ToRemove
      BY <3>1 DEF ToCheck, ToAdd, ToRemove
    <3> QED
      BY <2>5, <3>1, <3>2, <3>3 DEF Enter
  <2> QED
    BY <2>1, <2>2, <2>3, <2>4, <2>5
<1>2. /\ doing'[t].h = doing[t].h /\ doing'[t].dynamic = doing[t].dynamic /\ doing'[t].after = doing[t].after
      /\ \A u \in HandleThreads \ {t} : doing'[u] = doing[u]
  BY <1>1 DEF HandleTypes
<1>3. HandleTypes'
  <2>1. doing' \in [HandleThreads -> [step : ToCheck \cup ToAdd \cup ToRemove \cup {"idle", "set", "release", "exit"},
                                    h : Handles \cup {kThreadIdInvalid}, dynamic : BOOLEAN,
                                    after : {"idle", "release", "exit"}]]
    BY <1>1 DEF HandleTypes
  <2>2. /\ mbDynamicThreadArrayInitialized' \in BOOLEAN
        /\ initFutex' \in HandleThreads \cup {Nobody} /\ section' \in HandleThreads \cup {Nobody, "raw"}
    BY DEF InitializeDone, InitializeLock, InitializeArray, InitializeFlag, Enter, HandleTypes, HandlesTypeOK
  <2> QED
    BY <1>1, <2>1, <2>2 DEF HandleTypes, HandlesTypeOK
<1>4. ArrayInv'
  <2> DEFINE past == {"check enter", "check locked", "set"} \cup ToAdd \cup ToRemove
  <2> DEFINE Fine == /\ s \in {"init", "initialized"} => initFutex' = t /\ ~mbDynamicThreadArrayInitialized'
                     /\ s \in past => mbDynamicThreadArrayInitialized'
                     /\ mbDynamicThreadArrayInitialized => mbDynamicThreadArrayInitialized'
                     /\ \A u \in HandleThreads \ {t} : doing[u].step \in {"init", "initialized"} =>
                           initFutex' = initFutex /\ mbDynamicThreadArrayInitialized' = mbDynamicThreadArrayInitialized
  <2>1. ASSUME Fine PROVE ArrayInv'
    BY <1>1, <1>2, <2>1 DEF ArrayInv
  <2>2. CASE InitializeDone(t)
    <3>1. s = IF mbDynamicThreadArrayInitialized THEN "check enter" ELSE "init lock"
      BY <2>2, GotoMoves DEF InitializeDone
    <3>2. Fine
      BY <2>2, <3>1 DEF InitializeDone, ToAdd, ToRemove
    <3> QED
      BY <2>1, <3>2
  <2>3. CASE InitializeLock(t)
    <3>0. \A u \in HandleThreads : doing[u].step \notin {"init", "initialized"}
      BY <1>0, <2>3 DEF InitializeLock, ArrayInv
    <3>1. CASE mbDynamicThreadArrayInitialized
      <4>1. s = "check enter" /\ UNCHANGED mbDynamicThreadArrayInitialized
        BY <2>3, <3>1, GotoMoves DEF InitializeLock
      <4>2. Fine
        BY <3>0, <3>1, <4>1
      <4> QED
        BY <2>1, <4>2
    <3>2. CASE ~mbDynamicThreadArrayInitialized
      <4>1. s = "init" /\ initFutex' = t /\ UNCHANGED mbDynamicThreadArrayInitialized
        BY <2>3, <3>2, GotoMoves DEF InitializeLock
      <4>2. Fine
        BY <3>0, <3>2, <4>1 DEF ToAdd, ToRemove
      <4> QED
        BY <2>1, <4>2
    <3> QED
      BY <3>1, <3>2
  <2>4. CASE InitializeArray(t)
    <3>1. initFutex = t /\ ~mbDynamicThreadArrayInitialized
      BY <2>4 DEF InitializeArray, At, ArrayInv
    <3>2. s = "initialized" /\ UNCHANGED <<initFutex, mbDynamicThreadArrayInitialized>>
      BY <2>4, GotoMoves DEF InitializeArray
    <3>3. Fine
      BY <3>1, <3>2 DEF ToAdd, ToRemove
    <3> QED
      BY <2>1, <3>3
  <2>5. CASE InitializeFlag(t)
    <3>1. initFutex = t
      BY <2>5 DEF InitializeFlag, At, ArrayInv
    <3>2. \A u \in HandleThreads \ {t} : doing[u].step \notin {"init", "initialized"}
      BY <3>1 DEF ArrayInv
    <3>3. s = "check enter" /\ mbDynamicThreadArrayInitialized'
      BY <2>5, GotoMoves DEF InitializeFlag
    <3>4. Fine
      BY <3>2, <3>3
    <3> QED
      BY <2>1, <3>4
  <2>6. CASE Enter(t)
    <3>1. \/ doing[t].step = "check enter" /\ s = "check locked"
          \/ doing[t].step = "add enter" /\ s = "add locked"
          \/ doing[t].step = "remove enter" /\ s = "remove locked"
      BY <2>6, EnterIs, GotoMoves DEF At
    <3>3. doing[t].step \in past /\ s \notin {"init", "initialized"}
      BY <3>1 DEF ToAdd, ToRemove
    <3>4. mbDynamicThreadArrayInitialized
      BY <3>3 DEF ArrayInv
    <3>5. Fine
      BY <2>6, <3>3, <3>4 DEF Enter
    <3> QED
      BY <2>1, <3>5
  <2> QED
    BY <2>2, <2>3, <2>4, <2>5, <2>6
<1>5. PlacesInv'
  <2>1. \A h \in Handles : Carries(t, h) => Carries(t, h)'
    BY <1>1, <1>2 DEF Carries, ToCheck, ToAdd, ToRemove
  <2> QED
    BY <1>1, <1>2, <2>1, PlacesStay
<1>6. ThreadRight(t)'
  <2>1. /\ Slotless(t)' = Slotless(t) /\ \A h : InSlot(t, h)' = InSlot(t, h)
    BY <1>1 DEF Slotless, InSlot, SlotOf
  <2>2. ASSUME t \in ExternalThreads PROVE ExternalRight(t)'
    <3>1. ExternalRight(t)
      BY <1>1, <2>2 DEF ThreadRight
    <3> QED
      BY <1>1, <1>2, <2>1, <3>1 DEF ExternalRight, ToCheck, ToAdd, ToRemove
  <2>3. ASSUME t \in LibraryThreads PROVE LibraryRight(t)'
    <3>1. LibraryRight(t)
      BY <1>1, <2>3 DEF ThreadRight
    <3> QED
      BY <1>1, <1>2, <3>1 DEF LibraryRight, ToCheck, ToAdd, ToRemove
  <2> QED
    BY <1>1, <2>2, <2>3 DEF ThreadRight
<1>7. ASSUME NEW u \in HandleThreads \ {t} PROVE ThreadRight(u)'
  <2>1. \A h \in Handles, i \in Slots : SlotOf(u, i, h)' <=> SlotOf(u, i, h)
    BY <1>1 DEF SlotOf
  <2> QED
    BY <1>1, <1>2, <2>1, OthersStayRight
<1> QED
  BY <1>3, <1>4, <1>5, <1>6, <1>7

\* The array's flag and futex are left alone.
LEMMA ArrayStays ==
    ASSUME ArrayInv, NEW t \in HandleThreads, UNCHANGED <<mbDynamicThreadArrayInitialized, initFutex>>,
           \A u \in HandleThreads \ {t} : doing'[u] = doing[u],
           mhDynamicThreadArray' = mhDynamicThreadArray \/ mbDynamicThreadArrayInitialized,
           doing'[t].step \notin {"init", "initialized"},
           doing'[t].step \in {"check enter", "check locked", "set"} \cup ToAdd \cup ToRemove
              => mbDynamicThreadArrayInitialized
    PROVE  ArrayInv'
<1> QED
  BY DEF ArrayInv

\* The caches and the lives change, the handles do not.
LEMMA HandlesRest ==
    ASSUME HandleInv, NEW t \in HandleThreads, SetTls(t) \/ Exit(t) \/ (t \in LibraryThreads /\ RunReturns(t))
                                               \/ (t \in ExternalThreads /\ ThreadEnd(t))
    PROVE  HandleInv'
<1> USE DEF HandleInv
<1>0. /\ ExternalThreads \subseteq HandleThreads /\ LibraryThreads \subseteq HandleThreads
      /\ Nobody \notin HandleThreads /\ ExternalThreads \cap LibraryThreads = {} /\ kThreadIdInvalid \notin Handles
  BY HandlesAssumption DEF HandleThreads, Handles, kThreadIdInvalid
<1>1. /\ life[t] = "alive"
      /\ UNCHANGED <<handleOf, mhDynamicThreadArray, mbDynamicThreadArrayInitialized, initFutex, section, dynamicData>>
  BY <1>0 DEF SetTls, Exit, RunReturns, ThreadEnd, At
<1>2. \A u, i, h : SlotOf(u, i, h)' = SlotOf(u, i, h)
  BY <1>1 DEF SlotOf
<1>3. ASSUME HandleTypes', ThreadRight(t)',
             \A u \in HandleThreads \ {t} : doing'[u] = doing[u] /\ cached'[u] = cached[u] /\ life'[u] = life[u],
             doing'[t].step \in {"idle", "check", "release", "exit"},
             \A h \in Handles : Carries(t, h) => InSlot(t, h)
      PROVE  HandleInv'
  <2>1. ArrayInv'
    BY <1>1, <1>3, ArrayStays DEF ToAdd, ToRemove
  <2>2. PlacesInv'
    BY <1>1, <1>3, PlacesStay
  <2>3. ASSUME NEW u \in HandleThreads \ {t} PROVE ThreadRight(u)'
    BY <1>1, <1>2, <1>3, OthersStayRight
  <2> QED
    BY <1>3, <2>1, <2>2, <2>3
<1>4. /\ Slotless(t)' = Slotless(t) /\ \A h : InSlot(t, h)' = InSlot(t, h)
  BY <1>2 DEF Slotless, InSlot
<1>5. CASE SetTls(t)
  <2>1. /\ doing[t].step = "set" /\ doing'[t].step = doing[t].after /\ life' = life
        /\ cached' = [cached EXCEPT ![t] = doing[t].h]
        /\ doing' = [doing EXCEPT ![t].step = doing'[t].step]
        /\ doing'[t].h = doing[t].h /\ doing'[t].dynamic = doing[t].dynamic /\ doing'[t].after = doing[t].after
        /\ \A u \in HandleThreads \ {t} : doing'[u] = doing[u]
    BY <1>5, GotoMoves DEF SetTls, At
  <2>2. cached'[t] = doing[t].h /\ \A u \in HandleThreads \ {t} : cached'[u] = cached[u]
    BY <2>1 DEF HandleTypes, HandlesTypeOK
  <2>3. HandleTypes'
    <3>1. doing[t].after \in {"idle", "release", "exit"} /\ doing[t].h \in Handles \cup {kThreadIdInvalid}
      BY DEF HandleTypes
    <3> QED
      BY <1>1, <2>1, <3>1 DEF HandleTypes, HandlesTypeOK
  <2>4. ASSUME t \in ExternalThreads PROVE ExternalRight(t)'
    <3>1. ExternalRight(t)
      BY <1>1, <2>4 DEF ThreadRight
    <3> QED
      BY <1>4, <2>1, <2>2, <3>1 DEF ExternalRight, ToCheck, ToAdd, ToRemove
  <2>5. ASSUME t \in LibraryThreads PROVE LibraryRight(t)'
    <3>1. LibraryRight(t)
      BY <1>1, <2>5 DEF ThreadRight
    <3> QED
      BY <1>1, <2>1, <2>2, <3>1 DEF LibraryRight, ToCheck, ToAdd, ToRemove
  <2>6. ThreadRight(t)'
    BY <1>1, <2>1, <2>4, <2>5 DEF ThreadRight
  <2>7. \A h \in Handles : ~Carries(t, h)
    BY <2>1 DEF Carries
  <2>8. doing'[t].step \in {"idle", "check", "release", "exit"}
    BY <2>1 DEF HandleTypes
  <2> QED
    BY <1>3, <2>1, <2>2, <2>3, <2>6, <2>7, <2>8
<1>6. CASE Exit(t)
  <2>1. /\ life' = [life EXCEPT ![t] = "exited"] /\ doing' = [doing EXCEPT ![t] = Idle] /\ cached' = cached
        /\ doing[t].step \in {"idle", "exit"}
    BY <1>6 DEF Exit, At
  <2>2. /\ life'[t] = "exited" /\ doing'[t] = Idle
        /\ \A u \in HandleThreads \ {t} : doing'[u] = doing[u] /\ life'[u] = life[u]
    BY <2>1 DEF HandleTypes, HandlesTypeOK
  <2>3. HandleTypes'
    BY <1>1, <2>1 DEF HandleTypes, HandlesTypeOK, Idle
  <2>4. ThreadRight(t)'
    BY <2>2 DEF ThreadRight
  <2>5. \A h \in Handles : ~Carries(t, h)
    BY <2>1 DEF Carries
  <2> QED
    BY <1>3, <2>1, <2>2, <2>3, <2>4, <2>5 DEF Idle
<1>7. CASE (t \in LibraryThreads /\ RunReturns(t)) \/ (t \in ExternalThreads /\ ThreadEnd(t))
  <2>0. PICK dynamic \in BOOLEAN, after \in {"release", "exit"} :
           /\ SetCurrentThreadHandle(t, kThreadIdInvalid, dynamic, after)
           /\ t \in LibraryThreads => ~dynamic /\ after = "release"
           /\ t \in ExternalThreads => dynamic /\ after = "exit"
    BY <1>0, <1>7 DEF RunReturns, ThreadEnd
  <2>1. /\ doing[t].step = "idle" /\ cached[t] # kThreadIdInvalid /\ UNCHANGED <<cached, life>>
        /\ doing' = [doing EXCEPT ![t] = [step |-> "check", h |-> kThreadIdInvalid, dynamic |-> dynamic, after |-> after]]
    BY <1>7, <2>0 DEF RunReturns, ThreadEnd, At, SetCurrentThreadHandle
  <2>2. /\ doing'[t] = [step |-> "check", h |-> kThreadIdInvalid, dynamic |-> dynamic, after |-> after]
        /\ \A u \in HandleThreads \ {t} : doing'[u] = doing[u]
    BY <2>1 DEF HandleTypes
  <2>3. HandleTypes'
    BY <1>1, <2>1 DEF HandleTypes, HandlesTypeOK, ToCheck
  <2>4. ASSUME t \in ExternalThreads PROVE ExternalRight(t)'
    <3>1. ExternalRight(t)
      BY <1>1, <2>4 DEF ThreadRight
    <3>2. InSlot(t, cached[t])
      BY <2>1, <3>1 DEF ExternalRight, ToCheck, ToAdd, ToRemove
    <3>3. InSlot(t, cached[t])' /\ cached'[t] = cached[t]
      BY <1>4, <2>1, <3>2
    <3>4. /\ doing'[t].step = "check" /\ doing'[t].dynamic /\ doing'[t].after = "exit"
          /\ doing'[t].h = kThreadIdInvalid
      BY <2>0, <2>2, <2>4
    <3> QED
      BY <3>3, <3>4 DEF ExternalRight, ToCheck
  <2>5. ASSUME t \in LibraryThreads PROVE LibraryRight(t)'
    <3>1. LibraryRight(t)
      BY <1>1, <2>5 DEF ThreadRight
    <3>2. "thread" \in dynamicData[t].references
      BY <2>1, <3>1 DEF LibraryRight, ToCheck, ToAdd, ToRemove
    <3>3. /\ doing'[t].step = "check" /\ ~doing'[t].dynamic /\ doing'[t].after = "release"
          /\ doing'[t].h = kThreadIdInvalid
      BY <2>0, <2>2, <2>5
    <3> QED
      BY <1>1, <3>2, <3>3 DEF LibraryRight, ToCheck
  <2>6. ThreadRight(t)'
    BY <1>1, <2>1, <2>4, <2>5 DEF ThreadRight
  <2>7. \A h \in Handles : ~Carries(t, h)
    BY <2>1 DEF Carries
  <2> QED
    BY <1>3, <2>1, <2>2, <2>3, <2>6, <2>7
<1> QED
  BY <1>5, <1>6, <1>7

\* Who carries a handle is begun by others, has it to itself, and no slot yet.
LEMMA CarriersAreRight ==
    ASSUME HandleInv, NEW t \in HandleThreads, NEW h \in Handles, Carries(t, h)
    PROVE  t \in ExternalThreads /\ handleOf[h] = t /\ Slotless(t) /\ life[t] = "alive"
<1> USE DEF Carries, HandleInv
<1>0. kThreadIdInvalid \notin Handles /\ HandleThreads = ExternalThreads \cup LibraryThreads
  BY DEF Handles, kThreadIdInvalid, HandleThreads
<1>1. life[t] = "alive"
  BY DEF ThreadRight, Idle
<1>2. ASSUME t \in LibraryThreads PROVE FALSE
  <2>1. LibraryRight(t)
    BY <1>1, <1>2 DEF ThreadRight
  <2> QED
    BY <1>0, <2>1 DEF LibraryRight, ToCheck, ToAdd, ToRemove
<1>3. t \in ExternalThreads
  BY <1>0, <1>2
<1>4. ExternalRight(t)
  BY <1>1, <1>3 DEF ThreadRight
<1> QED
  BY <1>0, <1>1, <1>3, <1>4 DEF ExternalRight, ToCheck, ToAdd, ToRemove

\* A handle that is closed is in no slot, and one of the library's threads is not.
LEMMA SlotsAreOthers ==
    ASSUME HandleInv, NEW h \in Handles, handleOf[h] \notin ExternalThreads
    PROVE  \A i \in Slots : mhDynamicThreadArray[i] # h
<1> QED
  BY DEF HandleInv, PlacesInv, Handles, kThreadIdInvalid

LEMMA HandleOpens ==
    ASSUME HandleInv, NEW t \in HandleThreads, GetThreadId(t)
    PROVE  HandleInv'
<1> USE DEF HandleInv
<1>0. /\ HandleThreads = ExternalThreads \cup LibraryThreads /\ kThreadIdInvalid \notin Handles
      /\ Nobody \notin HandleThreads /\ ExternalThreads \cap LibraryThreads = {}
  BY HandlesAssumption DEF HandleThreads, Handles, kThreadIdInvalid
<1>1. PICK h \in Handles : /\ handleOf[h] = Nobody
                           /\ handleOf' = [handleOf EXCEPT ![h] = t]
                           /\ SetCurrentThreadHandle(t, h, TRUE, "idle")
  BY DEF GetThreadId
<1>2. /\ life[t] = "alive" /\ doing[t].step = "idle" /\ cached[t] = kThreadIdInvalid
      /\ UNCHANGED <<mhDynamicThreadArray, mbDynamicThreadArrayInitialized, initFutex, section, cached, dynamicData, life>>
  BY DEF GetThreadId, At
<1>3. /\ doing' = [doing EXCEPT ![t] = [step |-> "check", h |-> h, dynamic |-> TRUE, after |-> "idle"]]
      /\ doing'[t].step = "check" /\ doing'[t].h = h /\ doing'[t].dynamic = TRUE /\ doing'[t].after = "idle"
      /\ \A u \in HandleThreads \ {t} : doing'[u] = doing[u]
  BY <1>1 DEF HandleTypes, SetCurrentThreadHandle
<1>4. handleOf'[h] = t /\ \A k \in Handles \ {h} : handleOf'[k] = handleOf[k]
  BY <1>1 DEF HandleTypes, HandlesTypeOK
<1>5. \A i \in Slots : mhDynamicThreadArray[i] # h
  BY <1>0, <1>1, SlotsAreOthers
<1>6. \A u \in HandleThreads, i \in Slots, k \in Handles : SlotOf(u, i, k)' <=> SlotOf(u, i, k)
  BY <1>2, <1>4, <1>5 DEF SlotOf
<1>7. HandleTypes'
  <2>1. handleOf' \in [Handles -> HandleThreads \cup {Nobody}]
    BY <1>1 DEF HandleTypes, HandlesTypeOK
  <2>2. doing' \in [HandleThreads -> [step : ToCheck \cup ToAdd \cup ToRemove \cup {"idle", "set", "release", "exit"},
                                    h : Handles \cup {kThreadIdInvalid}, dynamic : BOOLEAN,
                                    after : {"idle", "release", "exit"}]]
    BY <1>3 DEF HandleTypes, ToCheck
  <2> QED
    BY <1>2, <2>1, <2>2 DEF HandleTypes, HandlesTypeOK
<1>8. ArrayInv'
  <2>1. doing'[t].step \notin {"init", "initialized", "check enter", "check locked", "set"} \cup ToAdd \cup ToRemove
    BY <1>3 DEF ToAdd, ToRemove
  <2> QED
    BY <1>2, <1>3, <2>1, ArrayStays
<1>9. t \in ExternalThreads /\ Slotless(t)
  <2>1. ASSUME t \in LibraryThreads PROVE FALSE
    <3>1. LibraryRight(t)
      BY <1>2, <2>1 DEF ThreadRight
    <3>2. cached[t] = dynamicData[t].h /\ "thread" \in dynamicData[t].references
      BY <1>2, <3>1 DEF LibraryRight, ToCheck, ToRemove
    <3> QED
      BY <1>0, <1>2, <2>1, <3>2 DEF PlacesInv
  <2>2. ExternalRight(t) /\ t \in ExternalThreads
    BY <1>0, <1>2, <2>1 DEF ThreadRight
  <2> QED
    BY <1>0, <1>2, <2>2 DEF ExternalRight, ToCheck, ToAdd, ToRemove, InSlot
<1>10. PlacesInv'
  <2>1. \A i \in Slots : mhDynamicThreadArray[i] # kThreadIdInvalid => handleOf'[mhDynamicThreadArray[i]] \in ExternalThreads
    BY <1>4, <1>5 DEF PlacesInv, HandleTypes, HandlesTypeOK
  <2>2. \A u \in ExternalThreads, i \in Slots, j \in Slots, k \in Handles, l \in Handles :
          SlotOf(u, i, k)' /\ SlotOf(u, j, l)' => i = j
    BY <1>0, <1>6 DEF PlacesInv
  <2>3. \A u \in LibraryThreads : dynamicData[u].references # {} =>
          dynamicData[u].h \in Handles /\ handleOf'[dynamicData[u].h] = u
    BY <1>0, <1>1, <1>4 DEF PlacesInv
  <2>4. ASSUME NEW u \in HandleThreads, NEW k \in Handles, handleOf'[k] = u
        PROVE  \/ \E i \in Slots : SlotOf(u, i, k)'
               \/ u \in LibraryThreads /\ dynamicData[u].h = k /\ dynamicData[u].references # {}
               \/ Carries(u, k)'
    <3>1. CASE k = h
      BY <1>3, <1>4, <2>4, <3>1 DEF Carries
    <3>2. CASE k # h
      <4>1. handleOf[k] = u
        BY <1>4, <2>4, <3>2
      <4>2. Carries(u, k) => Carries(u, k)'
        BY <1>2, <1>3 DEF Carries
      <4> QED
        BY <1>6, <4>1, <4>2 DEF PlacesInv
    <3> QED
      BY <3>1, <3>2
  <2> QED
    BY <1>2, <2>1, <2>2, <2>3, <2>4 DEF PlacesInv
<1>11. ThreadRight(t)'
  <2>1. Slotless(t)'
    BY <1>6, <1>9 DEF Slotless
  <2> QED
    BY <1>0, <1>2, <1>3, <1>4, <1>9, <2>1 DEF ThreadRight, ExternalRight, ToCheck
<1>12. ASSUME NEW u \in HandleThreads \ {t} PROVE ThreadRight(u)'
  <2>1. \A k \in Handles : handleOf[k] = u => handleOf'[k] = u
    BY <1>0, <1>1, <1>4
  <2> QED
    BY <1>2, <1>3, <1>6, <2>1, OthersStayRight
<1> QED
  BY <1>7, <1>8, <1>10, <1>11, <1>12

LEMMA ThreadBegins ==
    ASSUME HandleInv, NEW t \in LibraryThreads, BeginThread(t)
    PROVE  HandleInv'
<1> USE DEF HandleInv
<1>0. /\ HandleThreads = ExternalThreads \cup LibraryThreads /\ kThreadIdInvalid \notin Handles
      /\ Nobody \notin HandleThreads /\ ExternalThreads \cap LibraryThreads = {}
  BY HandlesAssumption DEF HandleThreads, Handles, kThreadIdInvalid
<1>1. PICK h \in Handles :
         /\ handleOf[h] = Nobody
         /\ handleOf' = [handleOf EXCEPT ![h] = t]
         /\ dynamicData' = [dynamicData EXCEPT ![t] = [h |-> h, references |-> {"thread", "object"}]]
         /\ SetCurrentThreadHandle(t, h, FALSE, "idle")
  BY DEF BeginThread
<1>2. /\ life[t] = "unborn" /\ life' = [life EXCEPT ![t] = "alive"]
      /\ UNCHANGED <<mhDynamicThreadArray, mbDynamicThreadArrayInitialized, initFutex, section, cached>>
  BY DEF BeginThread
<1>3. /\ doing' = [doing EXCEPT ![t] = [step |-> "check", h |-> h, dynamic |-> FALSE, after |-> "idle"]]
      /\ doing'[t].step = "check" /\ doing'[t].h = h /\ doing'[t].dynamic = FALSE /\ doing'[t].after = "idle"
      /\ \A u \in HandleThreads \ {t} : doing'[u] = doing[u] /\ life'[u] = life[u]
      /\ life'[t] = "alive"
  BY <1>0, <1>1, <1>2 DEF HandleTypes, HandlesTypeOK, SetCurrentThreadHandle
<1>4. /\ handleOf'[h] = t /\ \A k \in Handles \ {h} : handleOf'[k] = handleOf[k]
      /\ dynamicData'[t] = [h |-> h, references |-> {"thread", "object"}]
      /\ \A u \in LibraryThreads \ {t} : dynamicData'[u] = dynamicData[u]
  BY <1>1 DEF HandleTypes, HandlesTypeOK
<1>5. \A i \in Slots : mhDynamicThreadArray[i] # h
  BY <1>0, <1>1, SlotsAreOthers
<1>6. \A u \in HandleThreads, i \in Slots, k \in Handles : SlotOf(u, i, k)' <=> SlotOf(u, i, k)
  BY <1>2, <1>4, <1>5 DEF SlotOf
<1>7. HandleTypes'
  <2>1. handleOf' \in [Handles -> HandleThreads \cup {Nobody}]
    BY <1>0, <1>1 DEF HandleTypes, HandlesTypeOK
  <2>2. doing' \in [HandleThreads -> [step : ToCheck \cup ToAdd \cup ToRemove \cup {"idle", "set", "release", "exit"},
                                    h : Handles \cup {kThreadIdInvalid}, dynamic : BOOLEAN,
                                    after : {"idle", "release", "exit"}]]
    BY <1>3 DEF HandleTypes, ToCheck
  <2>3. dynamicData' \in [LibraryThreads -> [h : Handles \cup {kThreadIdInvalid},
                                             references : SUBSET {"thread", "object"}]]
    BY <1>1 DEF HandleTypes
  <2>4. life' \in [HandleThreads -> {"unborn", "alive", "exited"}]
    BY <1>2 DEF HandleTypes, HandlesTypeOK
  <2> QED
    BY <1>2, <2>1, <2>2, <2>3, <2>4 DEF HandleTypes, HandlesTypeOK
<1>8. ArrayInv'
  <2>1. doing'[t].step \notin {"init", "initialized", "check enter", "check locked", "set"} \cup ToAdd \cup ToRemove
    BY <1>3 DEF ToAdd, ToRemove
  <2> QED
    BY <1>0, <1>2, <1>3, <2>1, ArrayStays
<1>9. dynamicData[t].references = {} /\ doing[t] = Idle
  BY <1>0, <1>2 DEF ThreadRight
<1>10. PlacesInv'
  <2>1. \A i \in Slots : mhDynamicThreadArray[i] # kThreadIdInvalid => handleOf'[mhDynamicThreadArray[i]] \in ExternalThreads
    BY <1>4, <1>5 DEF PlacesInv, HandleTypes, HandlesTypeOK
  <2>2. \A u \in ExternalThreads, i \in Slots, j \in Slots, k \in Handles, l \in Handles :
          SlotOf(u, i, k)' /\ SlotOf(u, j, l)' => i = j
    BY <1>0, <1>6 DEF PlacesInv
  <2>3. ASSUME NEW u \in LibraryThreads, dynamicData'[u].references # {}
        PROVE  dynamicData'[u].h \in Handles /\ handleOf'[dynamicData'[u].h] = u
    <3>1. CASE u = t
      BY <1>4, <3>1
    <3>2. CASE u # t
      BY <1>0, <1>1, <1>4, <2>3, <3>2 DEF PlacesInv
    <3> QED
      BY <3>1, <3>2
  <2>4. ASSUME NEW u \in HandleThreads, NEW k \in Handles, handleOf'[k] = u
        PROVE  \/ \E i \in Slots : SlotOf(u, i, k)'
               \/ u \in LibraryThreads /\ dynamicData'[u].h = k /\ dynamicData'[u].references # {}
               \/ Carries(u, k)'
    <3>1. CASE k = h
      BY <1>4, <2>4, <3>1
    <3>2. CASE k # h
      <4>1. handleOf[k] = u
        BY <1>4, <2>4, <3>2
      <4>2. \/ \E i \in Slots : SlotOf(u, i, k)
            \/ u \in LibraryThreads /\ dynamicData[u].h = k /\ dynamicData[u].references # {}
            \/ Carries(u, k)
        BY <4>1 DEF PlacesInv
      <4>3. CASE u = t
        <5>1. ~Carries(t, k)
          BY <1>9 DEF Carries, Idle
        <5> QED
          BY <1>6, <1>9, <4>2, <4>3, <5>1
      <4>4. CASE u # t
        <5>1. Carries(u, k) => Carries(u, k)'
          BY <1>3, <4>4 DEF Carries
        <5> QED
          BY <1>4, <1>6, <4>2, <4>4, <5>1
      <4> QED
        BY <4>3, <4>4
    <3> QED
      BY <3>1, <3>2
  <2> QED
    BY <1>2, <2>1, <2>2, <2>3, <2>4 DEF PlacesInv
<1>11. ThreadRight(t)'
  <2>1. dynamicData'[t].h = h /\ "thread" \in dynamicData'[t].references
    BY <1>4
  <2>2. LibraryRight(t)'
    BY <1>3, <2>1 DEF LibraryRight, ToCheck
  <2> QED
    BY <1>0, <1>3, <2>2 DEF ThreadRight
<1>12. ASSUME NEW u \in HandleThreads \ {t} PROVE ThreadRight(u)'
  <2>1. \A k \in Handles : handleOf[k] = u => handleOf'[k] = u
    BY <1>0, <1>1, <1>4
  <2> QED
    BY <1>2, <1>3, <1>4, <1>6, <2>1, OthersStayRight
<1> QED
  BY <1>7, <1>8, <1>10, <1>11, <1>12

\* Somebody lets go of the data of a thread; the last one closes the handle.
LEMMA ReferenceGoes ==
    ASSUME HandleInv, NEW t \in LibraryThreads, NEW who \in dynamicData[t].references,
           dynamicData' = Without(t, who), handleOf' = ClosedWithout(t, who),
           mhDynamicThreadArray' = mhDynamicThreadArray,
           \A u \in HandleThreads \ {t} : doing'[u] = doing[u]
    PROVE  /\ PlacesInv'
           /\ handleOf' \in [Handles -> HandleThreads \cup {Nobody}]
           /\ dynamicData' \in [LibraryThreads -> [h : Handles \cup {kThreadIdInvalid},
                                                   references : SUBSET {"thread", "object"}]]
           /\ dynamicData'[t].h = dynamicData[t].h
           /\ dynamicData'[t].references = dynamicData[t].references \ {who}
           /\ \A u \in LibraryThreads \ {t} : dynamicData'[u] = dynamicData[u]
           /\ \A u \in HandleThreads \ {t}, k \in Handles : handleOf[k] = u => handleOf'[k] = u
           /\ \A u \in HandleThreads, i \in Slots, k \in Handles : SlotOf(u, i, k)' <=> SlotOf(u, i, k)
<1> USE DEF HandleInv
<1>0. /\ HandleThreads = ExternalThreads \cup LibraryThreads /\ kThreadIdInvalid \notin Handles
      /\ Nobody \notin HandleThreads /\ ExternalThreads \cap LibraryThreads = {}
  BY HandlesAssumption DEF HandleThreads, Handles, kThreadIdInvalid
<1> DEFINE h == dynamicData[t].h
<1>1. h \in Handles /\ handleOf[h] = t
  BY DEF PlacesInv
<1>2. /\ dynamicData' \in [LibraryThreads -> [h : Handles \cup {kThreadIdInvalid},
                                              references : SUBSET {"thread", "object"}]]
      /\ dynamicData'[t].h = h /\ dynamicData'[t].references = dynamicData[t].references \ {who}
      /\ \A u \in LibraryThreads \ {t} : dynamicData'[u] = dynamicData[u]
  BY DEF Without, HandleTypes
<1>3. /\ handleOf' \in [Handles -> HandleThreads \cup {Nobody}]
      /\ \A k \in Handles \ {h} : handleOf'[k] = handleOf[k]
      /\ handleOf'[h] = IF dynamicData[t].references = {who} THEN Nobody ELSE t
  BY <1>1 DEF ClosedWithout, HandleTypes, HandlesTypeOK
<1>4. \A i \in Slots : mhDynamicThreadArray[i] # h
  BY <1>0, <1>1, SlotsAreOthers
<1>5. \A u \in HandleThreads, i \in Slots, k \in Handles : SlotOf(u, i, k)' <=> SlotOf(u, i, k)
  BY <1>3, <1>4 DEF SlotOf
<1>6. PlacesInv'
  <2>1. \A i \in Slots : mhDynamicThreadArray[i] # kThreadIdInvalid => handleOf'[mhDynamicThreadArray[i]] \in ExternalThreads
    BY <1>3, <1>4 DEF PlacesInv, HandleTypes, HandlesTypeOK
  <2>2. \A u \in ExternalThreads, i \in Slots, j \in Slots, k \in Handles, l \in Handles :
          SlotOf(u, i, k)' /\ SlotOf(u, j, l)' => i = j
    BY <1>0, <1>5 DEF PlacesInv
  <2>3. ASSUME NEW u \in LibraryThreads, dynamicData'[u].references # {}
        PROVE  dynamicData'[u].h \in Handles /\ handleOf'[dynamicData'[u].h] = u
    <3>1. CASE u = t
      BY <1>1, <1>2, <1>3, <2>3, <3>1
    <3>2. CASE u # t
      BY <1>0, <1>1, <1>2, <1>3, <2>3, <3>2 DEF PlacesInv
    <3> QED
      BY <3>1, <3>2
  <2>4. ASSUME NEW u \in HandleThreads, NEW k \in Handles, handleOf'[k] = u
        PROVE  \/ \E i \in Slots : SlotOf(u, i, k)'
               \/ u \in LibraryThreads /\ dynamicData'[u].h = k /\ dynamicData'[u].references # {}
               \/ Carries(u, k)'
    <3>1. handleOf[k] = u /\ (k = h => dynamicData[t].references # {who})
      BY <1>0, <1>1, <1>3, <2>4
    <3>2. \/ \E i \in Slots : SlotOf(u, i, k)
          \/ u \in LibraryThreads /\ dynamicData[u].h = k /\ dynamicData[u].references # {}
          \/ Carries(u, k)
      BY <3>1 DEF PlacesInv
    <3>3. CASE u = t
      <4>1. ~Carries(t, k)
        BY <1>0, CarriersAreRight
      <4>2. (dynamicData[t].references # {} /\ k = h) \/ \E i \in Slots : SlotOf(u, i, k)
        BY <3>2, <3>3, <4>1
      <4> QED
        BY <1>2, <1>5, <3>1, <3>3, <4>2
    <3>4. CASE u # t
      <4>1. Carries(u, k) => Carries(u, k)'
        BY <3>4 DEF Carries
      <4> QED
        BY <1>2, <1>5, <3>2, <3>4, <4>1
    <3> QED
      BY <3>3, <3>4
  <2> QED
    BY <2>1, <2>2, <2>3, <2>4 DEF PlacesInv
<1>7. \A u \in HandleThreads \ {t}, k \in Handles : handleOf[k] = u => handleOf'[k] = u
  BY <1>1, <1>3
<1> QED
  BY <1>2, <1>3, <1>5, <1>6, <1>7

LEMMA ReferencesGo ==
    ASSUME HandleInv, CarefulEnds, NEW t \in LibraryThreads, DropObject(t) \/ Release(t) \/ ThreadEnd(t)
    PROVE  HandleInv'
<1> USE DEF HandleInv
<1>0. /\ HandleThreads = ExternalThreads \cup LibraryThreads /\ kThreadIdInvalid \notin Handles
      /\ Nobody \notin HandleThreads /\ ExternalThreads \cap LibraryThreads = {}
  BY HandlesAssumption DEF HandleThreads, Handles, kThreadIdInvalid
<1>1. UNCHANGED <<mhDynamicThreadArray, mbDynamicThreadArrayInitialized, initFutex, section, cached>>
  BY DEF DropObject, Release, ThreadEnd
<1>2. ASSUME NEW who \in dynamicData[t].references,
             dynamicData' = Without(t, who), handleOf' = ClosedWithout(t, who),
             doing' \in [HandleThreads -> [step : ToCheck \cup ToAdd \cup ToRemove \cup {"idle", "set", "release", "exit"},
                                    h : Handles \cup {kThreadIdInvalid}, dynamic : BOOLEAN,
                                    after : {"idle", "release", "exit"}]],
             life' \in [HandleThreads -> {"unborn", "alive", "exited"}],
             \A u \in HandleThreads \ {t} : doing'[u] = doing[u] /\ life'[u] = life[u],
             ArrayInv', ThreadRight(t)'
      PROVE  HandleInv'
  <2> HIDE DEF HandleInv
  <2>1. /\ PlacesInv'
        /\ handleOf' \in [Handles -> HandleThreads \cup {Nobody}]
        /\ dynamicData' \in [LibraryThreads -> [h : Handles \cup {kThreadIdInvalid},
                                                references : SUBSET {"thread", "object"}]]
        /\ \A u \in LibraryThreads \ {t} : dynamicData'[u] = dynamicData[u]
        /\ \A u \in HandleThreads \ {t}, k \in Handles : handleOf[k] = u => handleOf'[k] = u
        /\ \A u \in HandleThreads, i \in Slots, k \in Handles : SlotOf(u, i, k)' <=> SlotOf(u, i, k)
    BY <1>1, <1>2, ReferenceGoes
  <2>2. HandleTypes'
    BY <1>1, <1>2, <2>1 DEF HandleInv, HandleTypes, HandlesTypeOK
  <2>3. ASSUME NEW u \in HandleThreads \ {t} PROVE ThreadRight(u)'
    <3>1. ThreadRight(u) /\ cached'[u] = cached[u]
      BY <1>1 DEF HandleInv
    <3> QED
      BY <1>2, <2>1, <3>1, OthersStayRight
  <2> QED
    BY <1>2, <2>1, <2>2, <2>3 DEF HandleInv
<1>3. ASSUME NEW who \in dynamicData[t].references, dynamicData' = Without(t, who)
      PROVE  dynamicData'[t].h = dynamicData[t].h
             /\ dynamicData'[t].references = dynamicData[t].references \ {who}
  BY <1>3 DEF Without, HandleTypes
<1>4. dynamicData[t].references \subseteq {"thread", "object"}
  BY DEF HandleTypes
<1>5. CASE DropObject(t)
  <2>1. /\ life[t] # "unborn" /\ "object" \in dynamicData[t].references /\ doing[t].after # "exit"
        /\ dynamicData' = Without(t, "object") /\ handleOf' = ClosedWithout(t, "object")
        /\ UNCHANGED <<life, doing>>
    BY <1>5 DEF DropObject
  <2>2. ArrayInv'
    BY <1>1, <2>1 DEF ArrayInv
  <2>3. ThreadRight(t)'
    <3>1. ASSUME life[t] = "alive" PROVE LibraryRight(t)'
      <4>1. LibraryRight(t)
        BY <1>0, <3>1 DEF ThreadRight
      <4>2. "thread" \in dynamicData[t].references
        BY <2>1, <4>1 DEF LibraryRight
      <4>3. dynamicData'[t].h = dynamicData[t].h /\ "thread" \in dynamicData'[t].references
        BY <1>3, <2>1, <4>2
      <4> QED
        BY <1>1, <2>1, <4>1, <4>3 DEF LibraryRight
    <3> QED
      BY <1>0, <2>1, <3>1 DEF ThreadRight
  <2>4. doing \in [HandleThreads -> [step : ToCheck \cup ToAdd \cup ToRemove \cup {"idle", "set", "release", "exit"},
                                    h : Handles \cup {kThreadIdInvalid}, dynamic : BOOLEAN,
                                    after : {"idle", "release", "exit"}]]
        /\ life \in [HandleThreads -> {"unborn", "alive", "exited"}]
    BY DEF HandleTypes, HandlesTypeOK
  <2> QED
    BY <1>2, <2>1, <2>2, <2>3, <2>4
<1>6. CASE Release(t)
  <2>1. /\ life[t] = "alive" /\ doing[t].step = "release"
        /\ dynamicData' = Without(t, "thread") /\ handleOf' = ClosedWithout(t, "thread")
        /\ life' = [life EXCEPT ![t] = "exited"] /\ doing' = [doing EXCEPT ![t] = Idle]
    BY <1>6 DEF Release, At
  <2>2. /\ life'[t] = "exited" /\ doing'[t] = Idle
        /\ \A u \in HandleThreads \ {t} : doing'[u] = doing[u] /\ life'[u] = life[u]
        /\ doing' \in [HandleThreads -> [step : ToCheck \cup ToAdd \cup ToRemove \cup {"idle", "set", "release", "exit"},
                                    h : Handles \cup {kThreadIdInvalid}, dynamic : BOOLEAN,
                                    after : {"idle", "release", "exit"}]]
        /\ life' \in [HandleThreads -> {"unborn", "alive", "exited"}]
    BY <1>0, <2>1 DEF HandleTypes, HandlesTypeOK, Idle
  <2>3. ArrayInv'
    <3>1. doing'[t].step = "idle"
      BY <2>2 DEF Idle
    <3> QED
      BY <1>0, <1>1, <2>2, <3>1, ArrayStays DEF ToAdd, ToRemove
  <2>4. "thread" \in dynamicData[t].references
    <3>1. LibraryRight(t)
      BY <1>0, <2>1 DEF ThreadRight
    <3> QED
      BY <2>1, <3>1 DEF LibraryRight, ToCheck, ToRemove
  <2>5. ThreadRight(t)'
    BY <1>0, <2>2 DEF ThreadRight
  <2> QED
    BY <1>2, <2>1, <2>2, <2>3, <2>4, <2>5
<1>7. CASE ThreadEnd(t)
  <2>1. /\ life[t] = "alive" /\ doing[t].step = "idle" /\ UNCHANGED life
        /\ "object" \in dynamicData[t].references
        /\ dynamicData' = Without(t, "thread") /\ handleOf' = ClosedWithout(t, "thread")
        /\ doing' = [doing EXCEPT ![t] = [step |-> "check", h |-> kThreadIdInvalid, dynamic |-> TRUE, after |-> "exit"]]
    BY <1>7 DEF ThreadEnd, At, SetCurrentThreadHandle
  <2>2. /\ doing'[t].step = "check" /\ doing'[t].h = kThreadIdInvalid /\ doing'[t].dynamic /\ doing'[t].after = "exit"
        /\ \A u \in HandleThreads \ {t} : doing'[u] = doing[u] /\ life'[u] = life[u]
        /\ doing' \in [HandleThreads -> [step : ToCheck \cup ToAdd \cup ToRemove \cup {"idle", "set", "release", "exit"},
                                    h : Handles \cup {kThreadIdInvalid}, dynamic : BOOLEAN,
                                    after : {"idle", "release", "exit"}]]
        /\ life' \in [HandleThreads -> {"unborn", "alive", "exited"}]
    BY <1>0, <2>1 DEF HandleTypes, HandlesTypeOK, ToCheck
  <2>3. ArrayInv'
    <3>1. doing'[t].step \notin {"init", "initialized", "check enter", "check locked", "set"} \cup ToAdd \cup ToRemove
      BY <2>2 DEF ToAdd, ToRemove
    <3> QED
      BY <1>0, <1>1, <2>2, <3>1, ArrayStays
  <2>4. "thread" \in dynamicData[t].references /\ cached[t] = dynamicData[t].h
    <3>1. LibraryRight(t)
      BY <1>0, <2>1 DEF ThreadRight
    <3> QED
      BY <2>1, <3>1 DEF LibraryRight, ToCheck, ToRemove
  <2>5. dynamicData'[t].h = dynamicData[t].h /\ dynamicData'[t].references = {"object"}
    BY <1>3, <1>4, <2>1, <2>4
  <2>6. ThreadRight(t)'
    <3>1. LibraryRight(t)'
      BY <1>1, <2>2, <2>4, <2>5 DEF LibraryRight, ToCheck
    <3> QED
      BY <1>0, <2>1, <3>1 DEF ThreadRight
  <2> QED
    BY <1>2, <2>1, <2>2, <2>3, <2>4, <2>6
<1> QED
  BY <1>5, <1>6, <1>7

\* The steps under mCriticalSection: what is left to show of each.
LEMMA SectionKeeps ==
    ASSUME HandleInv, NEW t \in HandleThreads, life[t] = "alive", NEW x \in ToAdd \cup ToRemove \cup {"set"},
           Goto(t, x), doing[t].step \in {"check locked"} \cup ToAdd \cup ToRemove,
           UNCHANGED <<mbDynamicThreadArrayInitialized, initFutex, cached, dynamicData, life>>, section' = Nobody,
           handleOf' \in [Handles -> HandleThreads \cup {Nobody}],
           mhDynamicThreadArray' \in [Slots -> Handles \cup {kThreadIdInvalid}],
           PlacesInv', ThreadRight(t)',
           \A u \in ExternalThreads \ {t}, k \in Handles : life[u] = "alive" =>
              /\ handleOf[k] = u => handleOf'[k] = u
              /\ \A i \in Slots : SlotOf(u, i, k)' <=> SlotOf(u, i, k)
    PROVE  HandleInv'
<1> USE DEF HandleInv
<1>1. /\ doing'[t].step = x /\ doing' = [doing EXCEPT ![t].step = doing'[t].step]
      /\ \A u \in HandleThreads \ {t} : doing'[u] = doing[u]
  BY GotoMoves
<1>2. HandleTypes'
  <2>1. doing' \in [HandleThreads -> [step : ToCheck \cup ToAdd \cup ToRemove \cup {"idle", "set", "release", "exit"},
                                    h : Handles \cup {kThreadIdInvalid}, dynamic : BOOLEAN,
                                    after : {"idle", "release", "exit"}]]
    <3>1. doing'[t].step \in ToAdd \cup ToRemove \cup {"set"}
      BY <1>1
    <3> QED
      BY <1>1, <3>1 DEF HandleTypes
  <2> QED
    BY <2>1 DEF HandleTypes, HandlesTypeOK
<1>3. ArrayInv'
  <2>1. mbDynamicThreadArrayInitialized
    BY DEF ArrayInv
  <2>2. x \notin {"init", "initialized"}
    BY DEF ToAdd, ToRemove
  <2> QED
    BY <1>1, <2>1, <2>2, ArrayStays
<1>4. ASSUME NEW u \in HandleThreads \ {t} PROVE ThreadRight(u)'
  BY <1>1, OthersStayRight
<1> QED
  BY <1>2, <1>3, <1>4

\* A slot whose handle is closed is one of a thread that has exited.
LEMMA OverMeansExited ==
    ASSUME HandleInv, NEW i \in Slots
    PROVE  Over(i) <=> /\ mhDynamicThreadArray[i] \in Handles
                       /\ handleOf[mhDynamicThreadArray[i]] \in ExternalThreads
                       /\ life[handleOf[mhDynamicThreadArray[i]]] = "exited"
<1>0. Nobody \notin ExternalThreads /\ kThreadIdInvalid \notin Handles
  BY HandlesAssumption DEF HandleThreads, Handles, kThreadIdInvalid
<1> QED
  BY <1>0 DEF HandleInv, HandleTypes, HandlesTypeOK, PlacesInv, Over

LEMMA HandlesAreChecked ==
    ASSUME HandleInv, NEW t \in HandleThreads, CheckHandles(t)
    PROVE  HandleInv'
<1> USE DEF HandleInv
<1>0. /\ HandleThreads = ExternalThreads \cup LibraryThreads /\ kThreadIdInvalid \notin Handles
      /\ Nobody \notin HandleThreads /\ ExternalThreads \cap LibraryThreads = {}
  BY HandlesAssumption DEF HandleThreads, Handles, kThreadIdInvalid
<1>1. /\ life[t] = "alive" /\ doing[t].step = "check locked" /\ section' = Nobody /\ Goto(t, AfterCheck(t))
      /\ UNCHANGED <<mbDynamicThreadArrayInitialized, initFutex, cached, dynamicData, life>>
  BY DEF CheckHandles, At
<1> DEFINE Closed(h) == \E i \in Slots : Over(i) /\ mhDynamicThreadArray[i] = h
<1>2. /\ handleOf' \in [Handles -> HandleThreads \cup {Nobody}]
      /\ \A h \in Handles : handleOf'[h] = IF Closed(h) THEN Nobody ELSE handleOf[h]
      /\ mhDynamicThreadArray' \in [Slots -> Handles \cup {kThreadIdInvalid}]
      /\ \A i \in Slots : mhDynamicThreadArray'[i] = IF Over(i) THEN kThreadIdInvalid ELSE mhDynamicThreadArray[i]
  BY DEF CheckHandles, HandleTypes, HandlesTypeOK
<1>3. \A h \in Handles : Closed(h) => handleOf[h] \in ExternalThreads /\ life[handleOf[h]] = "exited"
  BY OverMeansExited
<1>4. \A h \in Handles, i \in Slots : mhDynamicThreadArray[i] = h => (Closed(h) <=> Over(i))
  BY OverMeansExited
<1> HIDE DEF Closed
<1>5. \A u \in HandleThreads, i \in Slots, h \in Handles :
         SlotOf(u, i, h)' <=> SlotOf(u, i, h) /\ ~Closed(h)
  BY <1>0, <1>2, <1>4 DEF SlotOf
<1>6. /\ doing'[t].step = AfterCheck(t)
      /\ doing'[t].h = doing[t].h /\ doing'[t].dynamic = doing[t].dynamic /\ doing'[t].after = doing[t].after
      /\ \A u \in HandleThreads \ {t} : doing'[u] = doing[u]
  BY <1>1, GotoMoves
<1>7. AfterCheck(t) \in ToAdd \cup ToRemove \cup {"set"}
  BY DEF AfterCheck, ToAdd, ToRemove
<1>8. PlacesInv'
  <2>1. ASSUME NEW i \in Slots, mhDynamicThreadArray'[i] # kThreadIdInvalid
        PROVE  handleOf'[mhDynamicThreadArray'[i]] \in ExternalThreads
    <3>1. ~Over(i) /\ mhDynamicThreadArray'[i] = mhDynamicThreadArray[i]
      BY <1>2, <2>1
    <3>2. mhDynamicThreadArray[i] \in Handles
      BY <2>1, <3>1 DEF HandleTypes, HandlesTypeOK
    <3>3. handleOf'[mhDynamicThreadArray[i]] = handleOf[mhDynamicThreadArray[i]]
      BY <1>2, <1>4, <3>1, <3>2
    <3> QED
      BY <1>0, <3>1, <3>2, <3>3 DEF PlacesInv
  <2>2. \A u \in ExternalThreads, i \in Slots, j \in Slots, k \in Handles, l \in Handles :
          SlotOf(u, i, k)' /\ SlotOf(u, j, l)' => i = j
    BY <1>0, <1>5 DEF PlacesInv
  <2>3. \A u \in LibraryThreads : dynamicData[u].references # {} =>
          dynamicData[u].h \in Handles /\ handleOf'[dynamicData[u].h] = u
    BY <1>0, <1>2, <1>3 DEF PlacesInv
  <2>4. ASSUME NEW u \in HandleThreads, NEW k \in Handles, handleOf'[k] = u
        PROVE  \/ \E i \in Slots : SlotOf(u, i, k)'
               \/ u \in LibraryThreads /\ dynamicData[u].h = k /\ dynamicData[u].references # {}
               \/ Carries(u, k)'
    <3>1. handleOf[k] = u /\ ~Closed(k)
      BY <1>0, <1>2, <2>4
    <3>2. \/ \E i \in Slots : SlotOf(u, i, k)
          \/ u \in LibraryThreads /\ dynamicData[u].h = k /\ dynamicData[u].references # {}
          \/ Carries(u, k)
      BY <3>1 DEF PlacesInv
    <3>3. Carries(u, k) => Carries(u, k)'
      <4>1. CASE u = t
        BY <1>0, <1>6, <4>1 DEF Carries, AfterCheck
      <4>2. CASE u # t
        BY <1>6, <4>2 DEF Carries
      <4> QED
        BY <4>1, <4>2
    <3> QED
      BY <1>5, <3>1, <3>2, <3>3
  <2> QED
    BY <1>1, <2>1, <2>2, <2>3, <2>4 DEF PlacesInv
<1>9. \A u \in ExternalThreads, k \in Handles : life[u] = "alive" =>
         /\ handleOf[k] = u => handleOf'[k] = u
         /\ \A i \in Slots : SlotOf(u, i, k)' <=> SlotOf(u, i, k)
  <2>1. \A u \in ExternalThreads, k \in Handles : life[u] = "alive" /\ handleOf[k] = u => ~Closed(k)
    BY <1>3
  <2> QED
    BY <1>0, <1>2, <1>5, <2>1 DEF SlotOf
<1>10. ThreadRight(t)'
  <2>1. ASSUME t \in ExternalThreads PROVE ExternalRight(t)'
    <3>1. ExternalRight(t)
      BY <1>1, <2>1 DEF ThreadRight
    <3>2. CASE /\ doing[t].dynamic /\ doing[t].after = "idle"
               /\ doing[t].h \in Handles /\ handleOf[doing[t].h] = t
               /\ cached[t] = kThreadIdInvalid /\ Slotless(t)
      <4>1. doing'[t].step \in ToAdd
        BY <1>0, <1>6, <3>2 DEF AfterCheck, ToAdd
      <4>2. Slotless(t)' /\ handleOf'[doing[t].h] = t
        BY <1>1, <1>9, <2>1, <3>2 DEF Slotless
      <4>3. /\ doing'[t].dynamic /\ doing'[t].after = "idle" /\ cached'[t] = kThreadIdInvalid
            /\ doing'[t].h \in Handles /\ handleOf'[doing'[t].h] = t
        BY <1>1, <1>6, <3>2, <4>2
      <4> QED
        BY <4>1, <4>2, <4>3 DEF ExternalRight
    <3>3. CASE doing[t].dynamic /\ doing[t].after = "exit" /\ doing[t].h = kThreadIdInvalid /\ InSlot(t, cached[t])
      <4>1. doing'[t].step \in ToRemove
        BY <1>0, <1>6, <3>3 DEF AfterCheck, ToRemove, InSlot
      <4>2. InSlot(t, cached[t])'
        BY <1>1, <1>9, <2>1, <3>3 DEF InSlot
      <4>3. doing'[t].dynamic /\ doing'[t].after = "exit" /\ doing'[t].h = kThreadIdInvalid
        BY <1>6, <3>3
      <4> QED
        BY <4>1, <4>2, <4>3 DEF ExternalRight
    <3> QED
      BY <1>1, <3>1, <3>2, <3>3 DEF ExternalRight
  <2>2. ASSUME t \in LibraryThreads PROVE LibraryRight(t)'
    <3>1. LibraryRight(t)
      BY <1>1, <2>2 DEF ThreadRight
    <3>2. CASE ~doing[t].dynamic
      <4>1. doing'[t].step = "set"
        BY <1>6, <3>2 DEF AfterCheck
      <4> QED
        BY <1>1, <1>6, <3>1, <3>2, <4>1 DEF LibraryRight
    <3>3. CASE doing[t].dynamic
      <4>1. /\ doing[t].after = "exit" /\ doing[t].h = kThreadIdInvalid /\ cached[t] = dynamicData[t].h
            /\ dynamicData[t].references = {"object"}
        BY <1>1, <3>1, <3>3 DEF LibraryRight
      <4>2. cached[t] # kThreadIdInvalid
        BY <1>0, <2>2, <4>1 DEF PlacesInv
      <4>3. doing'[t].step = "remove enter"
        BY <1>6, <3>3, <4>1, <4>2 DEF AfterCheck
      <4> QED
        BY <1>1, <1>6, <3>3, <4>1, <4>3 DEF LibraryRight, ToRemove
    <3> QED
      BY <3>2, <3>3 DEF HandleTypes
  <2> QED
    BY <1>0, <1>1, <2>1, <2>2 DEF ThreadRight
<1> HIDE DEF HandleInv
<1> QED
  BY <1>1, <1>2, <1>7, <1>8, <1>9, <1>10, SectionKeeps

\* There are as many slots as threads of others, and who adds a handle has none.
LEMMA SomeSlotIsFree ==
    ASSUME HandleInv, NEW t \in ExternalThreads, Slotless(t)
    PROVE  \E i \in Slots : mhDynamicThreadArray[i] = kThreadIdInvalid
<1> SUFFICES ASSUME \A i \in Slots : mhDynamicThreadArray[i] # kThreadIdInvalid PROVE FALSE
  OBVIOUS
<1> USE DEF HandleInv
<1> DEFINE f == [i \in Slots |-> handleOf[mhDynamicThreadArray[i]]]
           rest == ExternalThreads \ {t}
<1>1. \A i \in Slots : mhDynamicThreadArray[i] \in Handles
  BY DEF HandleTypes, HandlesTypeOK
<1>2. f \in [Slots -> rest]
  BY <1>1 DEF PlacesInv, Slotless, SlotOf
<1>3. IsFiniteSet(ExternalThreads)
  <2>1. ExternalThreads \subseteq HandleThreads
    BY DEF HandleThreads
  <2> QED
    BY <2>1, HandlesAssumption, FS_Subset
<1>4. IsFiniteSet(rest) /\ Cardinality(rest) = Cardinality(ExternalThreads) - 1
      /\ Cardinality(ExternalThreads) \in Nat
  BY <1>3, FS_RemoveElement, FS_CardinalityType
<1>5. Cardinality(Slots) = kMaxThreadDynamicArrayCount /\ IsFiniteSet(Slots)
  BY HandlesAssumption, FS_Interval DEF Slots
<1>6. Cardinality(rest) < Cardinality(Slots)
  BY <1>4, <1>5, HandlesAssumption
<1> HIDE DEF f, rest
<1>7. PICK i \in Slots, j \in Slots : i # j /\ f[i] = f[j]
  BY <1>2, <1>4, <1>5, <1>6, FS_PigeonHole
<1>8. f[i] \in ExternalThreads /\ SlotOf(f[i], i, mhDynamicThreadArray[i]) /\ SlotOf(f[i], j, mhDynamicThreadArray[j])
  BY <1>2, <1>7 DEF SlotOf, f, rest
<1> QED
  BY <1>1, <1>7, <1>8 DEF PlacesInv

LEMMA LeastIsIn ==
    ASSUME NEW S \in SUBSET Nat, S # {}
    PROVE  (CHOOSE i \in S : \A j \in S : i <= j) \in S
<1>1. \E less : IsWellFoundedOn(less, Nat) /\ \A x \in Nat, y \in Nat : y < x => <<y, x>> \in less
  <2>1. \A x \in Nat, y \in Nat : y < x => <<y, x>> \in OpToRel(<, Nat)
    BY DEF OpToRel
  <2> QED
    BY <2>1, NatLessThanWellFounded
<1>2. PICK less : IsWellFoundedOn(less, Nat) /\ \A x \in Nat, y \in Nat : y < x => <<y, x>> \in less
  BY <1>1
<1>3. PICK x \in S : \A y \in S : <<y, x>> \notin less
  BY <1>2, WFMin
<1>4. ASSUME NEW y \in S PROVE x <= y
  <2>1. x \in Nat /\ y \in Nat
    OBVIOUS
  <2>2. ~(y < x)
    BY <1>2, <1>3, <2>1, Zenon
  <2> QED
    BY <2>1, <2>2
<1> QED
  BY <1>4

LEMMA HandleIsAdded ==
    ASSUME HandleInv, NEW t \in HandleThreads, AddHandle(t)
    PROVE  HandleInv'
<1>0. /\ HandleThreads = ExternalThreads \cup LibraryThreads /\ kThreadIdInvalid \notin Handles
      /\ Nobody \notin HandleThreads /\ ExternalThreads \cap LibraryThreads = {}
  BY HandlesAssumption DEF HandleThreads, Handles, kThreadIdInvalid
<1>1. /\ life[t] = "alive" /\ doing[t].step = "add locked" /\ section' = Nobody /\ Goto(t, "set")
      /\ UNCHANGED <<mbDynamicThreadArrayInitialized, initFutex, cached, dynamicData, life>>
  BY DEF AddHandle, At
<1> DEFINE h == doing[t].h
<1>2. /\ t \in ExternalThreads /\ doing[t].dynamic /\ doing[t].after = "idle"
      /\ h \in Handles /\ handleOf[h] = t /\ cached[t] = kThreadIdInvalid /\ Slotless(t)
  <2>1. t \notin LibraryThreads
    BY <1>1 DEF HandleInv, ThreadRight, LibraryRight, ToCheck, ToRemove
  <2>2. ExternalRight(t)
    BY <1>0, <1>1, <2>1 DEF HandleInv, ThreadRight
  <2> QED
    BY <1>0, <1>1, <2>1, <2>2 DEF ExternalRight, ToCheck, ToRemove
<1> DEFINE free == {i \in Slots : mhDynamicThreadArray[i] = kThreadIdInvalid}
<1>3. free # {} /\ free \in SUBSET Nat /\ free \subseteq Slots
  BY <1>2, SomeSlotIsFree DEF Slots
<1>4. (CHOOSE i \in free : \A j \in free : i <= j) \in free
  BY <1>3, LeastIsIn
<1>5. PICK i \in Slots : /\ mhDynamicThreadArray[i] = kThreadIdInvalid /\ UNCHANGED handleOf
                         /\ mhDynamicThreadArray' = [mhDynamicThreadArray EXCEPT ![i] = h]
  <2>1. /\ mhDynamicThreadArray' = [mhDynamicThreadArray EXCEPT ![CHOOSE i \in free : \A j \in free : i <= j] = h]
        /\ UNCHANGED handleOf
    BY <1>3 DEF AddHandle
  <2> HIDE DEF h
  <2> QED
    BY <1>4, <2>1
<1>6. /\ mhDynamicThreadArray' \in [Slots -> Handles \cup {kThreadIdInvalid}] /\ mhDynamicThreadArray'[i] = h
      /\ \A j \in Slots \ {i} : mhDynamicThreadArray'[j] = mhDynamicThreadArray[j]
  BY <1>2, <1>5 DEF HandleInv, HandleTypes, HandlesTypeOK
<1>7. \A u \in HandleThreads, j \in Slots, k \in Handles :
         SlotOf(u, j, k)' <=> SlotOf(u, j, k) \/ (u = t /\ j = i /\ k = h)
  BY <1>0, <1>2, <1>5, <1>6 DEF SlotOf
<1>8. /\ doing'[t].step = "set"
      /\ doing'[t].h = doing[t].h /\ doing'[t].dynamic = doing[t].dynamic /\ doing'[t].after = doing[t].after
      /\ \A u \in HandleThreads \ {t} : doing'[u] = doing[u]
  BY <1>1, GotoMoves DEF HandleInv
<1>9. PlacesInv'
  <2>1. \A j \in Slots : mhDynamicThreadArray'[j] # kThreadIdInvalid => handleOf[mhDynamicThreadArray'[j]] \in ExternalThreads
    BY <1>2, <1>6 DEF HandleInv, PlacesInv
  <2>2. \A u \in ExternalThreads, j \in Slots, l \in Slots, k \in Handles, m \in Handles :
          SlotOf(u, j, k)' /\ SlotOf(u, l, m)' => j = l
    BY <1>0, <1>2, <1>7 DEF HandleInv, PlacesInv, Slotless
  <2>3. ASSUME NEW u \in HandleThreads, NEW k \in Handles, handleOf[k] = u
        PROVE  \/ \E j \in Slots : SlotOf(u, j, k)'
               \/ u \in LibraryThreads /\ dynamicData[u].h = k /\ dynamicData[u].references # {}
               \/ Carries(u, k)'
    <3>1. \/ \E j \in Slots : SlotOf(u, j, k)
          \/ u \in LibraryThreads /\ dynamicData[u].h = k /\ dynamicData[u].references # {}
          \/ Carries(u, k)
      BY <2>3 DEF HandleInv, PlacesInv
    <3>2. Carries(u, k) => Carries(u, k)' \/ SlotOf(u, i, k)'
      <4>1. CASE u = t
        BY <1>7, <4>1 DEF Carries
      <4>2. CASE u # t
        BY <1>8, <4>2 DEF Carries
      <4> QED
        BY <4>1, <4>2
    <3> QED
      BY <1>7, <3>1, <3>2
  <2> QED
    BY <1>1, <1>5, <2>1, <2>2, <2>3 DEF HandleInv, PlacesInv
<1>10. ThreadRight(t)'
  <2>1. mhDynamicThreadArray'[i] = doing'[t].h /\ handleOf'[doing'[t].h] = t /\ doing'[t].h \in Handles
    BY <1>2, <1>5, <1>6, <1>8
  <2>2. InSlot(t, doing[t].h)'
    BY <2>1 DEF InSlot, SlotOf
  <2>3. ExternalRight(t)'
    BY <1>2, <1>8, <2>2 DEF ExternalRight
  <2> QED
    BY <1>0, <1>1, <1>2, <2>3 DEF ThreadRight
<1>11. \A u \in ExternalThreads \ {t}, k \in Handles : life[u] = "alive" =>
         /\ handleOf[k] = u => handleOf'[k] = u
         /\ \A j \in Slots : SlotOf(u, j, k)' <=> SlotOf(u, j, k)
  BY <1>0, <1>5, <1>7
<1>12. handleOf' \in [Handles -> HandleThreads \cup {Nobody}]
  BY <1>5 DEF HandleInv, HandleTypes, HandlesTypeOK
<1>13. doing[t].step \in {"check locked"} \cup ToAdd \cup ToRemove
  BY <1>1 DEF ToAdd
<1> QED
  BY <1>1, <1>6, <1>9, <1>10, <1>11, <1>12, <1>13, SectionKeeps

LEMMA HandleIsRemoved ==
    ASSUME HandleInv, NEW t \in HandleThreads, RemoveHandle(t)
    PROVE  HandleInv'
<1>0. /\ HandleThreads = ExternalThreads \cup LibraryThreads /\ kThreadIdInvalid \notin Handles
      /\ Nobody \notin HandleThreads /\ ExternalThreads \cap LibraryThreads = {}
  BY HandlesAssumption DEF HandleThreads, Handles, kThreadIdInvalid
<1>1. /\ life[t] = "alive" /\ doing[t].step = "remove locked" /\ section' = Nobody /\ Goto(t, "set")
      /\ UNCHANGED <<mbDynamicThreadArrayInitialized, initFutex, cached, dynamicData, life>>
  BY DEF RemoveHandle, At
<1> DEFINE c == cached[t]
           slots == {i \in Slots : mhDynamicThreadArray[i] = c}
<1>2. /\ doing'[t].step = "set"
      /\ doing'[t].h = doing[t].h /\ doing'[t].dynamic = doing[t].dynamic /\ doing'[t].after = doing[t].after
      /\ \A u \in HandleThreads \ {t} : doing'[u] = doing[u]
  BY <1>1, GotoMoves DEF HandleInv
<1>3. doing[t].step \in {"check locked"} \cup ToAdd \cup ToRemove /\ doing[t].step \notin ToCheck \cup ToAdd
  BY <1>1 DEF ToRemove, ToCheck, ToAdd
<1>4. doing[t].h = kThreadIdInvalid /\ doing[t].after = "exit" /\ \A k \in Handles : ~Carries(t, k)
  <2>1. ASSUME t \in LibraryThreads PROVE doing[t].h = kThreadIdInvalid /\ doing[t].after = "exit"
    BY <1>1, <1>3, <2>1 DEF HandleInv, ThreadRight, LibraryRight
  <2>2. ASSUME t \in ExternalThreads PROVE doing[t].h = kThreadIdInvalid /\ doing[t].after = "exit"
    BY <1>1, <1>3, <2>2 DEF HandleInv, ThreadRight, ExternalRight
  <2> QED
    BY <1>0, <2>1, <2>2 DEF Carries
<1>5. ThreadRight(t)'
  <2>1. ExternalRight(t)' /\ LibraryRight(t)'
    BY <1>2, <1>4 DEF ExternalRight, LibraryRight
  <2> QED
    BY <1>0, <1>1, <2>1 DEF HandleInv, ThreadRight
<1>6. ASSUME UNCHANGED <<handleOf, mhDynamicThreadArray>> PROVE HandleInv'
  <2>1. PlacesInv'
    BY <1>1, <1>2, <1>4, <1>6, PlacesStay DEF HandleInv
  <2>2. \A u, i, k : SlotOf(u, i, k)' = SlotOf(u, i, k)
    BY <1>6 DEF SlotOf
  <2>3. /\ handleOf' \in [Handles -> HandleThreads \cup {Nobody}]
        /\ mhDynamicThreadArray' \in [Slots -> Handles \cup {kThreadIdInvalid}]
    BY <1>6 DEF HandleInv, HandleTypes, HandlesTypeOK
  <2> QED
    BY <1>1, <1>3, <1>5, <1>6, <2>1, <2>2, <2>3, SectionKeeps
<1>7. CASE t \in LibraryThreads
  <2>1. c = dynamicData[t].h /\ dynamicData[t].references = {"object"}
    BY <1>1, <1>3, <1>7 DEF HandleInv, ThreadRight, LibraryRight
  <2>2. c \in Handles /\ handleOf[c] = t
    BY <1>7, <2>1 DEF HandleInv, PlacesInv
  <2>3. slots = {}
    BY <1>0, <1>7, <2>2, SlotsAreOthers
  <2>4. UNCHANGED <<handleOf, mhDynamicThreadArray>>
    BY <2>3 DEF RemoveHandle
  <2> QED
    BY <1>6, <2>4
<1>8. CASE t \in ExternalThreads
  <2>1. InSlot(t, c)
    BY <1>1, <1>3, <1>8 DEF HandleInv, ThreadRight, ExternalRight
  <2>2. PICK i \in Slots : SlotOf(t, i, c)
    BY <2>1 DEF InSlot
  <2>3. c \in Handles /\ handleOf[c] = t /\ slots = {i}
    <3>1. c \in Handles /\ handleOf[c] = t /\ i \in slots
      BY <2>1, <2>2 DEF InSlot, SlotOf
    <3>2. \A j \in slots : j = i
      BY <1>8, <2>2, <3>1 DEF HandleInv, PlacesInv, SlotOf
    <3> QED
      BY <3>1, <3>2
  <2>4. (CHOOSE j \in slots : \A k \in slots : j <= k) = i
    <3>1. i <= i
      BY DEF Slots
    <3> HIDE DEF slots
    <3> QED
      BY <2>3, <3>1
  <2>5. /\ handleOf' = [handleOf EXCEPT ![c] = Nobody]
        /\ mhDynamicThreadArray' = [mhDynamicThreadArray EXCEPT ![i] = kThreadIdInvalid]
    <3>1. /\ handleOf' = [handleOf EXCEPT ![c] = Nobody]
          /\ mhDynamicThreadArray' = [mhDynamicThreadArray EXCEPT
                 ![CHOOSE j \in slots : \A k \in slots : j <= k] = kThreadIdInvalid]
      BY <2>3 DEF RemoveHandle
    <3> HIDE DEF slots, c
    <3> QED
      BY <2>4, <3>1
  <2>6. /\ handleOf' \in [Handles -> HandleThreads \cup {Nobody}] /\ handleOf'[c] = Nobody
        /\ \A k \in Handles \ {c} : handleOf'[k] = handleOf[k]
        /\ mhDynamicThreadArray' \in [Slots -> Handles \cup {kThreadIdInvalid}]
        /\ mhDynamicThreadArray'[i] = kThreadIdInvalid
        /\ \A j \in Slots \ {i} : mhDynamicThreadArray'[j] = mhDynamicThreadArray[j]
    BY <2>3, <2>5 DEF HandleInv, HandleTypes, HandlesTypeOK
  <2>7. \A j \in Slots \ {i} : mhDynamicThreadArray[j] # c
    BY <2>3
  <2>8. \A u \in HandleThreads, j \in Slots, k \in Handles : SlotOf(u, j, k)' <=> SlotOf(u, j, k) /\ j # i
    BY <1>0, <2>6, <2>7 DEF SlotOf
  <2>9. PlacesInv'
    <3>1. ASSUME NEW j \in Slots, mhDynamicThreadArray'[j] # kThreadIdInvalid
          PROVE  handleOf'[mhDynamicThreadArray'[j]] \in ExternalThreads
      <4>1. j # i /\ mhDynamicThreadArray'[j] = mhDynamicThreadArray[j]
        BY <2>6, <3>1
      <4>2. mhDynamicThreadArray[j] \in Handles \ {c}
        BY <2>7, <3>1, <4>1 DEF HandleInv, HandleTypes, HandlesTypeOK
      <4>3. handleOf'[mhDynamicThreadArray[j]] = handleOf[mhDynamicThreadArray[j]]
        BY <2>6, <4>2
      <4> QED
        BY <1>0, <4>1, <4>2, <4>3 DEF HandleInv, PlacesInv
    <3>2. \A u \in ExternalThreads, j \in Slots, l \in Slots, k \in Handles, m \in Handles :
            SlotOf(u, j, k)' /\ SlotOf(u, l, m)' => j = l
      BY <1>0, <2>8 DEF HandleInv, PlacesInv
    <3>3. \A u \in LibraryThreads : dynamicData[u].references # {} =>
            dynamicData[u].h \in Handles /\ handleOf'[dynamicData[u].h] = u
      BY <1>0, <1>8, <2>3, <2>6 DEF HandleInv, PlacesInv
    <3>4. ASSUME NEW u \in HandleThreads, NEW k \in Handles, handleOf'[k] = u
          PROVE  \/ \E j \in Slots : SlotOf(u, j, k)'
                 \/ u \in LibraryThreads /\ dynamicData[u].h = k /\ dynamicData[u].references # {}
                 \/ Carries(u, k)'
      <4>1. handleOf[k] = u /\ k # c
        BY <1>0, <2>6, <3>4
      <4>2. \/ \E j \in Slots : SlotOf(u, j, k)
            \/ u \in LibraryThreads /\ dynamicData[u].h = k /\ dynamicData[u].references # {}
            \/ Carries(u, k)
        BY <4>1 DEF HandleInv, PlacesInv
      <4>3. \A j \in Slots : SlotOf(u, j, k) => j # i
        BY <2>2, <4>1 DEF SlotOf
      <4>4. Carries(u, k) => Carries(u, k)'
        BY <1>2, <1>4 DEF Carries
      <4> QED
        BY <2>8, <4>2, <4>3, <4>4
    <3> QED
      BY <1>1, <3>1, <3>2, <3>3, <3>4 DEF PlacesInv
  <2>10. \A u \in ExternalThreads \ {t}, k \in Handles : life[u] = "alive" =>
           /\ handleOf[k] = u => handleOf'[k] = u
           /\ \A j \in Slots : SlotOf(u, j, k)' <=> SlotOf(u, j, k)
    <3>1. ASSUME NEW u \in ExternalThreads \ {t}, NEW k \in Handles
          PROVE  (handleOf[k] = u => handleOf'[k] = u) /\ ~SlotOf(u, i, k)
      BY <2>2, <2>3, <2>6 DEF SlotOf
    <3> QED
      BY <1>0, <2>8, <3>1
  <2> QED
    BY <1>1, <1>3, <1>5, <2>6, <2>9, <2>10, SectionKeeps
<1> QED
  BY <1>0, <1>7, <1>8

LEMMA HandlesGoOn ==
    ASSUME CarefulEnds, HandleInv, [HandlesNext]_handleVars
    PROVE  HandleInv'
<1>1. CASE UNCHANGED handleVars
  <2> USE <1>1 DEF handleVars
  <2>1. /\ \A t, h : Carries(t, h)' = Carries(t, h)
        /\ \A t, i, h : SlotOf(t, i, h)' = SlotOf(t, i, h)
    BY DEF Carries, SlotOf
  <2>2. HandleTypes' /\ ArrayInv'
    BY DEF HandleInv, HandleTypes, HandlesTypeOK, ArrayInv
  <2>3. PlacesInv'
    BY <2>1 DEF HandleInv, PlacesInv
  <2>4. ASSUME NEW u \in HandleThreads PROVE ThreadRight(u)'
    BY <2>1, OthersStayRight, HandlesAssumption DEF HandleInv
  <2> QED
    BY <2>2, <2>3, <2>4 DEF HandleInv
<1>2. ASSUME NEW t \in HandleThreads,
             \/ GetThreadId(t) \/ ThreadEnd(t) \/ Exit(t)
             \/ InitializeDone(t) \/ InitializeLock(t) \/ InitializeArray(t) \/ InitializeFlag(t)
             \/ Enter(t) \/ CheckHandles(t) \/ AddHandle(t) \/ RemoveHandle(t) \/ SetTls(t)
      PROVE  HandleInv'
  <2>1. t \in ExternalThreads \/ t \in LibraryThreads
    BY DEF HandleThreads
  <2> QED
    BY <1>2, <2>1, HandleOpens, ReferencesGo, HandlesRest, HandlesWalk, HandlesAreChecked, HandleIsAdded, HandleIsRemoved
<1>3. ASSUME NEW t \in LibraryThreads, BeginThread(t) \/ DropObject(t) \/ RunReturns(t) \/ Release(t)
      PROVE  HandleInv'
  <2>1. t \in HandleThreads
    BY DEF HandleThreads
  <2> QED
    BY <1>3, <2>1, ThreadBegins, ReferencesGo, HandlesRest
<1> QED
  BY <1>1, <1>2, <1>3 DEF HandlesNext

LEMMA HandleInvKeeps == HandleInv => HandlesAreKept
<1> SUFFICES ASSUME HandleInv PROVE HandlesAreKept
  OBVIOUS
<1>0. /\ HandleThreads = ExternalThreads \cup LibraryThreads /\ kThreadIdInvalid \notin Handles
      /\ Nobody \notin HandleThreads /\ ExternalThreads \cap LibraryThreads = {}
  BY HandlesAssumption DEF HandleThreads, Handles, kThreadIdInvalid
<1>1. CachedIdsAreOwn
  <2>1. ASSUME NEW t \in HandleThreads, At(t, "idle"), cached[t] # kThreadIdInvalid
        PROVE  handleOf[cached[t]] = t
    <3>1. life[t] = "alive" /\ doing[t].step = "idle"
      BY <2>1 DEF At
    <3>2. CASE t \in ExternalThreads
      <4>1. ExternalRight(t)
        BY <3>1, <3>2 DEF HandleInv, ThreadRight
      <4> QED
        BY <2>1, <3>1, <4>1 DEF ExternalRight, InSlot, SlotOf, ToCheck, ToAdd, ToRemove
    <3>3. CASE t \in LibraryThreads
      <4>1. LibraryRight(t)
        BY <3>1, <3>3 DEF HandleInv, ThreadRight
      <4>2. cached[t] = dynamicData[t].h /\ "thread" \in dynamicData[t].references
        BY <3>1, <4>1 DEF LibraryRight, ToCheck, ToRemove
      <4> QED
        BY <3>3, <4>2 DEF HandleInv, PlacesInv
    <3> QED
      BY <1>0, <3>2, <3>3
  <2> QED
    BY <2>1 DEF CachedIdsAreOwn
<1>2. ASSUME NEW h \in Handles
      PROVE  Cardinality({i \in Slots : mhDynamicThreadArray[i] = h})
               + Cardinality({t \in LibraryThreads : dynamicData[t].h = h /\ dynamicData[t].references # {}})
               + Cardinality({t \in HandleThreads : Carries(t, h)})
             = IF handleOf[h] = Nobody THEN 0 ELSE 1
  <2> DEFINE A == {i \in Slots : mhDynamicThreadArray[i] = h}
             B == {t \in LibraryThreads : dynamicData[t].h = h /\ dynamicData[t].references # {}}
             C == {t \in HandleThreads : Carries(t, h)}
  <2>1. /\ A # {} => handleOf[h] \in ExternalThreads
        /\ \A t \in B : handleOf[h] = t
        /\ \A t \in C : t \in ExternalThreads /\ handleOf[h] = t /\ Slotless(t)
    BY SlotsAreOthers, CarriersAreRight DEF HandleInv, PlacesInv
  <2>2. handleOf[h] \in HandleThreads \cup {Nobody}
    BY DEF HandleInv, HandleTypes, HandlesTypeOK
  <2>3. CASE handleOf[h] = Nobody
    <3>1. A = {} /\ B = {} /\ C = {}
      BY <1>0, <2>1, <2>3
    <3> HIDE DEF A, B, C
    <3>2. Cardinality(A) = 0 /\ Cardinality(B) = 0 /\ Cardinality(C) = 0
      BY <3>1, FS_EmptySet
    <3>3. Cardinality(A) + Cardinality(B) + Cardinality(C) = 0
      BY <3>2
    <3> QED
      BY <2>3, <3>3 DEF A, B, C
  <2>4. CASE handleOf[h] \in LibraryThreads
    <3> DEFINE u == handleOf[h]
    <3>1. A = {} /\ C = {}
      BY <1>0, <2>1, <2>4
    <3>2. B = {u}
      <4>1. \/ \E i \in Slots : SlotOf(u, i, h)
            \/ u \in LibraryThreads /\ dynamicData[u].h = h /\ dynamicData[u].references # {}
            \/ Carries(u, h)
        BY <1>0, <2>4 DEF HandleInv, PlacesInv
      <4>2. dynamicData[u].h = h /\ dynamicData[u].references # {}
        BY <1>0, <2>4, <3>1, <4>1 DEF SlotOf
      <4> QED
        BY <2>1, <2>4, <4>2
    <3> HIDE DEF A, B, C, u
    <3>3. Cardinality(A) = 0 /\ Cardinality(B) = 1 /\ Cardinality(C) = 0
      BY <3>1, <3>2, FS_EmptySet, FS_Singleton
    <3>4. Cardinality(A) + Cardinality(B) + Cardinality(C) = 1
      BY <3>3
    <3> QED
      BY <1>0, <2>4, <3>4 DEF A, B, C
  <2>5. CASE handleOf[h] \in ExternalThreads
    <3> DEFINE u == handleOf[h]
    <3>1. B = {}
      BY <1>0, <2>1, <2>5
    <3>2. \/ \E i \in Slots : SlotOf(u, i, h)
          \/ Carries(u, h)
      BY <1>0, <2>5 DEF HandleInv, PlacesInv
    <3>3. CASE Carries(u, h)
      <4>1. C = {u}
        BY <1>0, <2>1, <2>5, <3>3
      <4>2. A = {}
        BY <1>0, <2>1, <2>5, <4>1 DEF Slotless, SlotOf
      <4> HIDE DEF A, B, C, u
      <4>3. Cardinality(A) = 0 /\ Cardinality(B) = 0 /\ Cardinality(C) = 1
        BY <3>1, <4>1, <4>2, FS_EmptySet, FS_Singleton
      <4>4. Cardinality(A) + Cardinality(B) + Cardinality(C) = 1
        BY <4>3
      <4> QED
        BY <1>0, <2>5, <4>4 DEF A, B, C
    <3>4. CASE ~Carries(u, h)
      <4>1. C = {}
        BY <2>1, <3>4
      <4>2. PICK i \in Slots : SlotOf(u, i, h)
        BY <3>2, <3>4
      <4>3. A = {i}
        BY <2>5, <4>2 DEF HandleInv, PlacesInv, SlotOf
      <4> HIDE DEF A, B, C, u
      <4>4. Cardinality(A) = 1 /\ Cardinality(B) = 0 /\ Cardinality(C) = 0
        BY <3>1, <4>1, <4>3, FS_EmptySet, FS_Singleton
      <4>5. Cardinality(A) + Cardinality(B) + Cardinality(C) = 1
        BY <4>4
      <4> QED
        BY <1>0, <2>5, <4>5 DEF A, B, C
    <3> QED
      BY <3>3, <3>4
  <2> QED
    BY <1>0, <2>2, <2>3, <2>4, <2>5
<1>3. HandlesAreKeptOnce
  BY <1>2 DEF HandlesAreKeptOnce
<1> QED
  BY <1>1, <1>3 DEF HandlesAreKept, HandleInv, HandleTypes

-----------------------------------------------------------------------------
(* Names.                                                                  *)

Namers == NamedThreads \cup {Namer}
AnyNames == {"", "a", "b"} \X {"", "x"}

\* u writes the name of t.
Copies(u, t) == naming[u].step \in {"head", "tail"} /\ naming[u].on = t
\* u is in a naming of t.
NamesOf(u, t) == naming[u].step # "none" /\ naming[u].on = t
\* What the system shows of the name of t.
Shown(t) == IF nameSystem = "linux" THEN LinuxName(mName[t]) ELSE mName[t]

Namings == {NotNaming} \cup [step : {"head", "tail", "system"}, on : NamedThreads, name : AnyNames]

NameTypes ==
    /\ NamesTypeOK
    /\ naming \in [Namers -> Namings]
    /\ given \in [NamedThreads -> Names]

\* One at a time writes mName, part by part what was given last, so that when
\* nobody does, mName is that.
CopyInv ==
    /\ \A t \in NamedThreads :
          /\ nameAt[t] # "running" => naming[t].step = "none"
          /\ nameAt[t] = "unborn" => mName[t] = NoName /\ given[t] = NoName /\ Unnamed(t)
          /\ (\A u \in Namers : ~Copies(u, t)) => mName[t] = given[t]
    /\ \A u \in Namers, t \in NamedThreads : Copies(u, t) =>
          /\ naming[u].name = given[t]
          /\ naming[u].step = "tail" => mName[t][1] = given[t][1]
          /\ \A v \in Namers : Copies(v, t) => v = u

\* Where a thread names only itself, what Begin writes is there already, and what the
\* thread shows is what it found when it told the system last.
OneselfInv ==
    OnlyOneself => \A t \in NamedThreads : t \notin unshown =>
        /\ ~Copies(t, t) => mName[t] = given[t]
        /\ nameAt[t] = "running" /\ ~NamesOf(t, t) /\ mName[t] # NoName => systemName[t] = Shown(t)

\* Elsewhere the system was told by the last to write.
OthersInv ==
    ~OnlyOneself => \A t \in NamedThreads :
        /\ t \notin unshown
        /\ Unnamed(t) /\ mName[t] # NoName => systemName[t] = mName[t]

NameInv == NameTypes /\ CopyInv /\ OneselfInv /\ OthersInv

\* What is known of a thread that names one, and of one that does not.
LEMMA NamersAre ==
    ASSUME NameTypes, NEW u \in Namers
    PROVE  /\ naming[u].step \in {"none", "head", "tail", "system"}
           /\ naming[u].step # "none" =>
                 /\ naming[u] \in [step : {"head", "tail", "system"}, on : NamedThreads, name : AnyNames]
                 /\ naming[u].on \in NamedThreads /\ naming[u].name \in AnyNames
           /\ naming[u].step = "none" => naming[u] = NotNaming
<1>1. naming[u] \in Namings
  BY DEF NameTypes
<1>2. CASE naming[u] = NotNaming
  BY <1>2 DEF NotNaming
<1>3. CASE naming[u] \in [step : {"head", "tail", "system"}, on : NamedThreads, name : AnyNames]
  BY <1>3
<1> QED
  BY <1>1, <1>2, <1>3 DEF Namings

\* One of those that name goes on: the others are where they were.
LEMMA OneNamerMoves ==
    ASSUME NameTypes, NEW u \in Namers, NEW x \in Namings, naming' = [naming EXCEPT ![u] = x]
    PROVE  /\ naming'[u] = x
           /\ \A v \in Namers \ {u} : naming'[v] = naming[v]
           /\ \A v \in Namers \ {u}, t \in NamedThreads :
                 (Copies(v, t)' <=> Copies(v, t)) /\ (NamesOf(v, t)' <=> NamesOf(v, t))
           /\ naming' \in [Namers -> Namings]
<1>1. naming'[u] = x /\ \A v \in Namers \ {u} : naming'[v] = naming[v]
  BY DEF NameTypes
<1>2. \A v \in Namers \ {u}, t \in NamedThreads :
         (Copies(v, t)' <=> Copies(v, t)) /\ (NamesOf(v, t)' <=> NamesOf(v, t))
  BY <1>1 DEF Copies, NamesOf
<1>3. naming' \in [Namers -> Namings]
  BY DEF NameTypes
<1> QED
  BY <1>1, <1>2, <1>3

LEMMA UnnamedMeans ==
    ASSUME NEW t
    PROVE  /\ Unnamed(t) <=> \A u \in Namers : ~NamesOf(u, t)
           /\ Unnamed(t)' <=> \A u \in Namers : ~NamesOf(u, t)'
<1> QED
  BY DEF Unnamed, NamesOf, Namers

LEMMA CopiersName ==
    ASSUME NEW u, NEW t
    PROVE  (Copies(u, t) => NamesOf(u, t)) /\ (Copies(u, t)' => NamesOf(u, t)')
<1> QED
  BY DEF Copies, NamesOf

\* What a pair is, of any two sets.
LEMMA PairsAre ==
    ASSUME NEW A, NEW B, NEW n \in A \X B, NEW m \in A \X B
    PROVE  /\ n = <<n[1], n[2]>> /\ n[1] \in A /\ n[2] \in B
           /\ [n EXCEPT ![1] = m[1]] = <<m[1], n[2]>> /\ <<m[1], n[2]>> \in A \X B
           /\ [n EXCEPT ![2] = m[2]] = <<n[1], m[2]>> /\ <<n[1], m[2]>> \in A \X B
           /\ <<m[1], n[2]>>[1] = m[1] /\ <<m[1], n[2]>>[2] = n[2]
           /\ n[1] = m[1] /\ n[2] = m[2] => n = m
<1>1. n = <<n[1], n[2]>> /\ n[1] \in A /\ n[2] \in B
  BY SMT
<1>2. m = <<m[1], m[2]>> /\ m[1] \in A /\ m[2] \in B
  BY SMT
<1>3. [n EXCEPT ![1] = m[1]] = <<m[1], n[2]>> /\ [n EXCEPT ![2] = m[2]] = <<n[1], m[2]>>
  BY <1>1, SMT
<1>4. <<m[1], n[2]>> \in A \X B /\ <<n[1], m[2]>> \in A \X B
  BY <1>1, <1>2, SMT
<1>5. n[1] = m[1] /\ n[2] = m[2] => n = m
  BY <1>1, <1>2
<1> QED
  BY <1>1, <1>3, <1>4, <1>5

LEMMA NamesHaveHeads ==
    /\ NoName \in Names /\ Names \subseteq AnyNames /\ NoName = <<"", "">>
    /\ \A n \in Names : n[1] = "" => n = NoName
<1>1. \A n \in {"a", "b"} \X {"", "x"} : n[1] \in {"a", "b"} /\ n[2] \in {"", "x"} /\ n = <<n[1], n[2]>>
  <2> DEFINE A == {"a", "b"}
             B == {"", "x"}
  <2> HIDE DEF A, B
  <2>1. \A n \in A \X B : n[1] \in A /\ n[2] \in B /\ n = <<n[1], n[2]>>
    BY PairsAre
  <2> QED
    BY <2>1 DEF A, B
<1>2. \A n \in {"a", "b"} \X {"", "x"} : n[1] # "" /\ n \in AnyNames
  <2> SUFFICES ASSUME NEW n \in {"a", "b"} \X {"", "x"}
               PROVE  n[1] # "" /\ n \in AnyNames
    OBVIOUS
  <2> DEFINE a == n[1]
             b == n[2]
  <2>1. a \in {"", "a", "b"} /\ a # "" /\ b \in {"", "x"} /\ n = <<a, b>>
    BY <1>1
  <2> HIDE DEF a, b
  <2>2. n \in {"", "a", "b"} \X {"", "x"}
    BY <2>1
  <2> QED
    BY <2>1, <2>2 DEF AnyNames, a
<1>3. NoName = <<"", "">> /\ NoName \in AnyNames
  BY DEF NoName, AnyNames
<1>4. \A n \in Names : n = NoName \/ n \in {"a", "b"} \X {"", "x"}
  BY DEF Names
<1>5. NoName \in Names
  BY DEF Names
<1> QED
  BY <1>2, <1>3, <1>4, <1>5

\* One part of a name is written.
LEMMA PartsOfNames ==
    ASSUME NEW n \in AnyNames, NEW m \in AnyNames
    PROVE  /\ [n EXCEPT ![1] = m[1]] = <<m[1], n[2]>> /\ <<m[1], n[2]>> \in AnyNames
           /\ [n EXCEPT ![2] = m[2]] = <<n[1], m[2]>> /\ <<n[1], m[2]>> \in AnyNames
           /\ <<m[1], n[2]>>[1] = m[1]
           /\ n[1] = m[1] => <<n[1], m[2]>> = m
<1> DEFINE A == {"", "a", "b"}
           B == {"", "x"}
<1>1. n \in A \X B /\ m \in A \X B /\ AnyNames = A \X B
  BY DEF AnyNames
<1> HIDE DEF A, B
<1>2. /\ [n EXCEPT ![1] = m[1]] = <<m[1], n[2]>> /\ <<m[1], n[2]>> \in A \X B
      /\ [n EXCEPT ![2] = m[2]] = <<n[1], m[2]>> /\ <<n[1], m[2]>> \in A \X B
      /\ <<m[1], n[2]>>[1] = m[1]
      /\ m = <<m[1], m[2]>>
  BY <1>1, PairsAre
<1> QED
  BY <1>1, <1>2

LEMMA NamesBegin == NamesInit => NameInv
<1> SUFFICES ASSUME NamesInit PROVE NameInv
  OBVIOUS
<1> USE DEF NamesInit
<1>1. Namer \notin NamedThreads /\ Namers = NamedThreads \cup {Namer}
  BY NamesAssumption DEF Namers
<1>2. NameTypes
  BY <1>1, NamesHaveHeads DEF NameTypes, NamesTypeOK, AnyNames, Namings
<1>3. \A u \in Namers : naming[u].step = "none"
  BY <1>1 DEF NotNaming
<1>4. \A u \in Namers, t \in NamedThreads : ~Copies(u, t) /\ ~NamesOf(u, t)
  BY <1>3 DEF Copies, NamesOf
<1>5. \A t \in NamedThreads : Unnamed(t)
  BY <1>4, UnnamedMeans
<1>6. CopyInv
  BY <1>1, <1>3, <1>4, <1>5 DEF CopyInv
<1>7. OneselfInv
  BY DEF OneselfInv
<1>8. OthersInv
  BY DEF OthersInv
<1> QED
  BY <1>2, <1>6, <1>7, <1>8 DEF NameInv

LEMMA NamedAtBegin ==
    ASSUME NameInv, NEW t \in NamedThreads, NEW n \in Names, BeginNamed(t, n)
    PROVE  NameInv'
<1> USE DEF NameInv
<1>0. Namer \in Namers /\ t \in Namers /\ Namer # t /\ NamedThreads \subseteq Namers /\ nameSystem' = nameSystem /\ unshown' = unshown
      /\ (OnlyOneself' <=> OnlyOneself)
  BY NamesAssumption DEF Namers, BeginNamed, OnlyOneself
<1>1. /\ nameAt[t] = "unborn" /\ naming[Namer].step = "none" /\ mName[t] = NoName /\ Unnamed(t) /\ naming[t].step = "none"
  BY DEF BeginNamed, CopyInv
<1>2. /\ mName'[t] = IF nameSystem = "windows" THEN NoName ELSE n
      /\ given'[t] = n /\ nameAt'[t] \in {"suspended", "created"}
      /\ nameSystem = "kettle" => systemName'[t] = n
      /\ \A w \in NamedThreads \ {t} : /\ mName'[w] = mName[w] /\ given'[w] = given[w] /\ nameAt'[w] = nameAt[w]
                                       /\ systemName'[w] = systemName[w]
  BY <1>1 DEF BeginNamed, NameTypes, NamesTypeOK
<1>p. PICK named \in BOOLEAN :
         /\ n # NoName => named
         /\ IF named /\ nameSystem # "kettle" THEN Naming(Namer, "head", t, n) ELSE UNCHANGED naming
  BY DEF BeginNamed
<1> DEFINE silent == ~named \/ nameSystem = "kettle"
<1>3. /\ \A v \in Namers \ {Namer} : naming'[v] = naming[v]
      /\ \A v \in Namers \ {Namer}, w \in NamedThreads :
            (Copies(v, w)' <=> Copies(v, w)) /\ (NamesOf(v, w)' <=> NamesOf(v, w))
      /\ naming' \in [Namers -> Namings]
      /\ IF silent THEN naming'[Namer] = naming[Namer] ELSE naming'[Namer] = [step |-> "head", on |-> t, name |-> n]
  <2>1. CASE silent
    <3>1. naming' = naming
      BY <1>p, <2>1
    <3> QED
      BY <2>1, <3>1 DEF NameTypes, Copies, NamesOf
  <2>2. CASE ~silent
    <3> DEFINE x == [step |-> "head", on |-> t, name |-> n]
    <3>1. naming' = [naming EXCEPT ![Namer] = x]
      BY <1>p, <2>2 DEF Naming
    <3>2. x \in Namings
      BY NamesHaveHeads DEF Namings
    <3> HIDE DEF x
    <3>3. /\ naming'[Namer] = x
          /\ \A v \in Namers \ {Namer} : naming'[v] = naming[v]
          /\ \A v \in Namers \ {Namer}, w \in NamedThreads : (Copies(v, w)' <=> Copies(v, w)) /\ (NamesOf(v, w)' <=> NamesOf(v, w))
          /\ naming' \in [Namers -> Namings]
      BY <1>0, <3>1, <3>2, OneNamerMoves
    <3> QED
      BY <2>2, <3>3 DEF x
  <2> QED
    BY <2>1, <2>2
<1>4. /\ \A w \in NamedThreads : ~Copies(Namer, w) /\ ~NamesOf(Namer, w)
      /\ \A w \in NamedThreads \ {t} : ~Copies(Namer, w)' /\ ~NamesOf(Namer, w)'
      /\ ~silent => Copies(Namer, t)' /\ NamesOf(Namer, t)' /\ naming'[Namer].name = n /\ naming'[Namer].step = "head"
      /\ silent => ~Copies(Namer, t)'
  <2>1. \A w \in NamedThreads : ~Copies(Namer, w) /\ ~NamesOf(Namer, w)
    BY <1>1 DEF Copies, NamesOf
  <2>2. CASE silent
    <3>1. naming'[Namer].step = "none"
      BY <1>1, <1>3, <2>2
    <3> QED
      BY <2>1, <2>2, <3>1 DEF Copies, NamesOf
  <2>3. CASE ~silent
    <3>1. naming'[Namer].step = "head" /\ naming'[Namer].on = t /\ naming'[Namer].name = n
      BY <1>3, <2>3
    <3> HIDE DEF silent
    <3> QED
      BY <2>1, <2>3, <3>1 DEF Copies, NamesOf
  <2> QED
    BY <2>2, <2>3
<1>5. \A v \in Namers : ~NamesOf(v, t) /\ ~Copies(v, t)
  BY <1>1, UnnamedMeans, CopiersName
<1>6. \A w \in NamedThreads \ {t} : /\ \A v \in Namers : (Copies(v, w)' <=> Copies(v, w)) /\ (NamesOf(v, w)' <=> NamesOf(v, w))
                                    /\ (Unnamed(w)' <=> Unnamed(w))
  <2>1. \A w \in NamedThreads \ {t} : \A v \in Namers : (Copies(v, w)' <=> Copies(v, w)) /\ (NamesOf(v, w)' <=> NamesOf(v, w))
    BY <1>3, <1>4
  <2> QED
    BY <2>1, UnnamedMeans
<1>7. NameTypes'
  <2>1. /\ mName' \in [NamedThreads -> {"", "a", "b"} \X {"", "x"}]
        /\ systemName' \in [NamedThreads -> {"", "a", "b"} \X {"", "x"}]
        /\ given' \in [NamedThreads -> Names]
        /\ nameAt' \in [NamedThreads -> {"unborn", "suspended", "created", "running"}]
    BY NamesHaveHeads DEF BeginNamed, NameTypes, NamesTypeOK, AnyNames
  <2> QED
    BY <1>0, <1>3, <2>1 DEF NameTypes, NamesTypeOK
<1> HIDE DEF silent
<1>8. CopyInv'
  <2>1. ASSUME NEW w \in NamedThreads
        PROVE  /\ nameAt'[w] # "running" => naming'[w].step = "none"
               /\ nameAt'[w] = "unborn" => mName'[w] = NoName /\ given'[w] = NoName /\ Unnamed(w)'
               /\ (\A u \in Namers : ~Copies(u, w)') => mName'[w] = given'[w]
    <3>1. naming'[w] = naming[w]
      BY <1>0, <1>3, NamesAssumption
    <3>2. CASE w = t
      <4>1. ~silent => Copies(Namer, w)'
        BY <1>4, <3>2
      <4>2. silent => mName'[w] = given'[w]
        BY <1>2, <1>p, <3>2 DEF silent
      <4> QED
        BY <1>0, <1>1, <1>2, <3>1, <3>2, <4>1, <4>2
    <3>3. CASE w # t
      BY <1>2, <1>6, <3>1, <3>3 DEF CopyInv
    <3> QED
      BY <3>2, <3>3
  <2>2. ASSUME NEW u \in Namers, NEW w \in NamedThreads, Copies(u, w)'
        PROVE  /\ naming'[u].name = given'[w]
               /\ naming'[u].step = "tail" => mName'[w][1] = given'[w][1]
               /\ \A v \in Namers : Copies(v, w)' => v = u
    <3>1. CASE w = t
      <4>1. u = Namer /\ \A v \in Namers : Copies(v, w)' => v = u
        BY <1>3, <1>5, <2>2, <3>1
      <4> QED
        BY <1>2, <1>4, <2>2, <3>1, <4>1
    <3>2. CASE w # t
      <4>1. u # Namer /\ naming'[u] = naming[u] /\ Copies(u, w)
        BY <1>3, <1>4, <2>2, <3>2
      <4> QED
        BY <1>2, <1>6, <3>2, <4>1 DEF CopyInv
    <3> QED
      BY <3>1, <3>2
  <2> QED
    BY <2>1, <2>2 DEF CopyInv
<1>9. OneselfInv'
  <2>1. ASSUME OnlyOneself, NEW w \in NamedThreads, w \notin unshown
        PROVE  /\ ~Copies(w, w)' => mName'[w] = given'[w]
               /\ nameAt'[w] = "running" /\ ~NamesOf(w, w)' /\ mName'[w] # NoName => systemName'[w] = Shown(w)'
    <3>1. CASE w = t
      <4>1. nameSystem # "windows" /\ nameAt'[w] # "running"
        BY <1>2, <2>1, <3>1 DEF OnlyOneself
      <4> QED
        BY <1>2, <3>1, <4>1
    <3>2. CASE w # t
      <4>1. Shown(w)' = Shown(w)
        BY <1>0, <1>2, <3>2 DEF Shown, LinuxName
      <4> QED
        BY <1>0, <1>2, <1>6, <2>1, <3>2, <4>1 DEF OneselfInv
    <3> QED
      BY <3>1, <3>2
  <2> QED
    BY <1>0, <2>1 DEF OneselfInv
<1>10. OthersInv'
  <2>1. ASSUME ~OnlyOneself, NEW w \in NamedThreads
        PROVE  w \notin unshown /\ (Unnamed(w)' /\ mName'[w] # NoName => systemName'[w] = mName'[w])
    <3>1. CASE w = t
      <4>1. Unnamed(t)' => ~NamesOf(Namer, t)'
        BY <1>0, UnnamedMeans
      <4>2. ~silent => ~Unnamed(t)'
        BY <1>4, <4>1
      <4>3. silent => n = NoName \/ (nameSystem = "kettle" /\ systemName'[t] = n)
        BY <1>2, <1>p DEF silent
      <4>4. mName'[t] = NoName \/ mName'[t] = n
        BY <1>2
      <4> QED
        BY <2>1, <3>1, <4>2, <4>3, <4>4 DEF OthersInv
    <3>2. CASE w # t
      BY <1>2, <1>6, <2>1, <3>2 DEF OthersInv
    <3> QED
      BY <3>1, <3>2
  <2> QED
    BY <1>0, <2>1 DEF OthersInv
<1> QED
  BY <1>7, <1>8, <1>9, <1>10

LEMMA ResumesNamed ==
    ASSUME NameInv, NEW t \in NamedThreads, Resumes(t)
    PROVE  NameInv'
<1> USE DEF NameInv
<1>1. /\ nameAt[t] = "suspended" /\ nameAt'[t] = "created" /\ nameAt' \in [NamedThreads -> {"unborn", "suspended", "created", "running"}]
      /\ \A w \in NamedThreads \ {t} : nameAt'[w] = nameAt[w]
      /\ nameSystem' = nameSystem /\ mName' = mName /\ systemName' = systemName /\ naming' = naming /\ given' = given
      /\ unshown' = unshown
  BY DEF Resumes, NameTypes, NamesTypeOK
<1>2. NameTypes'
  BY <1>1 DEF NameTypes, NamesTypeOK
<1>3. CopyInv'
  <2>1. ASSUME NEW w \in NamedThreads
        PROVE  /\ nameAt'[w] # "running" => naming'[w].step = "none"
               /\ nameAt'[w] = "unborn" => mName'[w] = NoName /\ given'[w] = NoName /\ Unnamed(w)'
               /\ (\A u \in Namers : ~Copies(u, w)') => mName'[w] = given'[w]
    <3>1. (Unnamed(w)' <=> Unnamed(w)) /\ \A u \in Namers : Copies(u, w)' <=> Copies(u, w)
      BY <1>1 DEF Unnamed, Copies
    <3> QED
      BY <1>1, <3>1 DEF CopyInv
  <2>2. \A u \in Namers, w \in NamedThreads : Copies(u, w)' <=> Copies(u, w)
    BY <1>1 DEF Copies
  <2> QED
    BY <1>1, <2>1, <2>2 DEF CopyInv
<1>4. OneselfInv' /\ OthersInv'
  <2>1. \A w \in NamedThreads : /\ (Unnamed(w)' <=> Unnamed(w)) /\ (Copies(w, w)' <=> Copies(w, w))
                                /\ (NamesOf(w, w)' <=> NamesOf(w, w)) /\ Shown(w)' = Shown(w)
                                /\ (nameAt'[w] = "running" <=> nameAt[w] = "running")
    BY <1>1 DEF Unnamed, Copies, NamesOf, Shown, LinuxName
  <2>2. OnlyOneself' <=> OnlyOneself
    BY <1>1 DEF OnlyOneself
  <2> QED
    BY <1>1, <2>1, <2>2 DEF OneselfInv, OthersInv
<1> QED
  BY <1>2, <1>3, <1>4

LEMMA StartsNamed ==
    ASSUME NameInv, NEW t \in NamedThreads, StartNamed(t)
    PROVE  NameInv'
<1> USE DEF NameInv
<1>0. t \in Namers /\ NamedThreads \subseteq Namers
  BY DEF Namers
<1>1. /\ nameAt[t] = "created" /\ nameAt'[t] = "running" /\ nameAt' \in [NamedThreads -> {"unborn", "suspended", "created", "running"}]
      /\ \A w \in NamedThreads \ {t} : nameAt'[w] = nameAt[w]
      /\ nameSystem' = nameSystem /\ mName' = mName /\ systemName' = systemName /\ given' = given /\ unshown' = unshown
      /\ naming[t].step = "none" /\ mName[t] \in AnyNames /\ (OnlyOneself' <=> OnlyOneself)
  BY DEF StartNamed, NameTypes, NamesTypeOK, CopyInv, AnyNames, OnlyOneself
<1> DEFINE told == (OnlyOneself /\ mName[t][1] # "") \/ nameSystem = "windows"
<1>2. /\ \A v \in Namers \ {t} : naming'[v] = naming[v]
      /\ \A v \in Namers \ {t}, w \in NamedThreads :
            (Copies(v, w)' <=> Copies(v, w)) /\ (NamesOf(v, w)' <=> NamesOf(v, w))
      /\ naming' \in [Namers -> Namings]
      /\ IF told THEN naming'[t] = [step |-> "system", on |-> t, name |-> mName[t]] ELSE naming'[t] = naming[t]
  <2>1. CASE ~told
    <3>1. naming' = naming
      BY <2>1 DEF StartNamed
    <3> QED
      BY <2>1, <3>1 DEF NameTypes, Copies, NamesOf
  <2>2. CASE told
    <3> DEFINE x == [step |-> "system", on |-> t, name |-> mName[t]]
    <3>1. naming' = [naming EXCEPT ![t] = x]
      BY <2>2 DEF StartNamed, Naming
    <3>2. x \in Namings
      BY <1>1 DEF Namings
    <3> HIDE DEF x
    <3>3. /\ naming'[t] = x
          /\ \A v \in Namers \ {t} : naming'[v] = naming[v]
          /\ \A v \in Namers \ {t}, w \in NamedThreads : (Copies(v, w)' <=> Copies(v, w)) /\ (NamesOf(v, w)' <=> NamesOf(v, w))
          /\ naming' \in [Namers -> Namings]
      BY <1>0, <3>1, <3>2, OneNamerMoves
    <3> QED
      BY <2>2, <3>3 DEF x
  <2> QED
    BY <2>1, <2>2
<1>3. /\ \A w \in NamedThreads : ~Copies(t, w) /\ ~NamesOf(t, w) /\ ~Copies(t, w)'
      /\ \A w \in NamedThreads \ {t} : ~NamesOf(t, w)'
      /\ told => NamesOf(t, t)'
  <2>1. \A w \in NamedThreads : ~Copies(t, w) /\ ~NamesOf(t, w)
    BY <1>1 DEF Copies, NamesOf
  <2>2. CASE told
    <3> HIDE DEF told
    <3>1. naming'[t].step = "system" /\ naming'[t].on = t
      BY <1>2, <2>2
    <3> QED
      BY <2>1, <3>1 DEF Copies, NamesOf
  <2>3. CASE ~told
    <3>1. naming'[t].step = "none"
      BY <1>1, <1>2, <2>3
    <3> HIDE DEF told
    <3> QED
      BY <2>1, <2>3, <3>1 DEF Copies, NamesOf
  <2> QED
    BY <2>2, <2>3
<1>4. \A w \in NamedThreads : /\ \A v \in Namers : Copies(v, w)' <=> Copies(v, w)
                              /\ w # t => (Unnamed(w)' <=> Unnamed(w)) /\ \A v \in Namers : NamesOf(v, w)' <=> NamesOf(v, w)
                              /\ Unnamed(w)' => Unnamed(w)
  <2>1. \A w \in NamedThreads, v \in Namers : /\ Copies(v, w)' <=> Copies(v, w)
                                              /\ w # t => (NamesOf(v, w)' <=> NamesOf(v, w))
                                              /\ NamesOf(v, w) => NamesOf(v, w)'
    BY <1>2, <1>3
  <2> QED
    BY <2>1, UnnamedMeans
<1>5. NameTypes'
  BY <1>1, <1>2 DEF NameTypes, NamesTypeOK
<1>6. CopyInv'
  <2>1. ASSUME NEW w \in NamedThreads
        PROVE  /\ nameAt'[w] # "running" => naming'[w].step = "none"
               /\ nameAt'[w] = "unborn" => mName'[w] = NoName /\ given'[w] = NoName /\ Unnamed(w)'
               /\ (\A u \in Namers : ~Copies(u, w)') => mName'[w] = given'[w]
    <3>1. w # t => naming'[w] = naming[w]
      BY <1>0, <1>2
    <3> QED
      BY <1>1, <1>4, <3>1 DEF CopyInv
  <2>2. ASSUME NEW u \in Namers, NEW w \in NamedThreads, Copies(u, w)'
        PROVE  /\ naming'[u].name = given'[w]
               /\ naming'[u].step = "tail" => mName'[w][1] = given'[w][1]
               /\ \A v \in Namers : Copies(v, w)' => v = u
    <3>1. u # t /\ naming'[u] = naming[u] /\ Copies(u, w)
      BY <1>2, <1>3, <2>2
    <3> QED
      BY <1>1, <1>4, <3>1 DEF CopyInv
  <2> QED
    BY <2>1, <2>2 DEF CopyInv
<1> HIDE DEF told
<1>7. OneselfInv'
  <2>1. ASSUME OnlyOneself, NEW w \in NamedThreads, w \notin unshown
        PROVE  /\ ~Copies(w, w)' => mName'[w] = given'[w]
               /\ nameAt'[w] = "running" /\ ~NamesOf(w, w)' /\ mName'[w] # NoName => systemName'[w] = Shown(w)'
    <3>1. ~Copies(w, w)' => mName'[w] = given'[w]
      BY <1>0, <1>1, <1>4, <2>1 DEF OneselfInv
    <3>2. CASE w = t
      <4>1. mName[t] = given[t]
        BY <1>3, <2>1, <3>2 DEF OneselfInv
      <4>2. ~NamesOf(t, t)' => mName[t] = NoName
        <5>1. ~NamesOf(t, t)' => mName[t][1] = ""
          BY <1>3, <2>1 DEF told
        <5>2. given[t] \in Names
          BY DEF NameTypes
        <5> QED
          BY <4>1, <5>1, <5>2, NamesHaveHeads
      <4> QED
        BY <1>1, <3>1, <3>2, <4>2
    <3>3. CASE w # t
      <4>1. Shown(w)' = Shown(w)
        BY <1>1 DEF Shown, LinuxName
      <4>2. NamesOf(w, w)' <=> NamesOf(w, w)
        BY <1>0, <1>4, <3>3
      <4> QED
        BY <1>1, <2>1, <3>1, <3>3, <4>1, <4>2 DEF OneselfInv
    <3> QED
      BY <3>2, <3>3
  <2> QED
    BY <1>1, <2>1 DEF OneselfInv
<1>8. OthersInv'
  BY <1>1, <1>4 DEF OthersInv
<1> QED
  BY <1>5, <1>6, <1>7, <1>8

LEMMA SetsThreadName ==
    ASSUME NameInv, CarefulNamers, NEW t \in NamedThreads, NEW by \in Namers, NEW n \in Names, SetThreadName(by, t, n)
    PROVE  NameInv'
<1> USE DEF NameInv
<1>0. NamedThreads \subseteq Namers
  BY DEF Namers
<1>1. /\ naming[by].step = "none" /\ nameAt[t] = "running" /\ Unnamed(t) /\ (by # Namer => nameAt[by] = "running")
      /\ given'[t] = n /\ given' \in [NamedThreads -> Names]
      /\ \A w \in NamedThreads \ {t} : given'[w] = given[w]
      /\ unshown' = IF OnlyOneself /\ by # t THEN unshown \cup {t} ELSE unshown \ {t}
      /\ nameSystem' = nameSystem /\ mName' = mName /\ systemName' = systemName /\ nameAt' = nameAt
      /\ (OnlyOneself' <=> OnlyOneself)
  BY DEF SetThreadName, NameTypes, OnlyOneself
<1> DEFINE x == [step |-> "head", on |-> t, name |-> n]
<1>2. naming' = [naming EXCEPT ![by] = x]
  BY DEF SetThreadName, Naming
<1>3. x \in Namings /\ x.step = "head" /\ x.on = t /\ x.name = n
  BY NamesHaveHeads DEF Namings
<1> HIDE DEF x
<1>4. /\ naming'[by] = x
      /\ \A v \in Namers \ {by} : naming'[v] = naming[v]
      /\ \A v \in Namers \ {by}, w \in NamedThreads : (Copies(v, w)' <=> Copies(v, w)) /\ (NamesOf(v, w)' <=> NamesOf(v, w))
      /\ naming' \in [Namers -> Namings]
  BY <1>2, <1>3, OneNamerMoves
<1>5. /\ Copies(by, t)' /\ NamesOf(by, t)'
      /\ \A w \in NamedThreads : ~Copies(by, w) /\ ~NamesOf(by, w)
      /\ \A w \in NamedThreads \ {t} : ~Copies(by, w)' /\ ~NamesOf(by, w)'
  BY <1>1, <1>3, <1>4 DEF Copies, NamesOf
<1>6. \A w \in NamedThreads \ {t} : /\ \A v \in Namers : (Copies(v, w)' <=> Copies(v, w)) /\ (NamesOf(v, w)' <=> NamesOf(v, w))
                                    /\ (Unnamed(w)' <=> Unnamed(w))
  <2>1. \A w \in NamedThreads \ {t} : \A v \in Namers : (Copies(v, w)' <=> Copies(v, w)) /\ (NamesOf(v, w)' <=> NamesOf(v, w))
    BY <1>4, <1>5
  <2> QED
    BY <2>1, UnnamedMeans
<1>7. ~Unnamed(t)' /\ \A v \in Namers : ~Copies(v, t) /\ ~NamesOf(v, t)
  BY <1>1, <1>5, UnnamedMeans, CopiersName
<1>8. NameTypes'
  BY <1>1, <1>4 DEF NameTypes, NamesTypeOK
<1>9. CopyInv'
  <2>1. ASSUME NEW w \in NamedThreads
        PROVE  /\ nameAt'[w] # "running" => naming'[w].step = "none"
               /\ nameAt'[w] = "unborn" => mName'[w] = NoName /\ given'[w] = NoName /\ Unnamed(w)'
               /\ (\A u \in Namers : ~Copies(u, w)') => mName'[w] = given'[w]
    <3>1. nameAt'[w] # "running" => naming'[w].step = "none"
      <4>1. nameAt'[w] # "running" => w # by
        BY <1>1, NamesAssumption
      <4> QED
        BY <1>0, <1>1, <1>4, <4>1 DEF CopyInv
    <3>2. CASE w = t
      BY <1>1, <1>5, <3>1, <3>2
    <3>3. CASE w # t
      BY <1>1, <1>6, <3>1, <3>3 DEF CopyInv
    <3> QED
      BY <3>2, <3>3
  <2>2. ASSUME NEW u \in Namers, NEW w \in NamedThreads, Copies(u, w)'
        PROVE  /\ naming'[u].name = given'[w]
               /\ naming'[u].step = "tail" => mName'[w][1] = given'[w][1]
               /\ \A v \in Namers : Copies(v, w)' => v = u
    <3>1. CASE w = t
      <4>1. u = by /\ \A v \in Namers : Copies(v, w)' => v = by
        BY <1>4, <1>7, <2>2, <3>1
      <4> QED
        BY <1>1, <1>3, <1>4, <3>1, <4>1
    <3>2. CASE w # t
      <4>1. u # by /\ naming'[u] = naming[u] /\ Copies(u, w)
        BY <1>4, <1>5, <2>2, <3>2
      <4> QED
        BY <1>1, <1>6, <3>2, <4>1 DEF CopyInv
    <3> QED
      BY <3>1, <3>2
  <2> QED
    BY <2>1, <2>2 DEF CopyInv
<1>10. OneselfInv'
  <2>1. ASSUME OnlyOneself, NEW w \in NamedThreads, w \notin unshown'
        PROVE  /\ ~Copies(w, w)' => mName'[w] = given'[w]
               /\ nameAt'[w] = "running" /\ ~NamesOf(w, w)' /\ mName'[w] # NoName => systemName'[w] = Shown(w)'
    <3>1. CASE w = t
      <4>1. by = t
        BY <1>1, <2>1, <3>1
      <4> QED
        BY <1>5, <3>1, <4>1
    <3>2. CASE w # t
      <4>1. Shown(w)' = Shown(w) /\ w \notin unshown
        BY <1>1, <2>1, <3>2 DEF Shown, LinuxName
      <4> QED
        BY <1>0, <1>1, <1>6, <2>1, <3>2, <4>1 DEF OneselfInv
    <3> QED
      BY <3>1, <3>2
  <2> QED
    BY <1>1, <2>1 DEF OneselfInv
<1>11. OthersInv'
  BY <1>1, <1>6, <1>7 DEF OthersInv
<1> QED
  BY <1>8, <1>9, <1>10, <1>11

\* What both halves of strncpy, and the step after them, have in common: the one
\* that names goes on with the same name, for the same thread.
LEMMA NamerGoesOn ==
    ASSUME NameInv, NEW by \in Namers, naming[by].step # "none",
           NEW step \in {"head", "tail", "system"}, naming' = [naming EXCEPT ![by].step = step],
           nameAt' = nameAt
    PROVE  /\ naming'[by].step = step /\ naming'[by].on = naming[by].on /\ naming'[by].name = naming[by].name
           /\ \A v \in Namers \ {by} : naming'[v] = naming[v]
           /\ \A v \in Namers \ {by}, w \in NamedThreads : Copies(v, w)' <=> Copies(v, w)
           /\ \A v \in Namers, w \in NamedThreads : NamesOf(v, w)' <=> NamesOf(v, w)
           /\ \A w \in NamedThreads : Unnamed(w)' <=> Unnamed(w)
           /\ naming' \in [Namers -> Namings]
           /\ naming[by].on \in NamedThreads /\ naming[by].name \in AnyNames
           /\ nameAt[naming[by].on] # "unborn" /\ ~Unnamed(naming[by].on) /\ NamesOf(by, naming[by].on)
           /\ \A w \in NamedThreads : nameAt'[w] # "running" => naming'[w].step = "none"
<1> USE DEF NameInv
<1> DEFINE x == [naming[by] EXCEPT !.step = step]
<1>1. /\ naming[by] \in [step : {"head", "tail", "system"}, on : NamedThreads, name : AnyNames]
      /\ naming[by].on \in NamedThreads /\ naming[by].name \in AnyNames
  BY NamersAre
<1>2. x \in Namings /\ x.step = step /\ x.on = naming[by].on /\ x.name = naming[by].name
  BY <1>1 DEF Namings
<1>3. naming' = [naming EXCEPT ![by] = x]
  OBVIOUS
<1> HIDE DEF x
<1>4. /\ naming'[by] = x
      /\ \A v \in Namers \ {by} : naming'[v] = naming[v]
      /\ \A v \in Namers \ {by}, w \in NamedThreads : (Copies(v, w)' <=> Copies(v, w)) /\ (NamesOf(v, w)' <=> NamesOf(v, w))
      /\ naming' \in [Namers -> Namings]
  BY <1>2, <1>3, OneNamerMoves
<1>5. \A w \in NamedThreads : NamesOf(by, w)' <=> NamesOf(by, w)
  BY <1>2, <1>4 DEF NamesOf
<1>6. \A v \in Namers, w \in NamedThreads : NamesOf(v, w)' <=> NamesOf(v, w)
  BY <1>4, <1>5
<1>7. \A w \in NamedThreads : Unnamed(w)' <=> Unnamed(w)
  BY <1>6, UnnamedMeans
<1>8. NamesOf(by, naming[by].on) /\ ~Unnamed(naming[by].on)
  <2>1. NamesOf(by, naming[by].on)
    BY DEF NamesOf
  <2> QED
    BY <1>1, <2>1, UnnamedMeans
<1>9. nameAt[naming[by].on] # "unborn"
  BY <1>1, <1>8 DEF CopyInv
<1>10. ASSUME NEW w \in NamedThreads, nameAt'[w] # "running"
       PROVE  naming'[w].step = "none"
  <2>1. w \in Namers /\ naming[w].step = "none"
    BY <1>10 DEF Namers, CopyInv
  <2>2. w # by
    BY <2>1
  <2> QED
    BY <1>4, <2>1, <2>2
<1> QED
  BY <1>1, <1>2, <1>4, <1>6, <1>7, <1>8, <1>9, <1>10

LEMMA CopiesHead ==
    ASSUME NameInv, NEW by \in Namers, CopyHead(by)
    PROVE  NameInv'
<1> USE DEF NameInv
<1> DEFINE t == naming[by].on
           n == naming[by].name
<1>1. /\ naming[by].step = "head" /\ naming' = [naming EXCEPT ![by].step = "tail"]
      /\ nameSystem' = nameSystem /\ systemName' = systemName /\ nameAt' = nameAt /\ given' = given /\ unshown' = unshown
      /\ mName' = [mName EXCEPT ![t][1] = n[1]] /\ (OnlyOneself' <=> OnlyOneself)
  BY DEF CopyHead, OnlyOneself
<1>2. /\ naming'[by].step = "tail" /\ naming'[by].on = t /\ naming'[by].name = n
      /\ \A v \in Namers \ {by} : naming'[v] = naming[v]
      /\ \A v \in Namers \ {by}, w \in NamedThreads : Copies(v, w)' <=> Copies(v, w)
      /\ \A v \in Namers, w \in NamedThreads : NamesOf(v, w)' <=> NamesOf(v, w)
      /\ \A w \in NamedThreads : Unnamed(w)' <=> Unnamed(w)
      /\ naming' \in [Namers -> Namings]
      /\ t \in NamedThreads /\ n \in AnyNames
      /\ nameAt[t] # "unborn" /\ ~Unnamed(t) /\ NamesOf(by, t)
      /\ \A w \in NamedThreads : nameAt'[w] # "running" => naming'[w].step = "none"
  BY <1>1, NamerGoesOn
<1>3. \A v \in Namers, w \in NamedThreads : Copies(v, w)' <=> Copies(v, w)
  <2>1. \A w \in NamedThreads : Copies(by, w)' <=> Copies(by, w)
    BY <1>1, <1>2 DEF Copies
  <2> QED
    BY <1>2, <2>1
<1>4. Copies(by, t) /\ n = given[t] /\ \A v \in Namers : Copies(v, t) => v = by
  <2>1. Copies(by, t)
    BY <1>1 DEF Copies
  <2> QED
    BY <1>2, <2>1 DEF CopyInv
<1> HIDE DEF t, n
<1>5. mName \in [NamedThreads -> AnyNames]
  BY DEF NameTypes, NamesTypeOK, AnyNames
<1>6. /\ mName'[t] = <<n[1], mName[t][2]>> /\ mName'[t][1] = n[1]
      /\ mName[t] = given[t] => mName'[t] = mName[t]
      /\ mName' \in [NamedThreads -> AnyNames]
      /\ \A w \in NamedThreads \ {t} : mName'[w] = mName[w]
  <2>1. mName[t] \in AnyNames
    BY <1>2, <1>5
  <2>2. mName'[t] = [mName[t] EXCEPT ![1] = n[1]]
    BY <1>1, <1>2, <1>5
  <2>3. [mName[t] EXCEPT ![1] = n[1]] = <<n[1], mName[t][2]>> /\ <<n[1], mName[t][2]>> \in AnyNames
        /\ <<n[1], mName[t][2]>>[1] = n[1]
    BY <1>2, <2>1, PartsOfNames
  <2>4. mName[t] = n => <<n[1], mName[t][2]>> = mName[t]
    BY <1>2, <2>1, PartsOfNames
  <2>5. mName' \in [NamedThreads -> AnyNames]
    BY <1>1, <1>2, <1>5, <2>2, <2>3
  <2>6. \A w \in NamedThreads \ {t} : mName'[w] = mName[w]
    BY <1>1, <1>5
  <2> QED
    BY <1>4, <2>2, <2>3, <2>4, <2>5, <2>6
<1>7. NameTypes'
  BY <1>1, <1>2, <1>6 DEF NameTypes, NamesTypeOK, AnyNames
<1>8. CopyInv'
  <2>1. ASSUME NEW w \in NamedThreads
        PROVE  /\ nameAt'[w] # "running" => naming'[w].step = "none"
               /\ nameAt'[w] = "unborn" => mName'[w] = NoName /\ given'[w] = NoName /\ Unnamed(w)'
               /\ (\A u \in Namers : ~Copies(u, w)') => mName'[w] = given'[w]
    <3>1. CASE w = t
      BY <1>1, <1>2, <1>3, <1>4, <3>1
    <3>2. CASE w # t
      BY <1>1, <1>2, <1>3, <1>6, <3>2 DEF CopyInv
    <3> QED
      BY <3>1, <3>2
  <2>2. ASSUME NEW u \in Namers, NEW w \in NamedThreads, Copies(u, w)'
        PROVE  /\ naming'[u].name = given'[w]
               /\ naming'[u].step = "tail" => mName'[w][1] = given'[w][1]
               /\ \A v \in Namers : Copies(v, w)' => v = u
    <3>0. Copies(u, w) /\ \A v \in Namers : Copies(v, w)' => v = u
      BY <1>3, <2>2 DEF CopyInv
    <3>1. CASE w = t
      <4>1. u = by
        BY <1>4, <3>0, <3>1
      <4> QED
        BY <1>1, <1>2, <1>4, <1>6, <3>0, <3>1, <4>1
    <3>2. CASE w # t
      <4>1. u # by
        BY <1>2, <2>2, <3>2 DEF Copies
      <4> QED
        BY <1>1, <1>2, <1>6, <3>0, <3>2, <4>1 DEF CopyInv
    <3> QED
      BY <3>1, <3>2
  <2> QED
    BY <2>1, <2>2 DEF CopyInv
<1>9. OneselfInv'
  <2>1. ASSUME OnlyOneself, NEW w \in NamedThreads, w \notin unshown
        PROVE  /\ ~Copies(w, w)' => mName'[w] = given'[w]
               /\ nameAt'[w] = "running" /\ ~NamesOf(w, w)' /\ mName'[w] # NoName => systemName'[w] = Shown(w)'
    <3>0. w \in Namers /\ (Copies(w, w)' <=> Copies(w, w)) /\ (NamesOf(w, w)' <=> NamesOf(w, w))
          /\ (Copies(w, w) => NamesOf(w, w))
      BY <1>2, <1>3, CopiersName DEF Namers
    <3>1. ~NamesOf(w, w) => mName'[w] = mName[w]
      BY <1>6, <2>1, <3>0 DEF OneselfInv
    <3>2. ~Copies(w, w) => mName[w] = given[w] /\ mName'[w] = mName[w]
      BY <1>6, <2>1, <3>0 DEF OneselfInv
    <3>3. mName'[w] = mName[w] => Shown(w)' = Shown(w)
      <4>1. /\ Shown(w) = IF nameSystem = "linux" THEN LinuxName(mName[w]) ELSE mName[w]
            /\ Shown(w)' = IF nameSystem' = "linux" THEN LinuxName(mName'[w]) ELSE mName'[w]
        BY DEF Shown, LinuxName
      <4> QED
        BY <1>1, <4>1
    <3> QED
      BY <1>1, <2>1, <3>0, <3>1, <3>2, <3>3 DEF OneselfInv
  <2> QED
    BY <1>1, <2>1 DEF OneselfInv
<1>10. OthersInv'
  <2>1. ASSUME ~OnlyOneself, NEW w \in NamedThreads
        PROVE  w \notin unshown /\ (Unnamed(w)' /\ mName'[w] # NoName => systemName'[w] = mName'[w])
    <3>1. Unnamed(w)' => w # t /\ Unnamed(w)
      BY <1>2
    <3> QED
      BY <1>1, <1>6, <2>1, <3>1 DEF OthersInv
  <2> QED
    BY <1>1, <2>1 DEF OthersInv
<1> QED
  BY <1>7, <1>8, <1>9, <1>10

LEMMA CopiesTail ==
    ASSUME NameInv, NEW by \in Namers, CopyTail(by)
    PROVE  NameInv'
<1> USE DEF NameInv
<1> DEFINE t == naming[by].on
           n == naming[by].name
<1>1. /\ naming[by].step = "tail" /\ naming' = [naming EXCEPT ![by].step = "system"]
      /\ nameSystem' = nameSystem /\ systemName' = systemName /\ nameAt' = nameAt /\ given' = given /\ unshown' = unshown
      /\ mName' = [mName EXCEPT ![t][2] = n[2]] /\ (OnlyOneself' <=> OnlyOneself)
  BY DEF CopyTail, OnlyOneself
<1>2. /\ naming'[by].step = "system" /\ naming'[by].on = t /\ naming'[by].name = n
      /\ \A v \in Namers \ {by} : naming'[v] = naming[v]
      /\ \A v \in Namers \ {by}, w \in NamedThreads : Copies(v, w)' <=> Copies(v, w)
      /\ \A v \in Namers, w \in NamedThreads : NamesOf(v, w)' <=> NamesOf(v, w)
      /\ \A w \in NamedThreads : Unnamed(w)' <=> Unnamed(w)
      /\ naming' \in [Namers -> Namings]
      /\ t \in NamedThreads /\ n \in AnyNames
      /\ nameAt[t] # "unborn" /\ ~Unnamed(t) /\ NamesOf(by, t)
      /\ \A w \in NamedThreads : nameAt'[w] # "running" => naming'[w].step = "none"
  BY <1>1, NamerGoesOn
<1>3. \A w \in NamedThreads : ~Copies(by, w)'
  BY <1>2 DEF Copies
<1>4. /\ Copies(by, t) /\ n = given[t] /\ n[1] = mName[t][1] /\ \A v \in Namers : Copies(v, t) => v = by
      /\ \A w \in NamedThreads \ {t} : ~Copies(by, w)
  <2>1. Copies(by, t) /\ \A w \in NamedThreads \ {t} : ~Copies(by, w)
    BY <1>1 DEF Copies
  <2> QED
    BY <1>1, <1>2, <2>1 DEF CopyInv
<1> HIDE DEF t, n
<1>5. mName \in [NamedThreads -> AnyNames]
  BY DEF NameTypes, NamesTypeOK, AnyNames
<1>6. /\ mName'[t] = given[t]
      /\ mName' \in [NamedThreads -> AnyNames]
      /\ \A w \in NamedThreads \ {t} : mName'[w] = mName[w]
  <2>1. mName[t] \in AnyNames
    BY <1>2, <1>5
  <2>2. mName'[t] = [mName[t] EXCEPT ![2] = n[2]]
    BY <1>1, <1>2, <1>5
  <2>3. [mName[t] EXCEPT ![2] = n[2]] = <<mName[t][1], n[2]>> /\ (mName[t][1] = n[1] => <<mName[t][1], n[2]>> = n)
    <3>1. PICK a \in AnyNames : a = mName[t]
      BY <2>1
    <3>2. PICK b \in AnyNames : b = n
      BY <1>2
    <3>3. [a EXCEPT ![2] = b[2]] = <<a[1], b[2]>> /\ (a[1] = b[1] => <<a[1], b[2]>> = b)
      BY PartsOfNames
    <3> QED
      BY <3>1, <3>2, <3>3
  <2>4. mName'[t] = n
    BY <1>4, <2>2, <2>3
  <2>5. mName' \in [NamedThreads -> AnyNames]
    BY <1>1, <1>2, <1>5, <2>2, <2>4
  <2>6. \A w \in NamedThreads \ {t} : mName'[w] = mName[w]
    BY <1>1, <1>5
  <2> QED
    BY <1>4, <2>4, <2>5, <2>6
<1>7. NameTypes'
  BY <1>1, <1>2, <1>6 DEF NameTypes, NamesTypeOK, AnyNames
<1>8. CopyInv'
  <2>1. ASSUME NEW w \in NamedThreads
        PROVE  /\ nameAt'[w] # "running" => naming'[w].step = "none"
               /\ nameAt'[w] = "unborn" => mName'[w] = NoName /\ given'[w] = NoName /\ Unnamed(w)'
               /\ (\A u \in Namers : ~Copies(u, w)') => mName'[w] = given'[w]
    <3>1. CASE w = t
      BY <1>1, <1>2, <1>6, <3>1
    <3>2. CASE w # t
      BY <1>1, <1>2, <1>3, <1>4, <1>6, <3>2 DEF CopyInv
    <3> QED
      BY <3>1, <3>2
  <2>2. ASSUME NEW u \in Namers, NEW w \in NamedThreads, Copies(u, w)'
        PROVE  /\ naming'[u].name = given'[w]
               /\ naming'[u].step = "tail" => mName'[w][1] = given'[w][1]
               /\ \A v \in Namers : Copies(v, w)' => v = u
    <3>1. u # by /\ Copies(u, w) /\ naming'[u] = naming[u] /\ w # t
      BY <1>2, <1>3, <1>4, <2>2
    <3> QED
      BY <1>1, <1>2, <1>3, <1>6, <3>1 DEF CopyInv
  <2> QED
    BY <2>1, <2>2 DEF CopyInv
<1>9. OneselfInv'
  <2>1. ASSUME OnlyOneself, NEW w \in NamedThreads, w \notin unshown
        PROVE  /\ ~Copies(w, w)' => mName'[w] = given'[w]
               /\ nameAt'[w] = "running" /\ ~NamesOf(w, w)' /\ mName'[w] # NoName => systemName'[w] = Shown(w)'
    <3>0. w \in Namers /\ (NamesOf(w, w)' <=> NamesOf(w, w)) /\ (w # by => (Copies(w, w)' <=> Copies(w, w)))
      BY <1>2 DEF Namers
    <3>1. ~NamesOf(w, w) => mName'[w] = mName[w]
      BY <1>2, <1>4, <1>6, <2>1, <3>0, CopiersName DEF OneselfInv
    <3>2. ~Copies(w, w)' => mName'[w] = given[w]
      BY <1>2, <1>4, <1>6, <2>1, <3>0 DEF OneselfInv
    <3>3. mName'[w] = mName[w] => Shown(w)' = Shown(w)
      <4>1. /\ Shown(w) = IF nameSystem = "linux" THEN LinuxName(mName[w]) ELSE mName[w]
            /\ Shown(w)' = IF nameSystem' = "linux" THEN LinuxName(mName'[w]) ELSE mName'[w]
        BY DEF Shown, LinuxName
      <4> QED
        BY <1>1, <4>1
    <3> QED
      BY <1>1, <2>1, <3>0, <3>1, <3>2, <3>3 DEF OneselfInv
  <2> QED
    BY <1>1, <2>1 DEF OneselfInv
<1>10. OthersInv'
  <2>1. ASSUME ~OnlyOneself, NEW w \in NamedThreads
        PROVE  w \notin unshown /\ (Unnamed(w)' /\ mName'[w] # NoName => systemName'[w] = mName'[w])
    <3>1. Unnamed(w)' => w # t /\ Unnamed(w)
      BY <1>2
    <3> QED
      BY <1>1, <1>6, <2>1, <3>1 DEF OthersInv
  <2> QED
    BY <1>1, <2>1 DEF OthersInv
<1> QED
  BY <1>7, <1>8, <1>9, <1>10

LEMMA TellsSystem ==
    ASSUME NameInv, NEW by \in Namers, TellSystem(by)
    PROVE  NameInv'
<1> USE DEF NameInv
<1> DEFINE t == naming[by].on
<1>1. /\ naming[by].step = "system" /\ naming' = [naming EXCEPT ![by] = NotNaming]
      /\ nameSystem' = nameSystem /\ mName' = mName /\ nameAt' = nameAt /\ given' = given /\ unshown' = unshown
      /\ (OnlyOneself' <=> OnlyOneself)
  BY DEF TellSystem, OnlyOneself
<1>2. t \in NamedThreads /\ NotNaming \in Namings /\ NotNaming.step = "none"
  BY <1>1, NamersAre DEF Namings, NotNaming
<1>3. /\ naming'[by] = NotNaming
      /\ \A v \in Namers \ {by} : naming'[v] = naming[v]
      /\ \A v \in Namers \ {by}, w \in NamedThreads : (Copies(v, w)' <=> Copies(v, w)) /\ (NamesOf(v, w)' <=> NamesOf(v, w))
      /\ naming' \in [Namers -> Namings]
  BY <1>1, <1>2, OneNamerMoves
<1>4. /\ \A w \in NamedThreads : ~Copies(by, w)' /\ ~NamesOf(by, w)' /\ ~Copies(by, w)
      /\ \A w \in NamedThreads \ {t} : ~NamesOf(by, w)
  BY <1>1, <1>2, <1>3 DEF Copies, NamesOf
<1>5. /\ mName \in [NamedThreads -> AnyNames] /\ systemName \in [NamedThreads -> AnyNames] /\ nameSystem \in NameSystems
      /\ given \in [NamedThreads -> Names]
  BY DEF NameTypes, NamesTypeOK, AnyNames
<1>6. /\ nameSystem \in {"linux", "apple", "bsd", "kettle", "windows"}
      /\ OnlyOneself <=> nameSystem \in {"linux", "apple"}
      /\ Shown(t) = IF nameSystem = "linux" THEN LinuxName(mName[t]) ELSE mName[t]
      /\ LinuxName(mName[t]) \in AnyNames
  <2>1. LinuxName(mName[t]) \in AnyNames
    <3>1. mName[t] \in {"", "a", "b"} \X {"", "x"} /\ NoName \in {"", "a", "b"} \X {"", "x"}
          /\ NoName[2] = ""
      BY <1>2, <1>5, NamesHaveHeads DEF AnyNames
    <3> DEFINE A == {"", "a", "b"}
               B == {"", "x"}
    <3>2. mName[t] \in A \X B /\ NoName \in A \X B
      BY <3>1
    <3> HIDE DEF A, B
    <3>3. <<mName[t][1], NoName[2]>> \in A \X B
      BY <3>2, PairsAre
    <3> QED
      BY <3>1, <3>3 DEF LinuxName, AnyNames, A, B
  <2> QED
    BY <1>5, <2>1, NamesAssumption DEF OnlyOneself, Shown
<1> HIDE DEF t
<1>7. /\ OnlyOneself /\ by # t => systemName' = systemName
      /\ OnlyOneself /\ by = t => systemName'[t] = Shown(t)
      /\ nameSystem \in {"bsd", "kettle"} => systemName'[t] = mName[t]
      /\ nameSystem = "windows" /\ mName[t][1] # "" => systemName'[t] = mName[t]
      /\ \A w \in NamedThreads \ {t} : systemName'[w] = systemName[w]
      /\ systemName' \in [NamedThreads -> AnyNames]
  <2>1. CASE nameSystem \in {"linux", "apple", "bsd"}
    <3>1. TellUnix(by)
      BY <2>1 DEF TellSystem
    <3>2. CASE OnlyOneself /\ by # t
      BY <1>5, <1>6, <2>1, <3>1, <3>2 DEF TellUnix, t
    <3>3. CASE ~(OnlyOneself /\ by # t)
      <4>1. systemName' = [systemName EXCEPT ![t] = Shown(t)]
        BY <1>6, <3>1, <3>3 DEF TellUnix, t
      <4>2. Shown(t) \in AnyNames
        BY <1>2, <1>5, <1>6
      <4>3. nameSystem = "bsd" => Shown(t) = mName[t]
        BY <1>6
      <4> HIDE DEF Shown
      <4> QED
        BY <1>2, <1>5, <2>1, <3>3, <4>1, <4>2, <4>3
    <3> QED
      BY <3>2, <3>3
  <2>2. CASE nameSystem = "kettle"
    <3>1. systemName' = [systemName EXCEPT ![t] = mName[t]]
      BY <2>2 DEF TellSystem, TellKettle, t
    <3> QED
      BY <1>2, <1>5, <1>6, <2>2, <3>1
  <2>3. CASE nameSystem = "windows"
    <3>1. systemName' = [systemName EXCEPT ![t] = IF mName[t][1] = "" THEN systemName[t] ELSE mName[t]]
      BY <2>3 DEF TellSystem, TellWindows, t
    <3> QED
      BY <1>2, <1>5, <1>6, <2>3, <3>1
  <2> QED
    BY <1>6, <2>1, <2>2, <2>3
<1>8. /\ \A w \in NamedThreads, v \in Namers : Copies(v, w)' <=> Copies(v, w)
      /\ \A w \in NamedThreads \ {t} : /\ \A v \in Namers : NamesOf(v, w)' <=> NamesOf(v, w)
                                       /\ Unnamed(w)' <=> Unnamed(w)
      /\ \A w \in NamedThreads : Unnamed(w) => Unnamed(w)'
  <2>1. /\ \A w \in NamedThreads, v \in Namers : Copies(v, w)' <=> Copies(v, w)
        /\ \A w \in NamedThreads \ {t}, v \in Namers : NamesOf(v, w)' <=> NamesOf(v, w)
        /\ \A w \in NamedThreads, v \in Namers : NamesOf(v, w)' => NamesOf(v, w)
    BY <1>3, <1>4
  <2> QED
    BY <2>1, UnnamedMeans
<1>9. NameTypes'
  BY <1>1, <1>3, <1>7 DEF NameTypes, NamesTypeOK, AnyNames
<1>10. CopyInv'
  <2>1. ASSUME NEW w \in NamedThreads
        PROVE  /\ nameAt'[w] # "running" => naming'[w].step = "none"
               /\ nameAt'[w] = "unborn" => mName'[w] = NoName /\ given'[w] = NoName /\ Unnamed(w)'
               /\ (\A u \in Namers : ~Copies(u, w)') => mName'[w] = given'[w]
    <3>1. nameAt'[w] # "running" => naming'[w].step = "none"
      <4>1. w \in Namers
        BY DEF Namers
      <4> QED
        BY <1>1, <1>2, <1>3, <4>1 DEF CopyInv
    <3> QED
      BY <1>1, <1>8, <3>1 DEF CopyInv
  <2>2. ASSUME NEW u \in Namers, NEW w \in NamedThreads, Copies(u, w)'
        PROVE  /\ naming'[u].name = given'[w]
               /\ naming'[u].step = "tail" => mName'[w][1] = given'[w][1]
               /\ \A v \in Namers : Copies(v, w)' => v = u
    <3>1. u # by /\ naming'[u] = naming[u] /\ Copies(u, w)
      BY <1>3, <1>4, <2>2
    <3> QED
      BY <1>1, <1>8, <3>1 DEF CopyInv
  <2> QED
    BY <2>1, <2>2 DEF CopyInv
<1>11. OneselfInv'
  <2>1. ASSUME OnlyOneself, NEW w \in NamedThreads, w \notin unshown
        PROVE  /\ ~Copies(w, w)' => mName'[w] = given'[w]
               /\ nameAt'[w] = "running" /\ ~NamesOf(w, w)' /\ mName'[w] # NoName => systemName'[w] = Shown(w)'
    <3>0. w \in Namers /\ Shown(w)' = Shown(w)
      BY <1>1 DEF Namers, Shown, LinuxName
    <3>1. ~Copies(w, w)' => mName'[w] = given'[w]
      BY <1>1, <1>8, <2>1, <3>0 DEF OneselfInv
    <3>2. CASE w = t /\ by = t
      BY <1>7, <2>1, <3>0, <3>1, <3>2
    <3>3. CASE w # t \/ by # t
      <4>1. systemName'[w] = systemName[w]
        BY <1>7, <2>1, <3>3
      <4>2. NamesOf(w, w)' <=> NamesOf(w, w)
        BY <1>3, <1>8, <3>0, <3>3
      <4> QED
        BY <1>1, <2>1, <3>0, <3>1, <4>1, <4>2 DEF OneselfInv
    <3> QED
      BY <3>2, <3>3
  <2> QED
    BY <1>1, <2>1 DEF OneselfInv
<1>12. OthersInv'
  <2>1. ASSUME ~OnlyOneself, NEW w \in NamedThreads
        PROVE  w \notin unshown /\ (Unnamed(w)' /\ mName'[w] # NoName => systemName'[w] = mName'[w])
    <3>1. CASE w # t
      BY <1>1, <1>7, <1>8, <2>1, <3>1 DEF OthersInv
    <3>2. CASE w = t /\ nameSystem \in {"bsd", "kettle"}
      BY <1>1, <1>7, <2>1, <3>2 DEF OthersInv
    <3>3. CASE w = t /\ nameSystem = "windows"
      <4>1. ASSUME Unnamed(w)', mName[w][1] = ""
            PROVE  mName[w] = NoName
        <5>1. \A v \in Namers : ~Copies(v, w)
          BY <1>8, <4>1, UnnamedMeans, CopiersName
        <5>2. mName[w] = given[w] /\ given[w] \in Names
          BY <1>5, <5>1 DEF CopyInv
        <5> QED
          BY <4>1, <5>2, NamesHaveHeads
      <4> QED
        BY <1>1, <1>7, <2>1, <3>3, <4>1 DEF OthersInv
    <3> QED
      BY <1>6, <2>1, <3>1, <3>2, <3>3
  <2> QED
    BY <1>1, <2>1 DEF OthersInv
<1> QED
  BY <1>9, <1>10, <1>11, <1>12

LEMMA NamesGoOn ==
    ASSUME CarefulNamers, NameInv, [NamesNext]_nameVars
    PROVE  NameInv'
<1>1. CASE UNCHANGED nameVars
  <2> USE <1>1 DEF nameVars
  <2>1. \A u \in Namers, w \in NamedThreads :
           (Copies(u, w)' <=> Copies(u, w)) /\ (NamesOf(u, w)' <=> NamesOf(u, w))
    BY DEF Copies, NamesOf
  <2>2. \A w \in NamedThreads : (Unnamed(w)' <=> Unnamed(w)) /\ Shown(w)' = Shown(w)
    BY DEF Unnamed, Shown, LinuxName
  <2>4. NameTypes'
    BY DEF NameInv, NameTypes, NamesTypeOK
  <2>5. CopyInv'
    BY <2>1, <2>2 DEF NameInv, CopyInv
  <2>6. NamedThreads \subseteq Namers /\ (OnlyOneself' <=> OnlyOneself)
    BY DEF Namers, OnlyOneself
  <2>7. OneselfInv'
    BY <2>1, <2>2, <2>6 DEF NameInv, OneselfInv
  <2>8. OthersInv'
    BY <2>2, <2>6 DEF NameInv, OthersInv
  <2> QED
    BY <2>4, <2>5, <2>7, <2>8 DEF NameInv
<1>2. ASSUME NEW t \in NamedThreads, NEW n \in Names, BeginNamed(t, n)
      PROVE  NameInv'
  BY <1>2, NamedAtBegin
<1>3. ASSUME NEW t \in NamedThreads, Resumes(t)
      PROVE  NameInv'
  BY <1>3, ResumesNamed
<1>4. ASSUME NEW t \in NamedThreads, StartNamed(t)
      PROVE  NameInv'
  BY <1>4, StartsNamed
<1>5. ASSUME NEW t \in NamedThreads, NEW by \in Namers, NEW n \in Names, SetThreadName(by, t, n)
      PROVE  NameInv'
  BY <1>5, SetsThreadName
<1>6. ASSUME NEW by \in Namers, CopyHead(by) \/ CopyTail(by) \/ TellSystem(by)
      PROVE  NameInv'
  BY <1>6, CopiesHead, CopiesTail, TellsSystem
<1> QED
  BY <1>1, <1>2, <1>3, <1>4, <1>5, <1>6 DEF NamesNext, Namers

LEMMA NameInvKeeps == NameInv => NamesAreKept
<1> SUFFICES ASSUME NameInv PROVE NamesAreKept
  OBVIOUS
<1> USE DEF NameInv
<1>1. NamesTypeOK
  BY DEF NameTypes
<1>2. ASSUME NEW t \in NamedThreads, nameAt[t] = "running", Unnamed(t)
      PROVE  /\ mName[t] = given[t]
             /\ t \notin unshown /\ mName[t] # NoName => systemName[t] = Shown(t)
  <2>1. t \in Namers /\ \A u \in Namers : ~NamesOf(u, t) /\ ~Copies(u, t)
    BY <1>2, UnnamedMeans, CopiersName DEF Namers
  <2>2. mName[t] = given[t]
    BY <2>1 DEF CopyInv
  <2>3. CASE OnlyOneself
    BY <1>2, <2>1, <2>2, <2>3 DEF OneselfInv
  <2>4. CASE ~OnlyOneself
    <3>1. Shown(t) = mName[t]
      BY <2>4 DEF Shown, OnlyOneself
    <3> QED
      BY <1>2, <2>2, <2>4, <3>1 DEF OthersInv
  <2> QED
    BY <2>3, <2>4
<1>3. NamesAgree
  BY <1>2 DEF NamesAgree, Shown
<1> QED
  BY <1>1, <1>3 DEF NamesAreKept

-----------------------------------------------------------------------------
(* Times.                                                                  *)

\* Quotients and remainders.
LEMMA ParametricDivision ==
    ASSUME NEW a \in Int, NEW n \in Int, n > 0, NEW q \in Int, q = a \div n, NEW r \in Int, r = a % n
    PROVE  a = q * n + r
<1> QED
  BY SMT

LEMMA Division ==
    ASSUME NEW a \in Int, NEW n \in Nat \ {0}
    PROVE  a \div n \in Int /\ a % n \in 0 .. n - 1 /\ a = (a \div n) * n + (a % n)
<1> DEFINE q == a \div n
           r == a % n
<1>1. q \in Int /\ r \in 0 .. n - 1
  BY SMT
<1>2. a = q * n + r
  BY <1>1, ParametricDivision
<1> QED
  BY <1>1, <1>2

LEMMA DivisionIs ==
    ASSUME NEW q \in Int, NEW n \in Nat \ {0}, NEW r \in 0 .. n - 1
    PROVE  (q * n + r) \div n = q /\ (q * n + r) % n = r
<1> QED
  BY SMT

\* Products.
LEMMA Distributes ==
    ASSUME NEW a \in Int, NEW b \in Int, NEW n \in Int
    PROVE  (a + b) * n = a * n + b * n /\ (a - b) * n = a * n - b * n /\ a * n \in Int /\ b * n \in Int
<1> QED
  BY SMT

LEMMA Apart ==
    ASSUME NEW a \in Int, NEW b \in Int, NEW n \in Nat \ {0}, a < b
    PROVE  a * n + n <= b * n /\ a * n \in Int /\ b * n \in Int
<1> QED
  BY SMT

LEMMA NanosecondsAre == NanosecondsPerSecond \in Nat \ {0}
<1> QED
  BY TimesAssumption, SMT DEF NanosecondsPerSecond

\* A ThreadTime that is normalized.
IsTime(t) == t.tv_sec \in Int /\ t.tv_nsec \in Int /\ Normalized(t)

LEMMA PartsOfTimes ==
    ASSUME NEW s, NEW n
    PROVE  /\ Time(s, n).tv_sec = s /\ Time(s, n).tv_nsec = n
           /\ Nanoseconds(Time(s, n)) = s * NanosecondsPerSecond + n
           /\ s \in Int /\ n \in 0 .. NanosecondsPerSecond - 1 => IsTime(Time(s, n))
<1> QED
  BY NanosecondsAre DEF Time, Nanoseconds, IsTime, Normalized

\* operator>= of normalized times.
LEMMA AtLeastIs ==
    ASSUME NEW t, NEW u, IsTime(t), IsTime(u)
    PROVE  /\ AtLeast(t, u) <=> Nanoseconds(t) >= Nanoseconds(u)
           /\ Nanoseconds(t) \in Int /\ Nanoseconds(u) \in Int
<1> DEFINE N == NanosecondsPerSecond
           a == t.tv_sec
           b == u.tv_sec
           i == t.tv_nsec
           j == u.tv_nsec
<1>1. N \in Nat \ {0} /\ a \in Int /\ b \in Int /\ i \in 0 .. N - 1 /\ j \in 0 .. N - 1
  BY NanosecondsAre DEF IsTime, Normalized
<1>2. /\ Nanoseconds(t) = a * N + i /\ Nanoseconds(u) = b * N + j
      /\ AtLeast(t, u) <=> IF a = b THEN i >= j ELSE a >= b
  BY DEF Nanoseconds, AtLeast
<1> HIDE DEF N, a, b, i, j
<1>3. a * N \in Int /\ b * N \in Int
  BY <1>1, Distributes
<1>4. CASE a = b
  BY <1>1, <1>2, <1>3, <1>4
<1>5. CASE a < b
  <2>1. a * N + N <= b * N
    BY <1>1, <1>5, Apart
  <2> QED
    BY <1>1, <1>2, <1>3, <1>5, <2>1
<1>6. CASE b < a
  <2>1. b * N + N <= a * N
    BY <1>1, <1>6, Apart
  <2> QED
    BY <1>1, <1>2, <1>3, <1>6, <2>1
<1> QED
  BY <1>1, <1>4, <1>5, <1>6

\* += and -= of normalized times are exact, and normalized.
LEMMA PlusIs ==
    ASSUME NEW t, NEW u, IsTime(t), IsTime(u)
    PROVE  /\ IsTime(Plus(t, u)) /\ Nanoseconds(Plus(t, u)) = Nanoseconds(t) + Nanoseconds(u)
           /\ IsTime(Minus(t, u)) /\ Nanoseconds(Minus(t, u)) = Nanoseconds(t) - Nanoseconds(u)
<1> DEFINE N == NanosecondsPerSecond
           a == t.tv_sec
           b == u.tv_sec
           i == t.tv_nsec
           j == u.tv_nsec
<1>1. N \in Nat \ {0} /\ a \in Int /\ b \in Int /\ i \in 0 .. N - 1 /\ j \in 0 .. N - 1
  BY NanosecondsAre DEF IsTime, Normalized
<1>2. Nanoseconds(t) = a * N + i /\ Nanoseconds(u) = b * N + j
  BY DEF Nanoseconds
<1>3. /\ Plus(t, u) = IF i + j >= N THEN Time(a + b + 1, i + j - N) ELSE Time(a + b, i + j)
      /\ Minus(t, u) = IF i - j < 0 THEN Time(a - b - 1, i - j + N) ELSE Time(a - b, i - j)
  <2>1. \A s, n : Time(s, n).tv_sec = s /\ Time(s, n).tv_nsec = n
    BY PartsOfTimes
  <2>2. Plus(t, u) = CarryOne(Time(a + b, i + j)) /\ Minus(t, u) = BorrowOne(Time(a - b, i - j))
    BY DEF Plus, Minus
  <2> DEFINE c == a + b
             d == a - b
             k == i + j
             l == i - j
  <2>3. Plus(t, u) = CarryOne(Time(c, k)) /\ Minus(t, u) = BorrowOne(Time(d, l))
    BY <2>2
  <2> HIDE DEF c, d, k, l
  <2>4. /\ Plus(t, u) = IF k >= N THEN Time(c + 1, k - N) ELSE Time(c, k)
        /\ Minus(t, u) = IF l < 0 THEN Time(d - 1, l + N) ELSE Time(d, l)
    BY <2>1, <2>3 DEF CarryOne, BorrowOne
  <2> HIDE DEF a, b, i, j, N
  <2> QED
    BY <1>1, <2>4, SMT DEF c, d, k, l
<1>4. \A s, n : /\ Nanoseconds(Time(s, n)) = s * N + n
                /\ s \in Int /\ n \in 0 .. N - 1 => IsTime(Time(s, n))
  BY PartsOfTimes
<1> HIDE DEF N, a, b, i, j
<1>5. /\ a * N \in Int /\ b * N \in Int
      /\ (a + b) * N = a * N + b * N /\ (a + b + 1) * N = a * N + b * N + N
      /\ (a - b) * N = a * N - b * N /\ (a - b - 1) * N = a * N - b * N - N
  BY <1>1, SMT
<1>6. IsTime(Plus(t, u)) /\ Nanoseconds(Plus(t, u)) = Nanoseconds(t) + Nanoseconds(u)
  <2>1. CASE i + j >= N
    BY <1>1, <1>2, <1>3, <1>4, <1>5, <2>1
  <2>2. CASE i + j < N
    BY <1>1, <1>2, <1>3, <1>4, <1>5, <2>2
  <2> QED
    BY <1>1, <2>1, <2>2
<1>7. IsTime(Minus(t, u)) /\ Nanoseconds(Minus(t, u)) = Nanoseconds(t) - Nanoseconds(u)
  <2>1. CASE i - j < 0
    BY <1>1, <1>2, <1>3, <1>4, <1>5, <2>1
  <2>2. CASE i - j >= 0
    BY <1>1, <1>2, <1>3, <1>4, <1>5, <2>2
  <2> QED
    BY <1>1, <2>1, <2>2
<1> QED
  BY <1>6, <1>7

\* So are the times that come from a clock, from milliseconds and from nanoseconds.
LEMMA TimesOfNumbers ==
    ASSUME NEW n \in Nat
    PROVE  /\ IsTime(Time(n \div NanosecondsPerSecond, n % NanosecondsPerSecond))
           /\ Nanoseconds(Time(n \div NanosecondsPerSecond, n % NanosecondsPerSecond)) = n
           /\ IsTime(FromMilliseconds(n))
           /\ IsTime(Time(0, n % NanosecondsPerSecond))
<1> DEFINE N == NanosecondsPerSecond
           P == MillisecondsPerSecond
           Q == NanosecondsPerMillisecond
<1>1. N \in Nat \ {0} /\ P \in Nat \ {0} /\ Q \in Nat \ {0} /\ N = P * Q
  BY NanosecondsAre, TimesAssumption DEF NanosecondsPerSecond
<1>2. /\ FromMilliseconds(n) = Time(n \div P, (n - (n \div P) * P) * Q)
      /\ \A s, m : /\ Nanoseconds(Time(s, m)) = s * N + m
                   /\ s \in Int /\ m \in 0 .. N - 1 => IsTime(Time(s, m))
  BY PartsOfTimes DEF FromMilliseconds, Quotient
<1> HIDE DEF N, P, Q
<1>3. n \in Int /\ n \div N \in Int /\ n % N \in 0 .. N - 1 /\ n = (n \div N) * N + (n % N)
  <2>1. n \in Int
    OBVIOUS
  <2> QED
    BY <1>1, <2>1, Division
<1>4. n \div P \in Int /\ n % P \in 0 .. P - 1 /\ n = (n \div P) * P + (n % P)
  BY <1>1, <1>3, Division
<1>5. (n - (n \div P) * P) * Q \in 0 .. N - 1
  <2>1. n - (n \div P) * P = n % P
    <3>1. (n \div P) * P \in Int
      BY <1>1, <1>4, Distributes
    <3> QED
      BY <1>1, <1>4, <3>1
  <2>2. (n % P) * Q + Q <= P * Q /\ (n % P) * Q \in Int /\ P * Q \in Int
    BY <1>1, <1>4, Apart
  <2>3. (n % P) * Q >= 0
    BY <1>1, <1>4, SMT
  <2> QED
    BY <1>1, <2>1, <2>2, <2>3
<1>6. IsTime(FromMilliseconds(n))
  BY <1>2, <1>4, <1>5
<1>7. IsTime(Time(n \div N, n % N)) /\ Nanoseconds(Time(n \div N, n % N)) = n /\ IsTime(Time(0, n % N))
  BY <1>2, <1>3
<1> QED
  BY <1>6, <1>7 DEF N

\* The absolute time that was calculated for when the caller wants to be woken.
IsAbsolute(absolute, when) ==
    /\ timeSystem = "posix" => IsTime(absolute) /\ Nanoseconds(absolute) = when
    /\ timeSystem = "windows32" =>
          absolute = (when + EATHREAD_MIN_ABSOLUTE_TIME) % Word /\ absolute # Word - 1
    /\ timeSystem \in {"windows64", "kettle", "cpp11"} => absolute = when + EATHREAD_MIN_ABSOLUTE_TIME

\* The time a wait ends is the one that was asked for, or, if that was over
\* already, the one it began.
WaitInv ==
    /\ wait.step # "idle" => wait.asked \in 0 .. MaxTime + MaxRelative
    /\ wait.step = "converted" =>
          wait.asked - time <= MaxRelative /\ IsAbsolute(wait.absolute, wait.asked)
    /\ wait.step = "waiting" =>
          /\ wait.since \in 0 .. time
          /\ timeSystem = "posix" => /\ IsAbsolute(wait.absolute, wait.asked)
                                     /\ time <= wait.asked \/ time = wait.since
          /\ timeSystem # "posix" => /\ wait.until \in Int /\ wait.until >= wait.asked /\ wait.until >= wait.since
                                     /\ time <= wait.until /\ wait.until \in {wait.asked, wait.since}
    /\ wait.step = "ended" /\ ~wait.hint => time >= wait.asked

TimeInv ==
    /\ TimeTypeOK /\ WaitInv
    /\ IsTime(threadTime.is) /\ Nanoseconds(threadTime.is) = threadTime.should

\* What a number less than the divisor leaves.
LEMMA SmallRemainder ==
    ASSUME NEW n \in Nat \ {0}, NEW r \in 0 .. n - 1
    PROVE  r % n = r
<1>1. (0 * n + r) % n = r
  BY DivisionIs
<1>2. 0 * n + r = r
  BY SMT
<1> QED
  BY <1>1, <1>2

LEMMA WordIs ==
    /\ Word \in Nat \ {0} /\ MaxTime \in Nat /\ MaxRelative \in Nat /\ MaxRelative < Word - 1
    /\ EATHREAD_MIN_ABSOLUTE_TIME = 1 /\ kTimeoutImmediate = 0 /\ INFINITE = Word - 1
    /\ Never = MaxTime + MaxRelative + 1
    /\ kTimeoutNone = IF timeSystem = "windows32" THEN Word - 1 ELSE MaxTime + MaxRelative + 2
<1>1. Word \in Nat \ {0} /\ MaxTime \in Nat /\ MaxRelative \in Nat /\ MaxRelative < Word - 1
  BY TimesAssumption
<1>2. EATHREAD_MIN_ABSOLUTE_TIME = 1 /\ Never = MaxTime + MaxRelative + 1
  BY DEF EATHREAD_MIN_ABSOLUTE_TIME, Never
<1>3. (MaxTime + MaxRelative + 1) + 1 = MaxTime + MaxRelative + 2
  BY <1>1
<1> QED
  BY <1>1, <1>2, <1>3 DEF kTimeoutImmediate, INFINITE, kTimeoutNone

\* GetThreadTime, by each system.
LEMMA ClockIs ==
    ASSUME timeSystem \in TimeSystems, time \in 0 .. MaxTime
    PROVE  /\ timeSystem \in {"windows32", "windows64", "kettle", "cpp11", "posix"}
           /\ timeSystem = "posix" => IsTime(GetThreadTime) /\ Nanoseconds(GetThreadTime) = time
           /\ timeSystem = "windows32" => GetThreadTime = (time + 1) % Word
           /\ timeSystem \in {"windows64", "kettle", "cpp11"} => GetThreadTime = time + 1
           /\ time \in Nat
<1>1. time \in Nat
  BY WordIs
<1>2. timeSystem \in {"windows32", "windows64", "kettle", "cpp11", "posix"}
  BY TimesAssumption
<1>3. CASE timeSystem = "posix"
  <2>1. GetThreadTime = Time(time \div NanosecondsPerSecond, time % NanosecondsPerSecond)
    BY <1>3 DEF GetThreadTime, PosixThreadTime
  <2> QED
    BY <1>1, <1>3, <2>1, TimesOfNumbers
<1>4. CASE timeSystem = "windows32"
  BY <1>1, <1>4, WordIs DEF GetThreadTime, WindowsThreadTime
<1>5. CASE timeSystem \in {"windows64", "kettle", "cpp11"}
  BY <1>1, <1>5, WordIs DEF GetThreadTime, WindowsThreadTime, Cpp11ThreadTime
<1> QED
  BY <1>1, <1>2, <1>3, <1>4, <1>5

LEMMA ConvertedIs ==
    ASSUME timeSystem \in TimeSystems, time \in 0 .. MaxTime, NEW r \in 0 .. MaxRelative,
           timeSystem = "windows32" => GetThreadTime + r < Word - 1
    PROVE  IsAbsolute(ConvertRelativeTime(r), time + r)
<1>0. time \in Nat /\ r \in Nat /\ timeSystem \in {"windows32", "windows64", "kettle", "cpp11", "posix"}
  BY ClockIs, WordIs
<1>1. CASE timeSystem = "posix"
  <2> DEFINE u == Time(r \div NanosecondsPerSecond, r % NanosecondsPerSecond)
  <2>1. ConvertRelativeTime(r) = Plus(GetThreadTime, u)
    BY <1>1 DEF ConvertRelativeTime
  <2>2. IsTime(u) /\ Nanoseconds(u) = r
    BY <1>0, TimesOfNumbers
  <2> HIDE DEF u
  <2>3. IsTime(GetThreadTime) /\ Nanoseconds(GetThreadTime) = time
    BY <1>1, ClockIs
  <2>4. IsTime(Plus(GetThreadTime, u)) /\ Nanoseconds(Plus(GetThreadTime, u)) = time + r
    BY <2>2, <2>3, PlusIs
  <2> QED
    BY <1>1, <2>1, <2>4 DEF IsAbsolute
<1>2. CASE timeSystem = "windows32"
  <2> DEFINE g == (time + 1) % Word
             q == (time + 1) \div Word
  <2>1. ConvertRelativeTime(r) = (g + r) % Word /\ g + r < Word - 1
    BY <1>2, ClockIs DEF ConvertRelativeTime
  <2>2. g \in 0 .. Word - 1 /\ q \in Int /\ time + 1 = q * Word + g
    BY <1>0, WordIs, Division
  <2> HIDE DEF g, q
  <2>3. g + r \in 0 .. Word - 1 /\ g + r # Word - 1
    BY <1>0, <2>1, <2>2, WordIs
  <2>4. (g + r) % Word = g + r
    BY <2>3, WordIs, SmallRemainder
  <2>5. q * Word \in Int /\ time + r + 1 = q * Word + (g + r)
    <3>1. q * Word \in Int
      BY <2>2, WordIs, Distributes
    <3> QED
      BY <1>0, <2>2, <3>1, WordIs
  <2>6. (q * Word + (g + r)) % Word = g + r
    BY <2>2, <2>3, WordIs, DivisionIs
  <2> QED
    BY <1>0, <1>2, <2>1, <2>3, <2>4, <2>5, <2>6, WordIs DEF IsAbsolute
<1>3. CASE timeSystem \in {"windows64", "kettle", "cpp11"}
  <2>1. ConvertRelativeTime(r) = time + 1 + r
    BY <1>3, ClockIs DEF ConvertRelativeTime
  <2> QED
    BY <1>0, <1>3, <2>1, WordIs DEF IsAbsolute
<1> QED
  BY <1>0, <1>1, <1>2, <1>3

\* The relative time of a wait is what is left of the time that was asked for,
\* even with a clock that will wrap.
LEMMA RelativeIs ==
    ASSUME timeSystem \in TimeSystems, time \in 0 .. MaxTime, WaitInv, wait.step = "converted",
           timeSystem # "posix", timeSystem = "windows32" => SameEpoch
    PROVE  /\ RelativeTimeout(wait.absolute) = IF wait.asked > time THEN wait.asked - time ELSE 0
           /\ RelativeTimeout(wait.absolute) # INFINITE
<1> DEFINE a == wait.asked
           c == wait.absolute
           d == a - time
<1>0. /\ time \in Nat /\ a \in 0 .. MaxTime + MaxRelative /\ a \in Nat /\ d \in Int /\ d <= MaxRelative
      /\ IsAbsolute(c, a) /\ timeSystem \in {"windows32", "windows64", "kettle", "cpp11"}
  BY ClockIs, WordIs DEF WaitInv
<1>1. d > 0 => d % Word = d
  BY <1>0, WordIs, SmallRemainder
<1>2. RelativeTimeout(c) = IF c = kTimeoutNone THEN Word - 1 ELSE IF c = 0 THEN 0
                           ELSE IF c > GetThreadTime THEN (c - GetThreadTime) % Word ELSE 0
  BY WordIs DEF RelativeTimeout
<1>3. CASE timeSystem = "windows32"
  <2> DEFINE g == (time + 1) % Word
             h == (a + 1) % Word
             q == (time + 1) \div Word
  <2>1. c = h /\ h # Word - 1 /\ GetThreadTime = g /\ (a + 1) \div Word = q
    BY <1>0, <1>3, ClockIs, WordIs DEF IsAbsolute, SameEpoch
  <2>2. g \in 0 .. Word - 1 /\ q \in Int /\ time + 1 = q * Word + g
    BY <1>0, WordIs, Division
  <2>3. h \in 0 .. Word - 1 /\ a + 1 = q * Word + h
    <3>1. a + 1 \in Int
      BY <1>0
    <3>2. (a + 1) % Word \in 0 .. Word - 1 /\ a + 1 = ((a + 1) \div Word) * Word + ((a + 1) % Word)
      BY <3>1, WordIs, Division
    <3> QED
      BY <2>1, <3>2
  <2> HIDE DEF g, h, q
  <2>4. q * Word \in Int
    BY <2>2, WordIs, Distributes
  <2>5. h - g = d
    BY <1>0, <2>2, <2>3, <2>4, WordIs
  <2>6. h > g <=> d > 0
    BY <2>2, <2>3, <2>5, WordIs
  <2>7. RelativeTimeout(c) = IF h = 0 THEN 0 ELSE IF h > g THEN d % Word ELSE 0
    BY <1>2, <1>3, <2>1, <2>5, WordIs
  <2>8. h = 0 => ~(d > 0)
    BY <2>2, <2>3, <2>6, WordIs
  <2> QED
    BY <1>0, <1>1, <2>6, <2>7, <2>8, WordIs
<1>4. CASE timeSystem \in {"windows64", "kettle", "cpp11"}
  <2>1. c = a + 1 /\ GetThreadTime = time + 1
    BY <1>0, <1>4, ClockIs, WordIs DEF IsAbsolute
  <2>2. c # kTimeoutNone /\ c # 0 /\ (c > GetThreadTime <=> d > 0) /\ c - GetThreadTime = d
    BY <1>0, <1>4, <2>1, WordIs
  <2>3. RelativeTimeout(c) = IF d > 0 THEN d % Word ELSE 0
    BY <1>2, <2>2
  <2> QED
    BY <1>0, <1>1, <2>3, WordIs
<1> QED
  BY <1>0, <1>3, <1>4

LEMMA TimeBegins == TimeInit => TimeInv
<1> SUFFICES ASSUME TimeInit PROVE TimeInv
  OBVIOUS
<1>1. IsTime(Time(0, 0)) /\ Nanoseconds(Time(0, 0)) = 0
  <2>1. 0 * NanosecondsPerSecond + 0 = 0
    BY NanosecondsAre, SMT
  <2> QED
    BY <2>1, NanosecondsAre, PartsOfTimes
<1>2. threadTime.is = Time(0, 0) /\ threadTime.should = 0 /\ wait.step = "idle" /\ time = 0 /\ timeSystem \in TimeSystems
  BY DEF TimeInit, NotWaiting
<1>3. TimeTypeOK
  BY <1>1, <1>2, WordIs DEF TimeTypeOK, IsTime
<1>4. WaitInv
  BY <1>2 DEF WaitInv
<1> QED
  BY <1>1, <1>2, <1>3, <1>4 DEF TimeInv

\* A wait begins, goes on or ends: the clock and the calculations stay.
LEMMA OnlyTheWait ==
    ASSUME TimeInv, UNCHANGED <<timeSystem, time, threadTime>>, WaitInv',
           wait'.step \in {"idle", "converted", "waiting", "ended"}
    PROVE  TimeInv'
<1>1. TimeTypeOK'
  BY DEF TimeInv, TimeTypeOK
<1>2. IsTime(threadTime'.is) /\ Nanoseconds(threadTime'.is) = threadTime'.should
  BY DEF TimeInv
<1>3. IsTime(threadTime.is)' /\ (Nanoseconds(threadTime.is) = threadTime.should)'
  BY <1>2 DEF IsTime, Nanoseconds, Normalized, NanosecondsPerSecond
<1> QED
  BY <1>1, <1>3 DEF TimeInv

LEMMA TimeIs ==
    ASSUME TimeInv
    PROVE  timeSystem \in TimeSystems /\ time \in 0 .. MaxTime /\ time \in Nat /\ WaitInv
<1> QED
  BY WordIs DEF TimeInv, TimeTypeOK

LEMMA WaitConverts ==
    ASSUME TimeInv, CarefulTimes, NEW r \in 0 .. MaxRelative, Converts(r)
    PROVE  TimeInv'
<1>1. /\ timeSystem \in TimeSystems /\ time \in 0 .. MaxTime /\ time \in Nat /\ r \in Nat
      /\ timeSystem' = timeSystem /\ time' = time /\ threadTime' = threadTime
  BY TimeIs, WordIs DEF Converts
<1>2. wait' = [step |-> "converted", asked |-> time + r, absolute |-> ConvertRelativeTime(r)]
  BY DEF Converts
<1>3. IsAbsolute(ConvertRelativeTime(r), time + r)
  BY <1>1, ConvertedIs DEF Converts
<1>4. /\ wait'.step = "converted" /\ wait'.asked = time + r
      /\ IsAbsolute(wait'.absolute, wait'.asked)
  BY <1>2, <1>3
<1>5. IsAbsolute(wait.absolute, wait.asked)'
  BY <1>1, <1>4 DEF IsAbsolute, IsTime, Nanoseconds, Normalized
<1>6. WaitInv'
  BY <1>1, <1>4, <1>5, WordIs DEF WaitInv
<1> QED
  BY <1>1, <1>4, <1>6, OnlyTheWait

LEMMA WaitBegins ==
    ASSUME TimeInv, CarefulTimes, Waits
    PROVE  TimeInv'
<1> DEFINE relative == RelativeTimeout(wait.absolute)
<1>1. /\ timeSystem \in TimeSystems /\ time \in 0 .. MaxTime /\ time \in Nat /\ WaitInv /\ wait.step = "converted"
      /\ timeSystem' = timeSystem /\ time' = time /\ threadTime' = threadTime
      /\ timeSystem = "windows32" => SameEpoch
  BY TimeIs DEF Waits
<1>2. /\ wait'.step = "waiting" /\ wait'.asked = wait.asked /\ wait'.absolute = wait.absolute /\ wait'.since = time
      /\ timeSystem # "posix" => wait'.until = IF relative = INFINITE THEN Never ELSE time + relative
  BY DEF Waits
<1>3. /\ wait.asked \in 0 .. MaxTime + MaxRelative /\ IsAbsolute(wait.absolute, wait.asked)
  BY <1>1 DEF WaitInv
<1>4. CASE timeSystem = "posix"
  <2>1. IsAbsolute(wait.absolute, wait.asked)'
    BY <1>1, <1>2, <1>3 DEF IsAbsolute, IsTime, Nanoseconds, Normalized
  <2>2. WaitInv'
    BY <1>1, <1>2, <1>3, <1>4, <2>1 DEF WaitInv
  <2> QED
    BY <1>1, <1>2, <2>2, OnlyTheWait
<1>5. CASE timeSystem # "posix"
  <2>1. relative = (IF wait.asked > time THEN wait.asked - time ELSE 0) /\ relative # INFINITE
    BY <1>1, <1>5, RelativeIs
  <2> HIDE DEF relative
  <2>2. wait'.until = IF wait.asked > time THEN wait.asked ELSE time
    BY <1>1, <1>2, <1>3, <1>5, <2>1, WordIs
  <2>3. WaitInv'
    BY <1>1, <1>2, <1>3, <1>5, <2>2, WordIs DEF WaitInv
  <2> QED
    BY <1>1, <1>2, <2>3, OnlyTheWait
<1> QED
  BY <1>4, <1>5

LEMMA Sleeps ==
    ASSUME TimeInv, NEW r \in 0 .. MaxRelative, PosixSleep(r) \/ WindowsSleep(r)
    PROVE  TimeInv'
<1>1. /\ timeSystem \in TimeSystems /\ time \in 0 .. MaxTime /\ time \in Nat /\ r \in Nat
      /\ timeSystem' = timeSystem /\ time' = time /\ threadTime' = threadTime
  BY TimeIs, WordIs DEF PosixSleep, WindowsSleep
<1>2. wait'.step = "waiting" /\ wait'.asked = time + r /\ wait'.since = time
  BY DEF PosixSleep, WindowsSleep
<1>3. CASE PosixSleep(r)
  <2>1. timeSystem = "posix" /\ wait'.absolute = ConvertRelativeTime(r)
    BY <1>3 DEF PosixSleep
  <2>2. IsAbsolute(ConvertRelativeTime(r), time + r)
    BY <1>1, <2>1, ConvertedIs
  <2>3. IsAbsolute(wait.absolute, wait.asked)'
    BY <1>1, <1>2, <2>1, <2>2 DEF IsAbsolute, IsTime, Nanoseconds, Normalized
  <2>4. WaitInv'
    BY <1>1, <1>2, <2>1, <2>3, WordIs DEF WaitInv
  <2> QED
    BY <1>1, <1>2, <2>4, OnlyTheWait
<1>4. CASE WindowsSleep(r)
  <2>1. timeSystem # "posix" /\ wait'.until = time + r
    BY <1>4 DEF WindowsSleep
  <2>2. WaitInv'
    BY <1>1, <1>2, <2>1, WordIs DEF WaitInv
  <2> QED
    BY <1>1, <1>2, <2>2, OnlyTheWait
<1> QED
  BY <1>3, <1>4

\* With POSIX the end of a wait is found by comparing two times.
LEMMA TimeIsUpMeans ==
    ASSUME TimeInv, wait.step = "waiting"
    PROVE  /\ timeSystem = "posix" => (TimeIsUp <=> time >= wait.asked)
           /\ timeSystem # "posix" => (TimeIsUp <=> time >= wait.until)
<1>1. /\ timeSystem \in TimeSystems /\ time \in 0 .. MaxTime /\ WaitInv
  BY TimeIs
<1>2. CASE timeSystem = "posix"
  <2>1. IsTime(wait.absolute) /\ Nanoseconds(wait.absolute) = wait.asked
    BY <1>1, <1>2 DEF WaitInv, IsAbsolute
  <2>2. IsTime(GetThreadTime) /\ Nanoseconds(GetThreadTime) = time
    BY <1>1, <1>2, ClockIs
  <2>3. AtLeast(GetThreadTime, wait.absolute) <=> time >= wait.asked
    BY <2>1, <2>2, AtLeastIs
  <2> QED
    BY <1>2, <2>3 DEF TimeIsUp
<1> QED
  BY <1>2 DEF TimeIsUp

LEMMA WaitEnds ==
    ASSUME TimeInv, TimesOut
    PROVE  TimeInv'
<1>1. /\ time \in Nat /\ WaitInv /\ wait.step = "waiting" /\ TimeIsUp
      /\ timeSystem' = timeSystem /\ time' = time /\ threadTime' = threadTime
      /\ wait'.step = "ended" /\ wait'.asked = wait.asked
  BY TimeIs DEF TimesOut, TimeIsUp
<1>2. time >= wait.asked
  <2>1. CASE timeSystem = "posix"
    BY <1>1, <2>1, TimeIsUpMeans
  <2>2. CASE timeSystem # "posix"
    <3>1. time >= wait.until /\ wait.until \in Int /\ wait.until >= wait.asked /\ wait.asked \in Int
      BY <1>1, <2>2, TimeIsUpMeans, WordIs DEF WaitInv
    <3> QED
      BY <1>1, <3>1
  <2> QED
    BY <2>1, <2>2
<1>3. WaitInv'
  BY <1>1, <1>2 DEF WaitInv
<1> QED
  BY <1>1, <1>3, OnlyTheWait

\* Nothing is said of when a sleep ends.
LEMMA SleepEnds ==
    ASSUME TimeInv, SleepEndsEarly
    PROVE  TimeInv'
<1>1. /\ timeSystem' = timeSystem /\ time' = time /\ threadTime' = threadTime
      /\ wait.step = "waiting" /\ wait'.step = "ended" /\ wait'.hint = TRUE /\ wait'.asked = wait.asked
  BY DEF SleepEndsEarly
<1>2. WaitInv'
  BY <1>1, TimeIs DEF WaitInv
<1> QED
  BY <1>1, <1>2, OnlyTheWait

LEMMA WaitReturns ==
    ASSUME TimeInv, Returns
    PROVE  TimeInv'
<1>1. timeSystem' = timeSystem /\ time' = time /\ threadTime' = threadTime /\ wait'.step = "idle"
  BY DEF Returns, NotWaiting
<1>2. WaitInv'
  BY <1>1 DEF WaitInv
<1> QED
  BY <1>1, <1>2, OnlyTheWait

LEMMA TimeGoesBy ==
    ASSUME TimeInv, Tick
    PROVE  TimeInv'
<1>1. /\ time \in Nat /\ WaitInv /\ ~TimeIsUp /\ time < MaxTime /\ time' = time + 1
      /\ timeSystem' = timeSystem /\ wait' = wait /\ threadTime' = threadTime
  BY TimeIs DEF Tick
<1>2. TimeTypeOK'
  BY <1>1, WordIs DEF TimeInv, TimeTypeOK
<1>3. wait.step \in {"converted", "waiting"} => (IsAbsolute(wait.absolute, wait.asked)' <=> IsAbsolute(wait.absolute, wait.asked))
  BY <1>1 DEF IsAbsolute, IsTime, Nanoseconds, Normalized
<1>4. CASE wait.step = "idle"
  <2>1. WaitInv'
    BY <1>1, <1>4 DEF WaitInv
  <2> QED
    BY <1>1, <1>2, <2>1 DEF TimeInv, IsTime, Nanoseconds, Normalized
<1>5. CASE wait.step = "converted"
  <2>1. WaitInv'
    BY <1>1, <1>3, <1>5, WordIs DEF WaitInv
  <2> QED
    BY <1>1, <1>2, <2>1 DEF TimeInv, IsTime, Nanoseconds, Normalized
<1>6. CASE wait.step = "waiting"
  <2>0. /\ timeSystem = "posix" => time < wait.asked
        /\ timeSystem # "posix" => time < wait.until
    BY <1>1, <1>6, TimeIsUpMeans, WordIs DEF WaitInv
  <2>1. WaitInv'
    BY <1>1, <1>3, <1>6, <2>0, WordIs DEF WaitInv
  <2> QED
    BY <1>1, <1>2, <2>1 DEF TimeInv, IsTime, Nanoseconds, Normalized
<1>7. CASE wait.step = "ended"
  <2>1. WaitInv'
    BY <1>1, <1>7, WordIs DEF WaitInv
  <2> QED
    BY <1>1, <1>2, <2>1 DEF TimeInv, IsTime, Nanoseconds, Normalized
<1> QED
  BY <1>4, <1>5, <1>6, <1>7 DEF TimeInv, TimeTypeOK

LEMMA CarryIs ==
    ASSUME NEW c, NEW k
    PROVE  CarryOne(Time(c, k)) = IF k >= NanosecondsPerSecond THEN Time(c + 1, k - NanosecondsPerSecond) ELSE Time(c, k)
<1> QED
  BY PartsOfTimes DEF CarryOne

LEMMA SomebodyCalculates ==
    ASSUME TimeInv, CarefulTimes, NEW ms \in -MaxRelative .. MaxRelative, Calculates(ms)
    PROVE  TimeInv'
<1>0. ms \in Nat /\ timeSystem' = timeSystem /\ time' = time /\ wait' = wait
  BY WordIs DEF Calculates
<1> DEFINE N == NanosecondsPerSecond
           one == Time(0, 1)
           short == Plus(Time(0, ms % N), one)
           is == threadTime.is
           should == threadTime.should
<1>1. IsTime(is) /\ Nanoseconds(is) = should /\ should \in Int
  <2>1. IsTime(is) /\ Nanoseconds(is) = should
    BY DEF TimeInv
  <2> QED
    BY <2>1, AtLeastIs
<1>2. PICK u \in {FromMilliseconds(ms), short} :
         \/ threadTime' = [is |-> Plus(is, u), should |-> should + Nanoseconds(u)]
         \/ threadTime' = [is |-> Minus(is, u), should |-> should - Nanoseconds(u)]
  BY DEF Calculates
<1>3. IsTime(u)
  <2>1. IsTime(FromMilliseconds(ms))
    BY <1>0, TimesOfNumbers
  <2>2. IsTime(short)
    <3> DEFINE m == ms % N
    <3>1. N \in Nat \ {0} /\ m \in 0 .. N - 1
      <4>1. ms \in Int
        BY <1>0
      <4> QED
        BY <4>1, NanosecondsAre, Division
    <3>2. \A s, n : /\ Time(s, n).tv_sec = s /\ Time(s, n).tv_nsec = n
                    /\ s \in Int /\ n \in 0 .. N - 1 => IsTime(Time(s, n))
      BY PartsOfTimes
    <3> HIDE DEF m
    <3>3. short = CarryOne(Time(0, m + 1))
      <4>1. 0 + 0 = 0
        OBVIOUS
      <4> QED
        BY <3>2, <4>1 DEF Plus, m
    <3> HIDE DEF short
    <3>4. short = IF m + 1 >= N THEN Time(1, 0) ELSE Time(0, m + 1)
      <4>1. CASE m + 1 >= N
        <5>1. m + 1 - N = 0 /\ 0 + 1 = 1
          BY <3>1, <4>1
        <5>2. CarryOne(Time(0, m + 1)) = Time(0 + 1, m + 1 - N)
          BY <3>1, <4>1, CarryIs
        <5> QED
          BY <3>3, <4>1, <5>1, <5>2
      <4>2. CASE ~(m + 1 >= N)
        BY <3>2, <3>3, <4>2 DEF CarryOne
      <4> QED
        BY <4>1, <4>2
    <3> HIDE DEF N
    <3> QED
      BY <3>1, <3>2, <3>4
  <2> HIDE DEF short
  <2> QED
    BY <2>1, <2>2
<1> HIDE DEF is, should
<1>4. /\ IsTime(Plus(is, u)) /\ Nanoseconds(Plus(is, u)) = should + Nanoseconds(u)
      /\ IsTime(Minus(is, u)) /\ Nanoseconds(Minus(is, u)) = should - Nanoseconds(u)
  BY <1>1, <1>3, PlusIs
<1>5. IsTime(threadTime'.is) /\ Nanoseconds(threadTime'.is) = threadTime'.should
  BY <1>2, <1>4
<1>6. IsTime(threadTime.is)' /\ (Nanoseconds(threadTime.is) = threadTime.should)'
  BY <1>5 DEF IsTime, Nanoseconds, Normalized, NanosecondsPerSecond
<1>7. WaitInv'
  BY <1>0 DEF TimeInv, WaitInv, IsAbsolute, IsTime, Nanoseconds, Normalized
<1>8. TimeTypeOK'
  BY <1>0, <1>6 DEF TimeInv, TimeTypeOK, IsTime
<1> QED
  BY <1>6, <1>7, <1>8 DEF TimeInv

LEMMA TimeGoesOn ==
    ASSUME CarefulTimes, TimeInv, [TimeNext]_timeVars
    PROVE  TimeInv'
<1>1. CASE UNCHANGED timeVars
  BY <1>1 DEF timeVars, TimeInv, TimeTypeOK, WaitInv, IsAbsolute, IsTime, Nanoseconds, Normalized
<1>2. ASSUME NEW r \in 0 .. MaxRelative, Converts(r) \/ PosixSleep(r) \/ WindowsSleep(r)
      PROVE  TimeInv'
  BY <1>2, WaitConverts, Sleeps
<1>3. CASE Waits \/ TimesOut \/ SleepEndsEarly \/ Returns \/ Tick
  BY <1>3, WaitBegins, WaitEnds, SleepEnds, WaitReturns, TimeGoesBy
<1>4. ASSUME NEW ms \in -MaxRelative .. MaxRelative, Calculates(ms)
      PROVE  TimeInv'
  BY <1>4, SomebodyCalculates
<1> QED
  BY <1>1, <1>2, <1>3, <1>4 DEF TimeNext

LEMMA TimeInvKeeps == TimeInv => TimeTypeOK /\ TimeoutsAreOnTime /\ TimesAreExact
<1> SUFFICES ASSUME TimeInv PROVE TimeTypeOK /\ TimeoutsAreOnTime /\ TimesAreExact
  OBVIOUS
<1>1. TimeTypeOK /\ TimesAreExact /\ time \in Nat
  BY TimeIs DEF TimeInv, IsTime, TimesAreExact
<1>2. wait.step = "ended" /\ ~wait.hint => time >= wait.asked
  BY DEF TimeInv, WaitInv
<1>3. wait.step = "waiting" => time <= wait.asked \/ time = wait.since
  BY <1>1, WordIs DEF TimeInv, WaitInv
<1> QED
  BY <1>1, <1>2, <1>3 DEF TimeoutsAreOnTime

-----------------------------------------------------------------------------
(* Sleeping on Kettle.                                                     *)

\* The queue a sleeper waits for is its own, or the shared one, which one thread
\* at a time uses.
OwnQueues ==
    /\ \A t \in Sleepers : sleeping[t].step = "queue" => sleeping[t].queue = QueueOf(t)
    /\ \A t, u \in Sleepers \ withData : sleeping[t].step # "awake" /\ sleeping[u].step # "awake" => t = u

\* The events of a queue, of which there is one for each sleeper that waits for
\* it, and otherwise none: what is left over would wake the next one too early.
EventsOf(q) == {e \in events : e.queue = q}

OwnEvents ==
    /\ \A t \in Sleepers : sleeping[t].step = "queue" =>
          \E e \in events : /\ EventsOf(sleeping[t].queue) = {e}
                            /\ sleeping[t].until <= e.due /\ e.due <= sleeping[t].until + kMinTimeForTimerEvent
    /\ \A e \in events : \E t \in Sleepers : sleeping[t].step = "queue" /\ sleeping[t].queue = e.queue
    /\ \A t \in Sleepers : sleeping[t].step = "over" => now >= sleeping[t].until

SleepInv == SleepTypeOK /\ OwnQueues /\ OwnEvents

LEMMA SleepBegins == SleepInit => SleepInv
<1> SUFFICES ASSUME SleepInit PROVE SleepInv
  OBVIOUS
<1> USE DEF SleepInit
<1>1. EventIds \in Nat \ {0} /\ GlobalQueue \in Queues /\ EAThreads \subseteq Sleepers
  BY SleepAssumption DEF Queues, Sleepers
<1>2. \A t \in Sleepers : sleeping[t].step = "awake"
  BY DEF Awake
<1>3. SleepTypeOK
  BY <1>1 DEF SleepTypeOK, Awake
<1>4. OwnQueues
  BY <1>2 DEF OwnQueues
<1>5. OwnEvents
  BY <1>2 DEF OwnEvents
<1> QED
  BY <1>3, <1>4, <1>5 DEF SleepInv

\* What changes when one thread goes to sleep or wakes up.
LEMMA SleeperMoves ==
    ASSUME SleepTypeOK, NEW t \in Sleepers,
           NEW s \in [step : {"awake", "queue", "nanosleep", "over"}, queue : Queues, until : Nat],
           sleeping' = [sleeping EXCEPT ![t] = s]
    PROVE  /\ sleeping'[t] = s /\ \A u \in Sleepers \ {t} : sleeping'[u] = sleeping[u]
           /\ sleeping' \in [Sleepers -> [step : {"awake", "queue", "nanosleep", "over"}, queue : Queues, until : Nat]]
<1> QED
  BY DEF SleepTypeOK

\* One thread per queue.
LEMMA QueuesAreOwn ==
    ASSUME SleepInv, NEW t \in Sleepers, NEW u \in Sleepers, sleeping[t].step = "queue", sleeping[u].step = "queue",
           sleeping[t].queue = sleeping[u].queue
    PROVE  t = u
<1>1. sleeping[t].queue = QueueOf(t) /\ sleeping[u].queue = QueueOf(u) /\ GlobalQueue \notin Sleepers
  BY SleepAssumption DEF SleepInv, OwnQueues
<1>2. CASE t \in withData \/ u \in withData
  BY <1>1, <1>2 DEF QueueOf
<1>3. CASE t \notin withData /\ u \notin withData
  BY <1>3 DEF SleepInv, OwnQueues
<1> QED
  BY <1>2, <1>3

\* The event of a sleeper is the only one of its queue.
LEMMA EventIsOwn ==
    ASSUME SleepInv, NEW t \in Sleepers, sleeping[t].step = "queue"
    PROVE  \E e \in events : /\ e.queue = sleeping[t].queue
                             /\ sleeping[t].until <= e.due /\ e.due <= sleeping[t].until + kMinTimeForTimerEvent
                             /\ \A f \in events : f.queue = sleeping[t].queue => f = e
<1> QED
  BY DEF SleepInv, OwnEvents, EventsOf

\* How the time of an event is made to suit.
LEMMA EventTimeIs ==
    ASSUME NEW r \in Nat, r >= kMinTimeForTimerEvent
    PROVE  /\ EventTime(r) \in Nat /\ kMinTimeForTimerEvent \in Nat
           /\ r <= EventTime(r) /\ EventTime(r) <= r + kMinTimeForTimerEvent
<1> DEFINE m == r % UnitsPerSecond
<1>1. UnitsPerSecond \in Nat \ {0} /\ kMinTimeForTimerEvent \in Nat \ {0} /\ r \in Int
  BY SleepAssumption
<1>2. m \in 0 .. UnitsPerSecond - 1
  BY <1>1, Division
<1>3. EventTime(r) = IF m < kMinTimeForTimerEvent /\ r >= UnitsPerSecond THEN r - m + kMinTimeForTimerEvent ELSE r
  BY DEF EventTime
<1> HIDE DEF m
<1> QED
  BY <1>1, <1>2, <1>3

LEMMA ThreadGetsData ==
    ASSUME SleepInv, NEW t \in Sleepers, GetsData(t)
    PROVE  SleepInv'
<1>1. /\ t \notin withData /\ sleeping[t].step = "awake" /\ withData' = withData \cup {t}
      /\ now' = now /\ enabled' = enabled /\ mCurrentId' = mCurrentId /\ events' = events /\ sleeping' = sleeping
  BY DEF GetsData
<1>2. SleepTypeOK'
  BY <1>1 DEF SleepInv, SleepTypeOK
<1>3. OwnQueues'
  BY <1>1 DEF SleepInv, OwnQueues, QueueOf
<1>4. OwnEvents'
  BY <1>1 DEF SleepInv, OwnEvents, EventsOf
<1> QED
  BY <1>2, <1>3, <1>4 DEF SleepInv

LEMMA GoesToSleep ==
    ASSUME SleepInv, CarefulSleepers, NEW t \in Sleepers, NEW r \in 1 .. MaxSleep, ThreadSleep(t, r)
    PROVE  SleepInv'
<1> USE DEF SleepInv
<1>1. /\ sleeping[t].step = "awake" /\ r \in Nat /\ r >= kMinTimeForTimerEvent
      /\ t \in withData \/ \A u \in Sleepers \ withData : sleeping[u].step = "awake"
      /\ now' = now /\ enabled' = enabled /\ withData' = withData /\ now \in Nat
  BY SleepAssumption DEF ThreadSleep, SleepTypeOK
<1>2. QueueOf(t) \in Queues /\ GlobalQueue \in Queues /\ GlobalQueue \notin Sleepers
  BY SleepAssumption DEF QueueOf, Queues
<1>3. /\ EventTime(r) \in Nat /\ r <= EventTime(r) /\ EventTime(r) <= r + kMinTimeForTimerEvent
      /\ kMinTimeForTimerEvent \in Nat
  BY <1>1, EventTimeIs
<1>4. CASE r < QueueLimit /\ QueueOf(t) \in enabled
  <2> DEFINE q == QueueOf(t)
             s == [step |-> "queue", queue |-> q, until |-> now + r]
             e == [queue |-> q, id |-> mCurrentId[q], due |-> now + EventTime(r)]
  <2>1. AddTimerEvent(q, r) /\ sleeping' = [sleeping EXCEPT ![t] = s]
    BY <1>4 DEF ThreadSleep
  <2>2. mCurrentId' = [mCurrentId EXCEPT ![q] = (mCurrentId[q] + 1) % EventIds] /\ events' = events \cup {e}
    BY <1>1, <1>3, <2>1 DEF AddTimerEvent
  <2>3. s \in [step : {"awake", "queue", "nanosleep", "over"}, queue : Queues, until : Nat]
        /\ s.step = "queue" /\ s.queue = q /\ s.until = now + r
    BY <1>1, <1>2
  <2>4. e \in [queue : Queues, id : 0 .. EventIds - 1, due : Nat] /\ e.queue = q /\ e.due = now + EventTime(r)
    BY <1>1, <1>2, <1>3 DEF SleepTypeOK
  <2>5. \A f \in events : f.queue # q
    <3> SUFFICES ASSUME NEW f \in events, f.queue = q PROVE FALSE
      OBVIOUS
    <3>1. PICK u \in Sleepers : sleeping[u].step = "queue" /\ sleeping[u].queue = q
      BY DEF OwnEvents
    <3>2. QueueOf(u) = QueueOf(t) /\ u # t
      BY <1>1, <3>1 DEF OwnQueues
    <3>3. u \notin withData /\ t \notin withData
      BY <1>2, <3>2 DEF QueueOf
    <3> QED
      BY <1>1, <3>1, <3>3
  <2> HIDE DEF s, e
  <2>6. /\ sleeping'[t] = s /\ \A u \in Sleepers \ {t} : sleeping'[u] = sleeping[u]
        /\ sleeping' \in [Sleepers -> [step : {"awake", "queue", "nanosleep", "over"}, queue : Queues, until : Nat]]
    BY <2>1, <2>3, SleeperMoves
  <2>7. (mCurrentId[q] + 1) % EventIds \in 0 .. EventIds - 1
    <3>1. mCurrentId[q] + 1 \in Int /\ EventIds \in Nat \ {0}
      BY <1>2, SleepAssumption DEF SleepTypeOK
    <3> QED
      BY <3>1, Division
  <2>8. SleepTypeOK'
    BY <1>1, <2>2, <2>4, <2>6, <2>7 DEF SleepTypeOK
  <2>9. OwnQueues'
    <3>1. \A u \in Sleepers : QueueOf(u)' = QueueOf(u)
      BY <1>1 DEF QueueOf
    <3>2. \A u \in Sleepers : sleeping'[u].step = "queue" => sleeping'[u].queue = QueueOf(u)
      BY <2>3, <2>6 DEF OwnQueues
    <3>3. \A u, v \in Sleepers \ withData : sleeping'[u].step # "awake" /\ sleeping'[v].step # "awake" => u = v
      BY <1>1, <2>6 DEF OwnQueues
    <3> QED
      BY <1>1, <3>1, <3>2, <3>3 DEF OwnQueues
  <2>10. OwnEvents'
    <3> HIDE DEF q
    <3>1. ASSUME NEW u \in Sleepers, sleeping'[u].step = "queue"
          PROVE  \E f \in events' : /\ EventsOf(sleeping[u].queue)' = {f}
                                    /\ sleeping'[u].until <= f.due /\ f.due <= sleeping'[u].until + kMinTimeForTimerEvent
      <4>1. CASE u = t
        <5>1. EventsOf(sleeping[u].queue)' = {e} /\ e \in events'
          BY <2>2, <2>3, <2>4, <2>5, <2>6, <4>1 DEF EventsOf
        <5>2. sleeping'[u].until <= e.due /\ e.due <= sleeping'[u].until + kMinTimeForTimerEvent
          BY <1>1, <1>3, <2>3, <2>4, <2>6, <4>1
        <5> QED
          BY <5>1, <5>2
      <4>2. CASE u # t
        <5>1. sleeping'[u] = sleeping[u]
          BY <2>6, <4>2
        <5>2. PICK f \in events : /\ EventsOf(sleeping[u].queue) = {f}
                                  /\ sleeping[u].until <= f.due /\ f.due <= sleeping[u].until + kMinTimeForTimerEvent
          BY <3>1, <5>1 DEF OwnEvents
        <5>3. sleeping[u].queue # q
          BY <2>5, <5>2 DEF EventsOf
        <5>4. EventsOf(sleeping[u].queue)' = {f} /\ f \in events'
          BY <2>2, <2>4, <5>1, <5>2, <5>3 DEF EventsOf
        <5> QED
          BY <5>1, <5>2, <5>4
      <4> QED
        BY <4>1, <4>2
    <3>2. ASSUME NEW f \in events'
          PROVE  \E u \in Sleepers : sleeping'[u].step = "queue" /\ sleeping'[u].queue = f.queue
      <4>1. CASE f = e
        BY <2>3, <2>4, <2>6, <4>1
      <4>2. CASE f # e
        <5>1. PICK u \in Sleepers : sleeping[u].step = "queue" /\ sleeping[u].queue = f.queue
          BY <2>2, <4>2 DEF OwnEvents
        <5>2. u # t
          BY <1>1, <5>1
        <5> QED
          BY <2>6, <5>1, <5>2
      <4> QED
        BY <4>1, <4>2
    <3>3. \A u \in Sleepers : sleeping'[u].step = "over" => now' >= sleeping'[u].until
      BY <1>1, <2>3, <2>6 DEF OwnEvents
    <3> QED
      BY <3>1, <3>2, <3>3 DEF OwnEvents
  <2> QED
    BY <2>8, <2>9, <2>10
<1>5. CASE ~(r < QueueLimit /\ QueueOf(t) \in enabled)
  <2> DEFINE s == [step |-> "nanosleep", queue |-> GlobalQueue, until |-> now + r]
  <2>1. sleeping' = [sleeping EXCEPT ![t] = s] /\ mCurrentId' = mCurrentId /\ events' = events
    BY <1>5 DEF ThreadSleep
  <2>2. s \in [step : {"awake", "queue", "nanosleep", "over"}, queue : Queues, until : Nat] /\ s.step = "nanosleep"
    BY <1>1, <1>2
  <2> HIDE DEF s
  <2>3. /\ sleeping'[t] = s /\ \A u \in Sleepers \ {t} : sleeping'[u] = sleeping[u]
        /\ sleeping' \in [Sleepers -> [step : {"awake", "queue", "nanosleep", "over"}, queue : Queues, until : Nat]]
    BY <2>1, <2>2, SleeperMoves
  <2>4. SleepTypeOK'
    BY <1>1, <2>1, <2>3 DEF SleepTypeOK
  <2>5. OwnQueues'
    <3>1. \A u \in Sleepers : QueueOf(u)' = QueueOf(u)
      BY <1>1 DEF QueueOf
    <3>2. \A u \in Sleepers : sleeping'[u].step = "queue" => sleeping'[u].queue = QueueOf(u)
      BY <2>2, <2>3 DEF OwnQueues
    <3>3. \A u, v \in Sleepers \ withData : sleeping'[u].step # "awake" /\ sleeping'[v].step # "awake" => u = v
      BY <1>1, <2>3 DEF OwnQueues
    <3> QED
      BY <1>1, <3>1, <3>2, <3>3 DEF OwnQueues
  <2>6. OwnEvents'
    <3>2. \A u \in Sleepers : sleeping'[u].step \in {"queue", "over"} => sleeping'[u] = sleeping[u]
      BY <2>2, <2>3
    <3>3. \A u \in Sleepers : sleeping[u].step = "queue" => sleeping'[u] = sleeping[u]
      BY <1>1, <2>3
    <3>4. ASSUME NEW u \in Sleepers, sleeping'[u].step = "queue"
          PROVE  \E f \in events' : /\ EventsOf(sleeping[u].queue)' = {f}
                                    /\ sleeping'[u].until <= f.due /\ f.due <= sleeping'[u].until + kMinTimeForTimerEvent
      <4>1. sleeping'[u] = sleeping[u]
        BY <3>2, <3>4
      <4>2. EventsOf(sleeping[u].queue)' = EventsOf(sleeping[u].queue)
        BY <2>1, <4>1 DEF EventsOf
      <4> QED
        BY <2>1, <3>4, <4>1, <4>2 DEF OwnEvents
    <3>5. \A f \in events' : \E u \in Sleepers : sleeping'[u].step = "queue" /\ sleeping'[u].queue = f.queue
      BY <2>1, <3>3 DEF OwnEvents
    <3>6. \A u \in Sleepers : sleeping'[u].step = "over" => now' >= sleeping'[u].until
      BY <1>1, <3>2 DEF OwnEvents
    <3> QED
      BY <3>4, <3>5, <3>6 DEF OwnEvents
  <2> QED
    BY <2>4, <2>5, <2>6
<1> QED
  BY <1>4, <1>5

\* A sleeper gets its event, which was its own: the sleep is over, and the queue empty.
LEMMA EventWakes ==
    ASSUME SleepInv, NEW t \in Sleepers, WaitEqueue(t)
    PROVE  SleepInv'
<1> USE DEF SleepInv
<1> DEFINE s == [sleeping[t] EXCEPT !.step = "over"]
<1>1. /\ sleeping[t].step = "queue" /\ sleeping' = [sleeping EXCEPT ![t] = s]
      /\ now' = now /\ enabled' = enabled /\ withData' = withData /\ mCurrentId' = mCurrentId /\ now \in Nat
  BY DEF WaitEqueue, SleepTypeOK
<1>2. PICK e \in events : e.queue = sleeping[t].queue /\ e.due <= now /\ events' = events \ {e}
  BY DEF WaitEqueue, Triggered
<1>3. s \in [step : {"awake", "queue", "nanosleep", "over"}, queue : Queues, until : Nat]
      /\ s.step = "over" /\ s.until = sleeping[t].until /\ s.until \in Nat
  BY DEF SleepTypeOK
<1> HIDE DEF s
<1>4. /\ sleeping'[t] = s /\ \A u \in Sleepers \ {t} : sleeping'[u] = sleeping[u]
      /\ sleeping' \in [Sleepers -> [step : {"awake", "queue", "nanosleep", "over"}, queue : Queues, until : Nat]]
  BY <1>1, <1>3, SleeperMoves
<1>5. sleeping[t].until <= e.due /\ e.due \in Nat /\ \A f \in events : f.queue = e.queue => f = e
  <2>1. e.due \in Nat
    BY DEF SleepTypeOK
  <2> QED
    BY <1>1, <1>2, <2>1, EventIsOwn
<1>6. \A u \in Sleepers \ {t} : sleeping[u].step = "queue" => sleeping[u].queue # e.queue
  BY <1>1, <1>2, QueuesAreOwn
<1>7. SleepTypeOK'
  BY <1>1, <1>2, <1>4 DEF SleepTypeOK
<1>8. OwnQueues'
  <2>1. \A u \in Sleepers : QueueOf(u)' = QueueOf(u)
    BY <1>1 DEF QueueOf
  <2>2. \A u \in Sleepers : sleeping'[u].step = "queue" => sleeping'[u].queue = QueueOf(u)
    BY <1>3, <1>4 DEF OwnQueues
  <2>3. \A u \in Sleepers : sleeping'[u].step # "awake" => sleeping[u].step # "awake"
    BY <1>1, <1>4
  <2>4. \A u, v \in Sleepers \ withData : sleeping'[u].step # "awake" /\ sleeping'[v].step # "awake" => u = v
    BY <2>3 DEF OwnQueues
  <2> QED
    BY <1>1, <2>1, <2>2, <2>4 DEF OwnQueues
<1>9. OwnEvents'
  <2>1. ASSUME NEW u \in Sleepers, sleeping'[u].step = "queue"
        PROVE  \E f \in events' : /\ EventsOf(sleeping[u].queue)' = {f}
                                  /\ sleeping'[u].until <= f.due /\ f.due <= sleeping'[u].until + kMinTimeForTimerEvent
    <3>1. u # t /\ sleeping'[u] = sleeping[u]
      BY <1>3, <1>4, <2>1
    <3>2. PICK f \in events : /\ EventsOf(sleeping[u].queue) = {f}
                              /\ sleeping[u].until <= f.due /\ f.due <= sleeping[u].until + kMinTimeForTimerEvent
      BY <2>1, <3>1 DEF OwnEvents
    <3>3. f # e /\ sleeping[u].queue # e.queue
      BY <1>6, <2>1, <3>1, <3>2 DEF EventsOf
    <3>4. EventsOf(sleeping[u].queue)' = {f} /\ f \in events'
      BY <1>2, <3>1, <3>2, <3>3 DEF EventsOf
    <3> QED
      BY <3>1, <3>2, <3>4
  <2>2. ASSUME NEW f \in events'
        PROVE  \E u \in Sleepers : sleeping'[u].step = "queue" /\ sleeping'[u].queue = f.queue
    <3>1. f \in events /\ f # e
      BY <1>2
    <3>2. PICK u \in Sleepers : sleeping[u].step = "queue" /\ sleeping[u].queue = f.queue
      BY <3>1 DEF OwnEvents
    <3>3. u # t
      BY <1>2, <1>5, <3>1, <3>2
    <3> QED
      BY <1>4, <3>2, <3>3
  <2>3. \A u \in Sleepers : sleeping'[u].step = "over" => now' >= sleeping'[u].until
    <3>1. now >= s.until
      BY <1>1, <1>2, <1>3, <1>5
    <3> QED
      BY <1>1, <1>4, <3>1 DEF OwnEvents
  <2> QED
    BY <2>1, <2>2, <2>3 DEF OwnEvents
<1> QED
  BY <1>7, <1>8, <1>9

\* A sleeper that waits for no queue wakes up, at any time, or one whose sleep is
\* over goes on.
LEMMA WakesUp ==
    ASSUME SleepInv, NEW t \in Sleepers, Nanosleep(t) \/ SleepReturns(t)
    PROVE  SleepInv'
<1> USE DEF SleepInv
<1>1. /\ sleeping[t].step \in {"nanosleep", "over"} /\ sleeping' = [sleeping EXCEPT ![t] = Awake]
      /\ now' = now /\ enabled' = enabled /\ withData' = withData /\ mCurrentId' = mCurrentId /\ events' = events
      /\ now \in Nat
  BY DEF Nanosleep, SleepReturns, SleepTypeOK
<1>2. Awake \in [step : {"awake", "queue", "nanosleep", "over"}, queue : Queues, until : Nat] /\ Awake.step = "awake"
  BY DEF Awake, Queues
<1>3. /\ sleeping'[t] = Awake /\ \A u \in Sleepers \ {t} : sleeping'[u] = sleeping[u]
      /\ sleeping' \in [Sleepers -> [step : {"awake", "queue", "nanosleep", "over"}, queue : Queues, until : Nat]]
  BY <1>1, <1>2, SleeperMoves
<1>4. SleepTypeOK'
  BY <1>1, <1>3 DEF SleepTypeOK
<1>5. OwnQueues'
  <2>1. \A u \in Sleepers : QueueOf(u)' = QueueOf(u)
    BY <1>1 DEF QueueOf
  <2>2. \A u \in Sleepers : sleeping'[u].step = "queue" => sleeping'[u].queue = QueueOf(u)
    BY <1>2, <1>3 DEF OwnQueues
  <2>3. \A u \in Sleepers : sleeping'[u].step # "awake" => sleeping[u].step # "awake"
    BY <1>1, <1>3
  <2>4. \A u, v \in Sleepers \ withData : sleeping'[u].step # "awake" /\ sleeping'[v].step # "awake" => u = v
    BY <2>3 DEF OwnQueues
  <2> QED
    BY <1>1, <2>1, <2>2, <2>4 DEF OwnQueues
<1>6. OwnEvents'
  <2>1. \A u \in Sleepers : sleeping[u].step = "queue" \/ sleeping'[u].step = "queue" => sleeping'[u] = sleeping[u]
    BY <1>1, <1>2, <1>3
  <2>2. ASSUME NEW u \in Sleepers, sleeping'[u].step = "queue"
        PROVE  \E f \in events' : /\ EventsOf(sleeping[u].queue)' = {f}
                                  /\ sleeping'[u].until <= f.due /\ f.due <= sleeping'[u].until + kMinTimeForTimerEvent
    <3>1. sleeping'[u] = sleeping[u]
      BY <2>1, <2>2
    <3>2. EventsOf(sleeping[u].queue)' = EventsOf(sleeping[u].queue)
      BY <1>1, <3>1 DEF EventsOf
    <3> QED
      BY <1>1, <2>2, <3>1, <3>2 DEF OwnEvents
  <2>3. \A f \in events' : \E u \in Sleepers : sleeping'[u].step = "queue" /\ sleeping'[u].queue = f.queue
    BY <1>1, <2>1 DEF OwnEvents
  <2>4. \A u \in Sleepers : sleeping'[u].step = "over" => now' >= sleeping'[u].until
    BY <1>1, <1>2, <1>3 DEF OwnEvents
  <2> QED
    BY <2>2, <2>3, <2>4 DEF OwnEvents
<1> QED
  BY <1>4, <1>5, <1>6

LEMMA SleepGoesOn ==
    ASSUME CarefulSleepers, SleepInv, [SleepNext]_sleepVars
    PROVE  SleepInv'
<1>1. CASE UNCHANGED sleepVars
  BY <1>1 DEF sleepVars, SleepInv, SleepTypeOK, OwnQueues, OwnEvents, EventsOf, QueueOf
<1>2. CASE TimePasses
  <2>1. /\ now' = now + 1 /\ enabled' = enabled /\ withData' = withData /\ mCurrentId' = mCurrentId
        /\ events' = events /\ sleeping' = sleeping /\ now \in Nat
    BY <1>2 DEF TimePasses, SleepInv, SleepTypeOK
  <2>2. SleepTypeOK' /\ OwnQueues'
    BY <2>1 DEF SleepInv, SleepTypeOK, OwnQueues, QueueOf
  <2>3. \A t \in Sleepers : sleeping[t].until \in Nat
    BY DEF SleepInv, SleepTypeOK
  <2>4. OwnEvents'
    BY <2>1, <2>3 DEF SleepInv, OwnEvents, EventsOf
  <2> QED
    BY <2>2, <2>4 DEF SleepInv
<1>3. ASSUME NEW t \in Sleepers, GetsData(t) \/ WaitEqueue(t) \/ Nanosleep(t) \/ SleepReturns(t)
      PROVE  SleepInv'
  BY <1>3, ThreadGetsData, EventWakes, WakesUp
<1>4. ASSUME NEW t \in Sleepers, NEW r \in 1 .. MaxSleep, ThreadSleep(t, r)
      PROVE  SleepInv'
  BY <1>4, GoesToSleep
<1> QED
  BY <1>1, <1>2, <1>3, <1>4 DEF SleepNext

LEMMA SleepInvKeeps == SleepInv => SleepTypeOK /\ SleepersHaveTheirEvents
<1> SUFFICES ASSUME SleepInv PROVE SleepersHaveTheirEvents
  BY DEF SleepInv
<1>1. ASSUME NEW t \in Sleepers, sleeping[t].step = "queue", now >= sleeping[t].until + kMinTimeForTimerEvent
      PROVE  Triggered(t) # {}
  <2>1. PICK e \in events : e.queue = sleeping[t].queue /\ e.due <= sleeping[t].until + kMinTimeForTimerEvent
    BY <1>1, EventIsOwn
  <2>2. e.due \in Nat /\ now \in Nat /\ sleeping[t].until \in Nat /\ kMinTimeForTimerEvent \in Nat
    BY SleepAssumption DEF SleepInv, SleepTypeOK
  <2>3. e.due <= now
    BY <1>1, <2>1, <2>2
  <2> QED
    BY <2>1, <2>3 DEF Triggered
<1> QED
  BY <1>1 DEF SleepersHaveTheirEvents, SleepInv, OwnEvents

-----------------------------------------------------------------------------
(* Processors.                                                             *)

\* The system has what was asked for w.
Done(w) ==
    CASE asked[w].kind = "nothing" -> TRUE
      [] asked[w].kind = "nowhere" -> ideal[w] = Nowhere
      [] asked[w].kind = "processor" /\ On({"windows"}) -> ideal[w] \in asked[w].set
      [] On({"cpp11"}) -> TRUE
      [] OTHER -> affinity[w] = asked[w].set

CallsOn(t, w) == call[t].kind # "none" /\ call[t].on = w

\* A call of the system that will have done what was asked.
Fulfils(c) ==
    /\ c.kind = "ideal" =>
          /\ On({"windows"})
          /\ \/ asked[c.on].kind = "nothing"
             \/ asked[c.on].kind = "nowhere" /\ c.to = Nowhere
             \/ asked[c.on].kind = "processor" /\ c.to \in asked[c.on].set
    /\ c.kind = "affinity" =>
          \/ asked[c.on].kind = "nothing"
          \/ asked[c.on].kind = "mask" /\ c.set = asked[c.on].set
          \/ asked[c.on].kind = "processor" /\ ~On({"windows"}) /\ c.set = asked[c.on].set

Calls == {NoCall} \cup [kind : {"affinity"}, on : Tasks, set : (SUBSET Processors) \ {{}}]
                  \cup [kind : {"ideal"}, on : Tasks, to : Processors \cup {Nowhere}]

ProcessorTypes ==
    /\ ProcessorsTypeOK
    /\ asked \in [Tasks -> [kind : {"nothing", "nowhere", "processor", "mask"}, set : SUBSET Processors]]
    /\ call \in [Tasks -> Calls]
    /\ begin \in {NoBegin} \cup [step : {"create", "apply", "resume"}, thread : Workers, processor : ProcessorAsks, mask : Masks]

\* The message that Begin leaves for a new thread says what was asked.
MessageInv(w) ==
    /\ data[w].startup \in Processors \cup {kProcessorDefault, kProcessorAny}
    /\ asked[w].kind # "nothing" =>
          asked[w].set = IF data[w].startup \in Processors THEN {data[w].startup} ELSE Processors

\* What was asked for a thread that runs is done, or some call is about to do it;
\* for one that starts it may also be left to the message.
TaskInv(w) ==
    /\ at[w] # "unborn" => data[w].id
    /\ at[w] = "suspended" => Begins(w)
    /\ at[w] = "starting" => Done(w) \/ (Linux /\ data[w].startup \in Processors)
    /\ at[w] = "running" => (w = MainThread \/ data[w].pid) /\ (Done(w) \/ \E t \in Tasks : CallsOn(t, w))
    /\ Linux /\ (Begins(w) \/ at[w] = "starting") => MessageInv(w)
    /\ data[w].mask = usersMask[w]
    /\ asked[w].kind = "nowhere" => On({"windows"})

CallInv(t) ==
    call[t].kind # "none" =>
        /\ at[t] = "running" /\ at[call[t].on] # "unborn" /\ Fulfils(call[t])
        /\ call[t].on = MainThread => t = MainThread

\* Begin: what it is about to apply is what was asked, and while it has not, it has
\* made no call.  Until it creates a thread that may run anywhere, it may so itself.
BeginInv ==
    LET w == begin.thread
    IN  /\ begin.step \in {"create", "apply"} =>
              /\ call[MainThread].kind = "none" /\ usersMask[w] = begin.mask
              /\ On({"kettle", "windows", "xboxone"}) => asked[w] = Asked(begin.processor, begin.mask)
        /\ begin.step = "create" =>
              /\ at[w] = "unborn" /\ ~data[w].id
              /\ On({"kettle"}) => data[w].startup = StartupProcessor(begin.processor)
              /\ Linux /\ asked[w].kind # "nothing" /\ data[w].startup \notin Processors
                    => affinity[MainThread] = Processors
        /\ begin.step = "apply" =>
              /\ On({"linux", "android", "windows", "xboxone"})
              /\ at[w] \in (IF Linux THEN {"starting", "running"} ELSE {"suspended"})
        /\ begin.step = "resume" =>
              /\ On({"windows", "xboxone"}) /\ at[w] = "suspended"
              /\ Done(w) \/ CallsOn(MainThread, w)

ProcessorInv ==
    /\ ProcessorTypes
    /\ at[MainThread] = "running"
    /\ \A w \in Tasks : TaskInv(w)
    /\ \A t \in Tasks : CallInv(t)
    /\ BeginInv

LEMMA ProcessorsAre ==
    /\ ProcessorCount \in Nat \ {0} /\ MaxProcessor \in Nat
    /\ Processors \subseteq Int /\ 0 \in Processors /\ Processors # {} /\ Processors = 0 .. ProcessorCount - 1
    /\ kProcessorAny = -2 /\ kProcessorDefault = -1 /\ Nowhere = -1
    /\ ProcessorAsks = -2 .. MaxProcessor
    /\ kProcessorAny \notin Processors /\ kProcessorDefault \notin Processors
    /\ MainThread \notin Workers /\ MainThread \in Tasks /\ Workers \subseteq Tasks
    /\ \A t \in Tasks : t \in Workers \/ t = MainThread
<1>1. ProcessorCount \in Nat \ {0} /\ MaxProcessor \in Nat /\ MainThread \notin Workers
  BY ProcessorsAssumption
<1> QED
  BY <1>1 DEF Processors, kProcessorAny, kProcessorDefault, Nowhere, ProcessorAsks, Tasks

LEMMA WorkersAre == \A w \in Workers : w \in Tasks /\ w # MainThread
<1> QED
  BY ProcessorsAre

LEMMA MasksAre == \A m \in Masks : m \in (SUBSET Processors) \ {{}}
<1> SUFFICES ASSUME NEW m \in Masks PROVE m \in (SUBSET Processors) \ {{}}
  OBVIOUS
<1>1. Processors # {}
  BY ProcessorsAre
<1>2. m = Processors \/ \E p \in Processors : m = {p}
  BY DEF Masks
<1> HIDE DEF Processors
<1> QED
  BY <1>1, <1>2

LEMMA ModuloCount ==
    ASSUME NEW p \in Int
    PROVE  /\ p % ProcessorCount \in Processors
           /\ p \in Processors => p % ProcessorCount = p
<1>1. p % ProcessorCount \in Processors
  BY ProcessorsAre, Division
<1>2. p \in Processors => p % ProcessorCount = p
  BY ProcessorsAre, SmallRemainder
<1> QED
  BY <1>1, <1>2

\* What Begin makes of the parameter.  With two processors kProcessorAny, which is
\* -2, would become the first of them.
LEMMA StartupIs ==
    ASSUME ProcessorCount # 2, NEW p \in ProcessorAsks
    PROVE  /\ StartupProcessor(p) \in ProcessorAsks
           /\ StartupProcessor(p) \in Processors \cup {kProcessorDefault, kProcessorAny}
           /\ p >= 0 => StartupProcessor(p) = p % ProcessorCount /\ StartupProcessor(p) \in Processors
           /\ p = kProcessorDefault => StartupProcessor(p) # kProcessorAny
           /\ p = kProcessorAny /\ StartupProcessor(p) # kProcessorAny => Processors = {StartupProcessor(p)}
           /\ p \in Int /\ (p < 0 => p \in {kProcessorDefault, kProcessorAny})
<1>1. p \in Int /\ (p < 0 => p \in {-1, -2})
  BY ProcessorsAre
<1>2. CASE p >= 0
  <2>1. StartupProcessor(p) = p % ProcessorCount
    BY <1>1, <1>2 DEF StartupProcessor, Remainder
  <2>2. p % ProcessorCount \in Processors /\ (p < ProcessorCount => p % ProcessorCount = p)
    <3>1. p < ProcessorCount => p \in Processors
      BY <1>1, <1>2, ProcessorsAre
    <3> QED
      BY <1>1, <3>1, ModuloCount
  <2>3. p % ProcessorCount <= p
    BY <1>1, <2>2, ProcessorsAre
  <2> QED
    BY <1>1, <1>2, <2>1, <2>2, <2>3, ProcessorsAre
<1>3. CASE p = -1
  <2>1. StartupProcessor(p) = -(1 % ProcessorCount)
    BY <1>3 DEF StartupProcessor, Remainder
  <2>2. CASE ProcessorCount = 1
    <3>1. (1 * 1 + 0) % 1 = 0
      BY DivisionIs
    <3> QED
      BY <1>3, <2>1, <2>2, <3>1, ProcessorsAre
  <2>3. CASE ProcessorCount # 1
    <3>1. 1 % ProcessorCount = 1
      BY <2>3, ProcessorsAre, SmallRemainder
    <3> QED
      BY <1>3, <2>1, <3>1, ProcessorsAre
  <2> QED
    BY <2>2, <2>3
<1>4. CASE p = -2
  <2>1. StartupProcessor(p) = -(2 % ProcessorCount)
    BY <1>4 DEF StartupProcessor, Remainder
  <2>2. CASE ProcessorCount = 1
    <3>1. (2 * 1 + 0) % 1 = 0
      BY DivisionIs
    <3>2. Processors = {0}
      BY <2>2, ProcessorsAre
    <3> QED
      BY <1>4, <2>1, <2>2, <3>1, <3>2, ProcessorsAre
  <2>3. CASE ProcessorCount # 1
    <3>1. 2 % ProcessorCount = 2
      BY <2>3, ProcessorsAre, SmallRemainder
    <3> QED
      BY <1>4, <2>1, <3>1, ProcessorsAre
  <2> QED
    BY <2>2, <2>3
<1> QED
  BY <1>1, <1>2, <1>3, <1>4

LEMMA PlatformIs ==
    ASSUME ProcessorTypes
    PROVE  /\ processorSystem \in {"linux", "android", "kettle", "windows", "xboxone", "cpp11"}
           /\ Linux <=> processorSystem \in {"linux", "android"}
<1> QED
  BY ProcessorsAssumption DEF ProcessorTypes, ProcessorsTypeOK, Linux, On

\* Done, case by case.
LEMMA DoneIs ==
    ASSUME NEW w, asked[w].kind \in {"nothing", "nowhere", "processor", "mask"},
           asked[w].kind = "nowhere" => On({"windows"})
    PROVE  /\ asked[w].kind = "nothing" => Done(w)
           /\ asked[w].kind = "nowhere" => (Done(w) <=> ideal[w] = Nowhere)
           /\ asked[w].kind = "processor" /\ On({"windows"}) => (Done(w) <=> ideal[w] \in asked[w].set)
           /\ asked[w].kind \in {"processor", "mask"} /\ On({"cpp11"}) => Done(w)
           /\ asked[w].kind \in {"processor", "mask"} /\ ~(asked[w].kind = "processor" /\ On({"windows"})) /\ ~On({"cpp11"})
                 => (Done(w) <=> affinity[w] = asked[w].set)
<1> QED
  BY DEF Done, On

LEMMA DoneStays ==
    ASSUME NEW w, affinity'[w] = affinity[w], ideal'[w] = ideal[w], asked'[w] = asked[w], processorSystem' = processorSystem
    PROVE  Done(w)' <=> Done(w)
<1> QED
  BY DEF Done, On

\* The call of a thread is none, or one for some thread.
LEMMA CallsAre ==
    ASSUME ProcessorTypes, NEW t \in Tasks
    PROVE  /\ call[t].kind \in {"none", "affinity", "ideal"} /\ (call[t].kind = "none" => call[t] = NoCall)
           /\ call[t].kind # "none" => call[t].on \in Tasks
           /\ call[t].kind = "affinity" => call[t].set \in (SUBSET Processors) \ {{}}
           /\ call[t].kind = "ideal" => call[t].to \in Processors \cup {Nowhere}
<1>1. call[t] \in Calls
  BY DEF ProcessorTypes
<1>2. CASE call[t] = NoCall
  BY <1>2 DEF NoCall
<1>3. CASE call[t] \in [kind : {"affinity"}, on : Tasks, set : (SUBSET Processors) \ {{}}]
  BY <1>3
<1>4. CASE call[t] \in [kind : {"ideal"}, on : Tasks, to : Processors \cup {Nowhere}]
  BY <1>4
<1> QED
  BY <1>1, <1>2, <1>3, <1>4 DEF Calls

LEMMA BeginsAre ==
    ASSUME ProcessorTypes
    PROVE  /\ begin.step \in {"none", "create", "apply", "resume"}
           /\ begin.step # "none" =>
                 /\ begin.thread \in Workers /\ begin.processor \in ProcessorAsks /\ begin.mask \in Masks
                 /\ begin \in [step : {"create", "apply", "resume"}, thread : Workers, processor : ProcessorAsks, mask : Masks]
                 /\ Begins(begin.thread) /\ \A u : Begins(u) => u = begin.thread
           /\ begin.step = "none" => \A u : ~Begins(u)
<1>1. begin \in {NoBegin} \cup [step : {"create", "apply", "resume"}, thread : Workers, processor : ProcessorAsks, mask : Masks]
  BY DEF ProcessorTypes
<1>2. CASE begin = NoBegin
  BY <1>2 DEF NoBegin, Begins
<1>3. CASE begin \in [step : {"create", "apply", "resume"}, thread : Workers, processor : ProcessorAsks, mask : Masks]
  BY <1>3 DEF Begins
<1> QED
  BY <1>1, <1>2, <1>3

\* What is not touched stays.
LEMMA OthersStay ==
    ASSUME NEW W \in SUBSET Tasks, processorSystem' = processorSystem,
           \A u \in W : /\ affinity'[u] = affinity[u] /\ ideal'[u] = ideal[u] /\ data'[u] = data[u] /\ at'[u] = at[u]
                        /\ asked'[u] = asked[u] /\ usersMask'[u] = usersMask[u],
           \A u \in W : Begins(u)' <=> Begins(u),
           \A t \in Tasks, u \in W : CallsOn(t, u) => CallsOn(t, u)',
           \A u \in Tasks : TaskInv(u)
    PROVE  \A u \in W : TaskInv(u)'
<1> SUFFICES ASSUME NEW u \in W PROVE TaskInv(u)'
  OBVIOUS
<1>1. TaskInv(u) /\ (Done(u)' <=> Done(u)) /\ (Begins(u)' <=> Begins(u)) /\ \A t \in Tasks : CallsOn(t, u) => CallsOn(t, u)'
  BY DoneStays
<1>2. (Linux' <=> Linux) /\ (On({"windows"})' <=> On({"windows"})) /\ (MessageInv(u)' <=> MessageInv(u))
  BY DEF Linux, On, MessageInv
<1>3. /\ affinity'[u] = affinity[u] /\ ideal'[u] = ideal[u] /\ data'[u] = data[u] /\ at'[u] = at[u]
      /\ asked'[u] = asked[u] /\ usersMask'[u] = usersMask[u]
  OBVIOUS
<1> QED
  BY <1>1, <1>2, <1>3 DEF TaskInv

LEMMA CallStays ==
    ASSUME NEW t \in Tasks, processorSystem' = processorSystem, call'[t] = call[t], CallInv(t),
           at[t] = "running" => at'[t] = "running",
           call[t].kind # "none" /\ at[call[t].on] # "unborn" =>
              at'[call[t].on] # "unborn" /\ asked'[call[t].on] = asked[call[t].on]
    PROVE  CallInv(t)'
<1>1. CASE call[t].kind = "none"
  BY <1>1 DEF CallInv
<1>2. CASE call[t].kind # "none"
  <2>1. /\ at[t] = "running" /\ at[call[t].on] # "unborn" /\ Fulfils(call[t])
        /\ at'[t] = "running" /\ at'[call[t].on] # "unborn" /\ asked'[call[t].on] = asked[call[t].on]
    BY <1>2 DEF CallInv
  <2>2. Fulfils(call[t])'
    BY <2>1 DEF Fulfils, On
  <2> QED
    BY <2>1, <2>2 DEF CallInv
<1> QED
  BY <1>1, <1>2

LEMMA ProcessorsBegin == ProcessorsInit => ProcessorInv
<1> SUFFICES ASSUME ProcessorsInit PROVE ProcessorInv
  OBVIOUS
<1> USE DEF ProcessorsInit
<1>1. /\ kProcessorDefault \in ProcessorAsks /\ Processors \in (SUBSET Processors) \ {{}}
      /\ at \in [Tasks -> {"unborn", "suspended", "starting", "running"}]
      /\ at[MainThread] = "running" /\ \A w \in Workers : at[w] = "unborn"
  <2>1. kProcessorDefault \in ProcessorAsks /\ Processors \in (SUBSET Processors) \ {{}}
    <3>1. kProcessorDefault \in ProcessorAsks
      BY ProcessorsAre
    <3>2. Processors # {}
      BY ProcessorsAre
    <3> QED
      BY <3>1, <3>2
  <2>2. \A t \in Tasks : at[t] = IF t = MainThread THEN "running" ELSE "unborn"
    OBVIOUS
  <2>3. at \in [Tasks -> {"unborn", "suspended", "starting", "running"}]
    OBVIOUS
  <2> QED
    BY <2>1, <2>2, <2>3, ProcessorsAre
<1>2. data \in [Tasks -> [startup : ProcessorAsks, mask : SUBSET Processors, id : BOOLEAN, pid : BOOLEAN]]
  <2>1. \A t \in Tasks : (t = MainThread) \in BOOLEAN
    OBVIOUS
  <2> QED
    BY <1>1, <2>1
<1>3. ProcessorsTypeOK
  BY <1>1, <1>2, ProcessorsAre DEF ProcessorsTypeOK
<1>4. ProcessorTypes
  BY <1>3, ProcessorsAre DEF ProcessorTypes, Nothing, Calls
<1>5. \A w \in Tasks : TaskInv(w)
  BY <1>1, ProcessorsAre DEF TaskInv, Done, On, NoBegin, Begins, Nothing
<1>6. \A t \in Tasks : CallInv(t)
  BY DEF CallInv, NoCall
<1>7. BeginInv
  BY DEF BeginInv, NoBegin
<1> QED
  BY <1>1, <1>4, <1>5, <1>6, <1>7, ProcessorsAre DEF ProcessorInv

LEMMA BeginStays ==
    ASSUME ProcessorTypes, BeginInv, begin' = begin, processorSystem' = processorSystem,
           begin.step \in {"create", "apply"} => call'[MainThread].kind = "none",
           begin.step = "create" => affinity'[MainThread] = affinity[MainThread],
           \A v \in Workers : Begins(v) =>
              /\ at'[v] = at[v] \/ (Linux /\ begin.step = "apply" /\ at'[v] = "running")
              /\ data'[v].id = data[v].id
              /\ begin.step \in {"create", "apply"} => usersMask'[v] = usersMask[v]
              /\ begin.step \in {"create", "apply"} /\ ~Linux => asked'[v] = asked[v] /\ data'[v].startup = data[v].startup
              /\ begin.step = "create" => \/ asked'[v] = asked[v] /\ data'[v].startup = data[v].startup
                                         \/ data'[v].startup \in Processors
              /\ begin.step = "resume" => Done(v)' \/ CallsOn(MainThread, v)'
    PROVE  BeginInv'
<1>1. /\ On({"kettle"})' = On({"kettle"}) /\ On({"windows", "xboxone"})' = On({"windows", "xboxone"})
      /\ On({"kettle", "windows", "xboxone"})' = On({"kettle", "windows", "xboxone"})
      /\ On({"linux", "android", "windows", "xboxone"})' = On({"linux", "android", "windows", "xboxone"})
      /\ Linux' = Linux /\ On({"linux", "android"})' = On({"linux", "android"})
      /\ \A p, mask : Asked(p, mask)' = Asked(p, mask)
      /\ \A p : StartupProcessor(p)' = StartupProcessor(p)
  BY DEF On, Linux, Asked, StartupProcessor, Remainder
<1>2. CASE begin.step = "none"
  BY <1>2 DEF BeginInv
<1>3. CASE begin.step # "none"
  <2>1. PICK v \in Workers : v = begin.thread
    BY <1>3, BeginsAre
  <2>2. /\ at'[v] = at[v] \/ (Linux /\ begin.step = "apply" /\ at'[v] = "running")
        /\ data'[v].id = data[v].id
        /\ begin.step \in {"create", "apply"} => usersMask'[v] = usersMask[v]
        /\ begin.step \in {"create", "apply"} /\ ~Linux => asked'[v] = asked[v] /\ data'[v].startup = data[v].startup
        /\ begin.step = "create" => \/ asked'[v] = asked[v] /\ data'[v].startup = data[v].startup
                                   \/ data'[v].startup \in Processors
        /\ begin.step = "resume" => Done(v)' \/ CallsOn(MainThread, v)'
    BY <1>3, <2>1 DEF Begins
  <2>3. On({"kettle", "windows", "xboxone"}) => ~Linux
    BY DEF On, Linux
  <2>4. On({"kettle"}) => On({"kettle", "windows", "xboxone"})
    BY DEF On
  <2>5. begin'.thread = v /\ begin'.step = begin.step /\ begin'.mask = begin.mask /\ begin'.processor = begin.processor
    BY <2>1
  <2>6. begin.step \in {"create", "apply"} =>
           /\ call'[MainThread].kind = "none" /\ usersMask'[v] = begin.mask
           /\ On({"kettle", "windows", "xboxone"}) => asked'[v] = Asked(begin.processor, begin.mask)
    BY <2>1, <2>2, <2>3 DEF BeginInv
  <2>7. begin.step = "create" =>
           /\ at'[v] = "unborn" /\ ~data'[v].id
           /\ On({"kettle"}) => data'[v].startup = StartupProcessor(begin.processor)
    BY <2>1, <2>2, <2>3, <2>4 DEF BeginInv
  <2>10. begin.step = "create" =>
            (Linux /\ asked'[v].kind # "nothing" /\ data'[v].startup \notin Processors => affinity'[MainThread] = Processors)
    <3>1. begin.step = "create" =>
             (Linux /\ asked[v].kind # "nothing" /\ data[v].startup \notin Processors => affinity[MainThread] = Processors)
      BY <2>1 DEF BeginInv
    <3> HIDE DEF Processors, BeginInv
    <3> QED
      BY <2>2, <3>1
  <2>8. begin.step = "apply" =>
              /\ On({"linux", "android", "windows", "xboxone"})
              /\ at'[v] \in (IF Linux THEN {"starting", "running"} ELSE {"suspended"})
    BY <2>1, <2>2 DEF BeginInv
  <2>9. begin.step = "resume" => On({"windows", "xboxone"}) /\ at'[v] = "suspended"
    BY <2>1, <2>2 DEF BeginInv
  <2> QED
    BY <1>1, <2>1, <2>2, <2>5, <2>6, <2>7, <2>8, <2>9, <2>10 DEF BeginInv
<1> QED
  BY <1>2, <1>3

\* A call of the system does what was asked.
LEMMA SystemIsCalled ==
    ASSUME ProcessorInv, NEW t \in Tasks, SystemCall(t)
    PROVE  ProcessorInv'
<1> USE DEF ProcessorInv
<1>0. PICK w \in Tasks : w = call[t].on /\ call[t].kind # "none"
  BY CallsAre DEF SystemCall
<1>1. /\ call[t].kind \in {"affinity", "ideal"} /\ w \in Tasks /\ CallInv(t) /\ CallsOn(t, w)
      /\ processorSystem' = processorSystem /\ data' = data /\ at' = at /\ begin' = begin /\ asked' = asked
      /\ usersMask' = usersMask /\ call' = [call EXCEPT ![t] = NoCall]
  BY <1>0, CallsAre, ProcessorsAre DEF SystemCall, CallsOn
<1>2. call'[t] = NoCall /\ NoCall.kind = "none" /\ \A u \in Tasks \ {t} : call'[u] = call[u]
  BY <1>1 DEF ProcessorTypes, NoCall
<1>3. /\ call[t].kind = "affinity" => affinity' = [affinity EXCEPT ![w] = call[t].set] /\ ideal' = ideal
      /\ call[t].kind = "ideal" => ideal' = [ideal EXCEPT ![w] = call[t].to] /\ affinity' = affinity
  <2>1. call[t].kind = "affinity" => call[t].set \cap Processors = call[t].set /\ call[t].set # {}
    BY <1>1, CallsAre
  <2> QED
    BY <1>0, <1>1, <2>1 DEF SystemCall
<1>4. /\ \A u \in Tasks \ {w} : affinity'[u] = affinity[u] /\ ideal'[u] = ideal[u]
      /\ call[t].kind = "affinity" => affinity'[w] = call[t].set
      /\ call[t].kind = "ideal" => ideal'[w] = call[t].to
      /\ affinity' \in [Tasks -> (SUBSET Processors) \ {{}}] /\ ideal' \in [Tasks -> Processors \cup {Nowhere}]
  <2>1. affinity \in [Tasks -> (SUBSET Processors) \ {{}}] /\ ideal \in [Tasks -> Processors \cup {Nowhere}]
    BY DEF ProcessorTypes, ProcessorsTypeOK
  <2>2. CASE call[t].kind = "affinity"
    <3>1. call[t].set \in (SUBSET Processors) \ {{}}
      BY <2>2, CallsAre
    <3> QED
      BY <1>1, <1>3, <2>1, <2>2, <3>1
  <2>3. CASE call[t].kind = "ideal"
    <3>1. call[t].to \in Processors \cup {Nowhere}
      BY <2>3, CallsAre
    <3> QED
      BY <1>1, <1>3, <2>1, <2>3, <3>1
  <2> QED
    BY <1>1, <2>2, <2>3
<1>5. /\ asked[w].kind \in {"nothing", "nowhere", "processor", "mask"}
      /\ asked[w].kind = "nowhere" => On({"windows"})
      /\ On({"windows"}) <=> processorSystem = "windows"
      /\ Fulfils(call[t])
  BY <1>0, <1>1 DEF ProcessorTypes, TaskInv, CallInv, On
<1>6. Done(w)'
  <2>1. Fulfils(call[t]) /\ affinity'[w] = affinity'[w] /\ On({"windows"})' = On({"windows"}) /\ On({"cpp11"})' = On({"cpp11"})
    BY <1>1, <1>5 DEF On
  <2>2. CASE call[t].kind = "affinity"
    <3>1. \/ asked[w].kind = "nothing"
          \/ asked[w].kind = "mask" /\ affinity'[w] = asked[w].set
          \/ asked[w].kind = "processor" /\ ~On({"windows"}) /\ affinity'[w] = asked[w].set
      BY <1>0, <1>4, <1>5, <2>2 DEF Fulfils
    <3> QED
      BY <1>1, <1>5, <2>1, <3>1 DEF Done
  <2>3. CASE call[t].kind = "ideal"
    <3>1. /\ On({"windows"})
          /\ \/ asked[w].kind = "nothing"
             \/ asked[w].kind = "nowhere" /\ ideal'[w] = Nowhere
             \/ asked[w].kind = "processor" /\ ideal'[w] \in asked[w].set
      BY <1>0, <1>4, <1>5, <2>3 DEF Fulfils
    <3> QED
      BY <1>1, <1>5, <2>1, <3>1 DEF Done
  <2> QED
    BY <1>1, <2>2, <2>3
<1>7. ProcessorTypes'
  <2>1. call' \in [Tasks -> Calls]
    BY <1>1 DEF ProcessorTypes, Calls
  <2> QED
    BY <1>1, <1>4, <2>1 DEF ProcessorTypes, ProcessorsTypeOK
<1>8. \A u \in Tasks \ {w} : TaskInv(u)'
  <2>1. \A u \in Tasks \ {w} : Begins(u)' <=> Begins(u)
    BY <1>1 DEF Begins
  <2>2. \A v \in Tasks, u \in Tasks \ {w} : CallsOn(v, u) => CallsOn(v, u)'
    BY <1>0, <1>1, <1>2 DEF CallsOn
  <2> QED
    BY <1>1, <1>4, <2>1, <2>2, OthersStay, ProcessorsAre
<1>9. ASSUME NEW u \in Tasks, u = w PROVE TaskInv(u)'
  <2>1. TaskInv(u) /\ Done(u)' /\ (Begins(u)' <=> Begins(u)) /\ (Linux' <=> Linux) /\ (On({"windows"})' <=> On({"windows"}))
        /\ (MessageInv(u)' <=> MessageInv(u))
    BY <1>1, <1>6, <1>9 DEF Begins, Linux, On, MessageInv
  <2> QED
    BY <1>1, <2>1 DEF TaskInv
<1>10. \A u \in Tasks : CallInv(u)'
  <2>1. CallInv(t)'
    BY <1>2 DEF CallInv
  <2>2. \A u \in Tasks \ {t} : CallInv(u)'
    BY <1>1, <1>2, CallStays
  <2> QED
    BY <2>1, <2>2
<1>11. BeginInv'
  <2>1. begin.step \in {"create", "apply"} => call'[MainThread].kind = "none"
    BY <1>2, ProcessorsAre DEF BeginInv
  <2>3. begin.step = "create" => affinity'[MainThread] = affinity[MainThread]
    <3>1. begin.step = "create" => call[MainThread].kind = "none"
      BY DEF BeginInv
    <3>2. w = MainThread => t = MainThread
      BY <1>0, <1>1 DEF CallInv
    <3> QED
      BY <1>0, <1>4, <3>1, <3>2, ProcessorsAre
  <2>2. ASSUME NEW v \in Workers, begin.step = "resume", v = begin.thread PROVE Done(v)' \/ CallsOn(MainThread, v)'
    <3>1. CASE v = w
      BY <1>6, <3>1
    <3>2. CASE v # w
      <4>1. Done(v)' <=> Done(v)
        BY <1>1, <1>4, <3>2, DoneStays, ProcessorsAre
      <4>2. CallsOn(MainThread, v) => CallsOn(MainThread, v)'
        BY <1>0, <1>2, <3>2, ProcessorsAre DEF CallsOn
      <4> QED
        BY <2>2, <4>1, <4>2 DEF BeginInv
    <3> QED
      BY <3>1, <3>2
  <2> QED
    BY <1>1, <2>1, <2>2, <2>3, BeginStays DEF Begins
<1>12. at'[MainThread] = "running"
  BY <1>1, <1>4, ProcessorsAre
<1> QED
  BY <1>7, <1>8, <1>9, <1>10, <1>11, <1>12

\* A step about one thread.
LEMMA OneThreadMoves ==
    ASSUME ProcessorInv, NEW w \in Tasks, ProcessorTypes', processorSystem' = processorSystem,
           \A u \in Tasks \ {w} :
              /\ affinity'[u] = affinity[u] /\ ideal'[u] = ideal[u] /\ data'[u] = data[u] /\ at'[u] = at[u]
              /\ asked'[u] = asked[u] /\ usersMask'[u] = usersMask[u],
           \A u \in Tasks \ {w} : Begins(u)' <=> Begins(u),
           \A t \in Tasks, u \in Tasks \ {w} : CallsOn(t, u) => CallsOn(t, u)',
           TaskInv(w)', w = MainThread => at'[w] = "running", \A t \in Tasks : CallInv(t)', BeginInv'
    PROVE  ProcessorInv'
<1>1. \A u \in Tasks \ {w} : TaskInv(u)'
  BY OthersStay, ProcessorsAre DEF ProcessorInv
<1>2. at'[MainThread] = "running"
  BY ProcessorsAre DEF ProcessorInv
<1> QED
  BY <1>1, <1>2 DEF ProcessorInv

LEMMA ThreadIsConstructed ==
    ASSUME CarefulSetters, ProcessorCount # 2, ProcessorInv,
           NEW w \in Workers, NEW p \in ProcessorAsks, NEW m \in Masks, BeginConstructs(w, p, m)
    PROVE  ProcessorInv'
<1> USE DEF ProcessorInv
<1> DEFINE startup == IF Linux \/ On({"kettle"}) THEN StartupProcessor(p) ELSE kProcessorDefault
           mask == IF Linux \/ On({"cpp11"}) THEN Processors ELSE m
<1>1. /\ call[MainThread].kind = "none" /\ begin.step = "none" /\ at[w] = "unborn" /\ w \in Tasks /\ w # MainThread
      /\ processorSystem' = processorSystem /\ affinity' = affinity /\ ideal' = ideal /\ at' = at /\ call' = call
      /\ begin' = [step |-> "create", thread |-> w, processor |-> p, mask |-> m]
  BY ProcessorsAre DEF BeginConstructs, Free
<1>2. /\ data' = [data EXCEPT ![w] = [startup |-> startup, mask |-> m, id |-> FALSE, pid |-> FALSE]]
      /\ asked' = [asked EXCEPT ![w] = Asked(p, mask)]
      /\ usersMask' = [usersMask EXCEPT ![w] = m]
  BY DEF BeginConstructs
<1>3. /\ startup \in ProcessorAsks /\ mask \in SUBSET Processors /\ m \in SUBSET Processors
      /\ Asked(p, mask) \in [kind : {"nothing", "nowhere", "processor", "mask"}, set : SUBSET Processors]
      /\ Asked(p, mask).kind # "nowhere"
  <2>1. startup \in ProcessorAsks
    BY StartupIs, ProcessorsAre
  <2>2. mask \in SUBSET Processors /\ m \in SUBSET Processors
    BY MasksAre
  <2>3. p \in Int /\ p % ProcessorCount \in Processors
    BY StartupIs, ModuloCount
  <2> HIDE DEF mask, startup
  <2> QED
    BY <2>1, <2>2, <2>3 DEF Asked, Nothing
<1>4. /\ data'[w] = [startup |-> startup, mask |-> m, id |-> FALSE, pid |-> FALSE]
      /\ asked'[w] = Asked(p, mask) /\ usersMask'[w] = m
      /\ \A u \in Tasks \ {w} : data'[u] = data[u] /\ asked'[u] = asked[u] /\ usersMask'[u] = usersMask[u]
  BY <1>1, <1>2 DEF ProcessorTypes, ProcessorsTypeOK
<1>5. ProcessorTypes'
  <2> HIDE DEF startup, mask
  <2>1. data' \in [Tasks -> [startup : ProcessorAsks, mask : SUBSET Processors, id : BOOLEAN, pid : BOOLEAN]]
    BY <1>2, <1>3 DEF ProcessorTypes, ProcessorsTypeOK
  <2>2. /\ asked' \in [Tasks -> [kind : {"nothing", "nowhere", "processor", "mask"}, set : SUBSET Processors]]
        /\ usersMask' \in [Tasks -> SUBSET Processors]
    BY <1>2, <1>3 DEF ProcessorTypes, ProcessorsTypeOK
  <2>3. begin' \in {NoBegin} \cup [step : {"create", "apply", "resume"}, thread : Workers, processor : ProcessorAsks, mask : Masks]
    BY <1>1
  <2>4. call' \in [Tasks -> Calls]
    BY <1>1 DEF ProcessorTypes, Calls
  <2> QED
    BY <1>1, <2>1, <2>2, <2>3, <2>4 DEF ProcessorTypes, ProcessorsTypeOK
<1>6. Linux => MessageInv(w)'
  <2> SUFFICES ASSUME Linux PROVE MessageInv(w)'
    OBVIOUS
  <2>1. startup = StartupProcessor(p) /\ mask = Processors
    OBVIOUS
  <2> HIDE DEF startup, mask
  <2>2. data'[w].startup = StartupProcessor(p) /\ asked'[w] = Asked(p, Processors)
    BY <1>4, <2>1
  <2>3. CASE p >= 0
    <3>1. data'[w].startup = p % ProcessorCount /\ data'[w].startup \in Processors
      BY <2>2, <2>3, StartupIs
    <3>2. asked'[w].set = {p % ProcessorCount}
      BY <2>2, <2>3 DEF Asked
    <3> HIDE DEF Processors
    <3> QED
      BY <3>1, <3>2 DEF MessageInv
  <2>4. CASE p = kProcessorAny
    <3>1. /\ data'[w].startup \in Processors \cup {kProcessorDefault, kProcessorAny}
          /\ data'[w].startup \in Processors => Processors = {data'[w].startup}
      BY <2>2, <2>4, StartupIs, ProcessorsAre
    <3>2. asked'[w].set = Processors
      BY <2>2, <2>4, ProcessorsAre DEF Asked
    <3> HIDE DEF Processors
    <3> QED
      BY <3>1, <3>2 DEF MessageInv
  <2>5. CASE p = kProcessorDefault
    BY <2>2, <2>5, StartupIs, ProcessorsAre DEF MessageInv, Asked, Nothing
  <2> QED
    BY <2>3, <2>4, <2>5, StartupIs
<1>7. TaskInv(w)'
  <2> HIDE DEF startup, mask
  <2> QED
    BY <1>1, <1>3, <1>4, <1>6 DEF TaskInv, Linux, On
<1>8. \A u \in Tasks \ {w} : Begins(u)' <=> Begins(u)
  BY <1>1 DEF Begins
<1>9. \A t \in Tasks, u \in Tasks \ {w} : CallsOn(t, u) => CallsOn(t, u)'
  BY <1>1 DEF CallsOn
<1>10. ASSUME NEW t \in Tasks PROVE CallInv(t)'
  <2>1. call[t].kind # "none" /\ at[call[t].on] # "unborn" => asked'[call[t].on] = asked[call[t].on]
    <3>1. call[t].kind # "none" => call[t].on \in Tasks
      BY CallsAre, ProcessorsAre
    <3> QED
      BY <1>1, <1>4, <3>1
  <2> QED
    BY <1>1, <2>1, CallStays
<1>11. BeginInv'
  <2>1. begin'.step = "create" /\ begin'.thread = w /\ begin'.mask = m /\ begin'.processor = p
    BY <1>1
  <2>2. On({"kettle", "windows", "xboxone"})' => mask = m
    BY <1>1 DEF Linux, On
  <2>3. On({"kettle"})' => startup = StartupProcessor(p)
    BY <1>1 DEF Linux, On
  <2> HIDE DEF startup, mask
  <2>4. data'[w].startup = startup /\ ~data'[w].id /\ at'[w] = "unborn" /\ call'[MainThread].kind = "none"
    BY <1>1, <1>4
  <2>5. asked'[w] = Asked(p, mask) /\ usersMask'[w] = m
    BY <1>4
  <2>6. Linux /\ Asked(p, mask).kind # "nothing" /\ startup \notin Processors => affinity[MainThread] = Processors
    <3>1. Linux => startup = StartupProcessor(p)
      BY DEF startup
    <3>2. Linux /\ p = kProcessorAny => affinity[MainThread] = Processors
      BY DEF BeginConstructs, MayBegin
    <3>3. p = kProcessorDefault => Asked(p, mask).kind = "nothing"
      BY ProcessorsAre DEF Asked, Nothing
    <3>4. p >= 0 => StartupProcessor(p) \in Processors
      BY StartupIs
    <3>5. p \in Int /\ (p < 0 => p \in {kProcessorDefault, kProcessorAny})
      BY StartupIs
    <3> QED
      BY <3>1, <3>2, <3>3, <3>4, <3>5
  <2>7. Linux' <=> Linux
    BY <1>1 DEF Linux, On
  <2>8. Linux' /\ asked'[w].kind # "nothing" /\ data'[w].startup \notin Processors => affinity'[MainThread] = Processors
    BY <1>1, <2>4, <2>5, <2>6, <2>7
  <2> QED
    BY <2>1, <2>2, <2>3, <2>4, <2>5, <2>8 DEF BeginInv, Asked, StartupProcessor, Remainder
<1> HIDE DEF startup, mask, ProcessorInv
<1>12. \A u \in Tasks \ {w} :
              /\ affinity'[u] = affinity[u] /\ ideal'[u] = ideal[u] /\ data'[u] = data[u] /\ at'[u] = at[u]
              /\ asked'[u] = asked[u] /\ usersMask'[u] = usersMask[u]
  BY <1>1, <1>4
<1> QED
  BY <1>1, <1>5, <1>7, <1>8, <1>9, <1>10, <1>11, <1>12, OneThreadMoves

\* Begin, when it creates w: the facts that the platforms share.
LEMMA ThreadIsCreated ==
    ASSUME ProcessorInv, begin.step = "create", NEW w \in Workers, w = begin.thread,
           processorSystem' = processorSystem, ideal' = ideal, call' = call, asked' = asked, usersMask' = usersMask,
           data' = [data EXCEPT ![w].id = TRUE],
           NEW next \in {"starting", "suspended"}, at' = [at EXCEPT ![w] = next],
           NEW set \in (SUBSET Processors) \ {{}}, affinity' = [affinity EXCEPT ![w] = set],
           \/ begin' = NoBegin /\ next = "starting"
           \/ begin' = [begin EXCEPT !.step = "apply"] /\ (Linux <=> next = "starting")
              /\ On({"linux", "android", "windows", "xboxone"}),
           next = "starting" => Done(w)' \/ (Linux /\ data[w].startup \in Processors)
    PROVE  ProcessorInv'
<1> USE DEF ProcessorInv
<1>1. /\ w \in Tasks /\ w # MainThread /\ Begins(w) /\ TaskInv(w) /\ at[w] = "unborn" /\ ~data[w].id
      /\ call[MainThread].kind = "none" /\ usersMask[w] = begin.mask
      /\ On({"kettle", "windows", "xboxone"}) => asked[w] = Asked(begin.processor, begin.mask)
  BY ProcessorsAre DEF Begins, BeginInv
<1>2. /\ data'[w].id /\ data'[w].startup = data[w].startup /\ data'[w].mask = data[w].mask
      /\ at'[w] = next /\ affinity'[w] = set
      /\ \A u \in Tasks \ {w} : data'[u] = data[u] /\ at'[u] = at[u] /\ affinity'[u] = affinity[u]
  BY <1>1 DEF ProcessorTypes, ProcessorsTypeOK
<1>3. ProcessorTypes'
  <2>1. data' \in [Tasks -> [startup : ProcessorAsks, mask : SUBSET Processors, id : BOOLEAN, pid : BOOLEAN]]
    <3>1. data \in [Tasks -> [startup : ProcessorAsks, mask : SUBSET Processors, id : BOOLEAN, pid : BOOLEAN]]
      BY DEF ProcessorTypes, ProcessorsTypeOK
    <3>2. [data[w] EXCEPT !.id = TRUE] \in [startup : ProcessorAsks, mask : SUBSET Processors, id : BOOLEAN, pid : BOOLEAN]
      BY <1>1, <3>1
    <3>3. data' = [data EXCEPT ![w] = [data[w] EXCEPT !.id = TRUE]]
      OBVIOUS
    <3> QED
      BY <3>1, <3>2, <3>3
  <2>2. /\ at' \in [Tasks -> {"unborn", "suspended", "starting", "running"}]
        /\ affinity' \in [Tasks -> (SUBSET Processors) \ {{}}]
    BY <1>1 DEF ProcessorTypes, ProcessorsTypeOK
  <2>3. begin' \in {NoBegin} \cup [step : {"create", "apply", "resume"}, thread : Workers, processor : ProcessorAsks, mask : Masks]
    BY BeginsAre
  <2>4. call' \in [Tasks -> Calls]
    BY DEF ProcessorTypes, Calls
  <2> QED
    BY <2>1, <2>2, <2>3, <2>4 DEF ProcessorTypes, ProcessorsTypeOK
<1>4. TaskInv(w)'
  <2>1. (Linux' <=> Linux) /\ (On({"windows"})' <=> On({"windows"})) /\ (MessageInv(w)' <=> MessageInv(w))
    BY <1>2 DEF Linux, On, MessageInv
  <2>2. next = "suspended" => Begins(w)'
    BY BeginsAre DEF Begins
  <2>3. next = "starting" => Done(w)' \/ (Linux' /\ data'[w].startup \in Processors)
    BY <1>2, <2>1
  <2> QED
    BY <1>1, <1>2, <2>1, <2>2, <2>3 DEF TaskInv
<1>5. \A u \in Tasks \ {w} : Begins(u)' <=> Begins(u)
  BY BeginsAre DEF Begins, NoBegin
<1>6. \A t \in Tasks, u \in Tasks \ {w} : CallsOn(t, u) => CallsOn(t, u)'
  BY DEF CallsOn
<1>7. ASSUME NEW t \in Tasks PROVE CallInv(t)'
  <2>1. at[t] = "running" => at'[t] = "running"
    BY <1>1, <1>2
  <2>2. call[t].kind # "none" /\ at[call[t].on] # "unborn" => at'[call[t].on] # "unborn"
    <3>1. call[t].kind # "none" => call[t].on \in Tasks
      BY CallsAre, ProcessorsAre
    <3> QED
      BY <1>1, <1>2, <3>1
  <2> QED
    BY <2>1, <2>2, CallStays
<1>8. BeginInv'
  <2>1. CASE begin' = NoBegin
    BY <2>1 DEF BeginInv, NoBegin
  <2>2. CASE begin' # NoBegin
    <3>1. /\ begin'.step = "apply" /\ begin'.thread = w /\ begin'.mask = begin.mask /\ begin'.processor = begin.processor
          /\ Linux <=> next = "starting"
          /\ On({"linux", "android", "windows", "xboxone"})
      BY <2>2, BeginsAre
    <3>2. /\ Linux' <=> Linux
          /\ On({"linux", "android", "windows", "xboxone"})' <=> On({"linux", "android", "windows", "xboxone"})
          /\ On({"kettle", "windows", "xboxone"})' <=> On({"kettle", "windows", "xboxone"})
          /\ \A p, mask : Asked(p, mask)' = Asked(p, mask)
      BY DEF Linux, On, Asked
    <3> QED
      BY <1>1, <1>2, <3>1, <3>2 DEF BeginInv
  <2> QED
    BY <2>1, <2>2
<1> HIDE DEF ProcessorInv
<1> QED
  BY <1>2, <1>3, <1>4, <1>5, <1>6, <1>7, <1>8, WorkersAre, OneThreadMoves

LEMMA LinuxThreadIsCreated ==
    ASSUME ProcessorInv, LinuxCreates
    PROVE  ProcessorInv'
<1>0. ProcessorTypes /\ Linux /\ begin.step = "create"
  BY DEF ProcessorInv, LinuxCreates
<1>1. PICK w \in Workers : w = begin.thread
  BY <1>0, BeginsAre
<1>2. /\ processorSystem' = processorSystem /\ ideal' = ideal /\ call' = call /\ asked' = asked /\ usersMask' = usersMask
      /\ data' = [data EXCEPT ![w].id = TRUE] /\ at' = [at EXCEPT ![w] = "starting"]
      /\ affinity' = [affinity EXCEPT ![w] = affinity[MainThread]]
      /\ begin' = [begin EXCEPT !.step = "apply"]
  BY <1>0, <1>1 DEF LinuxCreates
<1>3. affinity[MainThread] \in (SUBSET Processors) \ {{}} /\ On({"linux", "android", "windows", "xboxone"}) /\ ~On({"windows"})'
  BY <1>0, <1>2, ProcessorsAre DEF Linux, On, ProcessorTypes, ProcessorsTypeOK
<1>4. Done(w)' \/ (Linux /\ data[w].startup \in Processors)
  <2>1. MessageInv(w) /\ asked[w].kind # "nowhere" /\ asked[w].kind \in {"nothing", "nowhere", "processor", "mask"}
    <3>1. TaskInv(w) /\ Begins(w) /\ ~On({"windows"}) /\ w \in Tasks
      BY <1>0, <1>1, ProcessorsAre DEF ProcessorInv, Begins, Linux, On
    <3>2. MessageInv(w) /\ asked[w].kind # "nowhere"
      BY <1>0, <3>1 DEF TaskInv
    <3> QED
      BY <1>0, <3>1, <3>2 DEF ProcessorTypes
  <2>2. /\ affinity'[w] = affinity[MainThread]
        /\ asked[w].kind # "nothing" /\ data[w].startup \notin Processors => affinity[MainThread] = Processors
    BY <1>0, <1>1, <1>2, ProcessorsAre DEF ProcessorTypes, ProcessorsTypeOK, ProcessorInv, BeginInv
  <2>3. data[w].startup \notin Processors => asked[w].kind = "nothing" \/ affinity'[w] = asked[w].set
    BY <2>1, <2>2 DEF MessageInv
  <2> QED
    BY <1>0, <1>2, <1>3, <2>1, <2>3 DEF Done
<1> QED
  BY <1>0, <1>1, <1>2, <1>3, <1>4, ThreadIsCreated

LEMMA KettleThreadIsCreated ==
    ASSUME ProcessorCount # 2, ProcessorInv, KettleCreates
    PROVE  ProcessorInv'
<1>0. ProcessorTypes /\ On({"kettle"}) /\ begin.step = "create"
  BY DEF ProcessorInv, KettleCreates
<1>1. PICK w \in Workers : w = begin.thread
  BY <1>0, BeginsAre
<1>2. /\ processorSystem' = processorSystem /\ ideal' = ideal /\ call' = call /\ asked' = asked /\ usersMask' = usersMask
      /\ data' = [data EXCEPT ![w].id = TRUE] /\ at' = [at EXCEPT ![w] = "starting"] /\ begin' = NoBegin
  BY <1>0, <1>1 DEF KettleCreates
<1>3. /\ data[w].startup = StartupProcessor(begin.processor) /\ asked[w] = Asked(begin.processor, begin.mask)
      /\ data[w].mask = begin.mask /\ begin.mask \in (SUBSET Processors) \ {{}} /\ begin.processor \in ProcessorAsks
  <2>1. data[w].startup = StartupProcessor(begin.processor) /\ asked[w] = Asked(begin.processor, begin.mask)
    BY <1>0, <1>1 DEF ProcessorInv, BeginInv, On
  <2>2. data[w].mask = begin.mask
    BY <1>0, <1>1, WorkersAre DEF ProcessorInv, BeginInv, TaskInv
  <2> QED
    BY <1>0, <2>1, <2>2, BeginsAre, MasksAre
<1> DEFINE startup == data[w].startup
           Set(p) == IF startup = kProcessorAny THEN data[w].mask
                     ELSE IF startup = kProcessorDefault THEN {p} ELSE {startup}
<1>4. PICK p \in Processors : affinity' = [affinity EXCEPT ![w] = Set(p)]
  BY <1>0, <1>1 DEF KettleCreates
<1>5. startup \in Processors \cup {kProcessorDefault, kProcessorAny}
  BY <1>3, StartupIs
<1>6. Set(p) \in (SUBSET Processors) \ {{}}
  <2> HIDE DEF startup, Processors
  <2> QED
    BY <1>3, <1>5
<1>7. affinity'[w] = Set(p)
  BY <1>0, <1>1, <1>4, ProcessorsAre DEF ProcessorTypes, ProcessorsTypeOK
<1>8. asked[w].kind = "nothing" \/ (asked[w].kind \in {"processor", "mask"} /\ asked[w].set = Set(p))
  <2> HIDE DEF startup
  <2>1. startup = StartupProcessor(begin.processor)
    BY <1>3 DEF startup
  <2>2. CASE begin.processor >= 0
    <3>1. startup = begin.processor % ProcessorCount /\ startup \in Processors
      BY <1>3, <2>1, <2>2, StartupIs
    <3>2. asked[w].kind = "processor" /\ asked[w].set = {begin.processor % ProcessorCount}
      BY <1>3, <2>2 DEF Asked
    <3>3. Set(p) = {startup}
      BY <3>1, ProcessorsAre
    <3> QED
      BY <3>1, <3>2, <3>3
  <2>3. CASE begin.processor = kProcessorAny
    <3>1. asked[w].kind = "mask" /\ asked[w].set = begin.mask
      BY <1>3, <2>3, ProcessorsAre DEF Asked
    <3>2. CASE startup = kProcessorAny
      BY <1>3, <3>1, <3>2
    <3>3. CASE startup # kProcessorAny
      <4>1. Processors = {startup}
        BY <1>3, <2>1, <2>3, <3>3, StartupIs
      <4>2. Set(p) = {startup}
        BY <3>3, <4>1, ProcessorsAre
      <4>3. begin.mask = {startup}
        <5> HIDE DEF Processors
        <5> QED
          BY <1>3, <4>1
      <4> QED
        BY <3>1, <4>2, <4>3
    <3> QED
      BY <3>2, <3>3
  <2>4. CASE begin.processor = kProcessorDefault
    BY <1>3, <2>4, ProcessorsAre DEF Asked, Nothing
  <2> QED
    BY <1>3, <2>2, <2>3, <2>4, StartupIs
<1> HIDE DEF Set, startup
<1>9. Done(w)'
  BY <1>0, <1>2, <1>7, <1>8 DEF Done, On
<1> QED
  BY <1>0, <1>1, <1>2, <1>4, <1>6, <1>9, ThreadIsCreated

LEMMA WindowsThreadIsCreated ==
    ASSUME ProcessorInv, WindowsCreates
    PROVE  ProcessorInv'
<1>0. ProcessorTypes /\ On({"windows", "xboxone"}) /\ begin.step = "create"
  BY DEF ProcessorInv, WindowsCreates
<1>1. PICK w \in Workers : w = begin.thread
  BY <1>0, BeginsAre
<1>2. /\ processorSystem' = processorSystem /\ ideal' = ideal /\ call' = call /\ asked' = asked /\ usersMask' = usersMask
      /\ data' = [data EXCEPT ![w].id = TRUE] /\ at' = [at EXCEPT ![w] = "suspended"]
      /\ affinity' = [affinity EXCEPT ![w] = Processors] /\ begin' = [begin EXCEPT !.step = "apply"]
  BY <1>0, <1>1 DEF WindowsCreates
<1>3. Processors \in (SUBSET Processors) \ {{}} /\ On({"linux", "android", "windows", "xboxone"}) /\ ~Linux
  BY <1>0, ProcessorsAre DEF Linux, On
<1> QED
  BY <1>0, <1>1, <1>2, <1>3, ThreadIsCreated

LEMMA Cpp11ThreadIsCreated ==
    ASSUME ProcessorInv, Cpp11Creates
    PROVE  ProcessorInv'
<1>0. ProcessorTypes /\ On({"cpp11"}) /\ begin.step = "create"
  BY DEF ProcessorInv, Cpp11Creates
<1>1. PICK w \in Workers : w = begin.thread
  BY <1>0, BeginsAre
<1>2. /\ processorSystem' = processorSystem /\ ideal' = ideal /\ call' = call /\ asked' = asked /\ usersMask' = usersMask
      /\ data' = [data EXCEPT ![w].id = TRUE] /\ at' = [at EXCEPT ![w] = "starting"]
      /\ affinity' = affinity /\ begin' = NoBegin
  BY <1>0, <1>1 DEF Cpp11Creates
<1>3. affinity[w] \in (SUBSET Processors) \ {{}} /\ affinity' = [affinity EXCEPT ![w] = affinity[w]]
  BY <1>0, <1>1, <1>2, ProcessorsAre DEF ProcessorTypes, ProcessorsTypeOK
<1>4. Done(w)'
  <2>1. asked[w].kind # "nowhere" /\ asked[w].kind \in {"nothing", "nowhere", "processor", "mask"}
    BY <1>0, <1>1, ProcessorsAre DEF ProcessorInv, ProcessorTypes, TaskInv, On
  <2> QED
    BY <1>0, <1>2, <2>1 DEF Done, On
<1> QED
  BY <1>0, <1>1, <1>2, <1>3, <1>4, ThreadIsCreated

\* A message for a thread can be carried out by whoever finds it.
LEMMA MessageFulfils ==
    ASSUME ProcessorTypes, Linux, NEW w \in Workers, MessageInv(w), asked[w].kind # "nowhere",
           data[w].startup \notin {kProcessorDefault, kProcessorAny}
    PROVE  /\ data[w].startup \in Processors
           /\ Affinity(w, {data[w].startup}) \in Calls
           /\ Fulfils(Affinity(w, {data[w].startup}))
<1>1. data[w].startup \in Processors /\ (asked[w].kind # "nothing" => asked[w].set = {data[w].startup})
  BY DEF MessageInv
<1>2. asked[w].kind \in {"nothing", "nowhere", "processor", "mask"} /\ ~On({"windows"})
  BY ProcessorsAre DEF ProcessorTypes, Linux, On
<1>3. Affinity(w, {data[w].startup}) \in Calls
  <2> HIDE DEF Processors
  <2> QED
    BY <1>1, WorkersAre DEF Affinity, Calls
<1> QED
  BY <1>1, <1>2, <1>3 DEF Affinity, Fulfils

\* A call that is made for w by t.
LEMMA CallIsMade ==
    ASSUME ProcessorTypes, NEW t \in Tasks, NEW c \in Calls, call' = [call EXCEPT ![t] = c]
    PROVE  /\ call' \in [Tasks -> Calls] /\ call'[t] = c
           /\ \A u \in Tasks \ {t} : call'[u] = call[u]
           /\ call[t].kind = "none" => \A u \in Tasks, v \in Tasks : CallsOn(u, v) => CallsOn(u, v)'
<1>1. call' \in [Tasks -> Calls] /\ call'[t] = c /\ \A u \in Tasks \ {t} : call'[u] = call[u]
  BY DEF ProcessorTypes
<1> QED
  BY <1>1 DEF CallsOn

LEMMA LinuxThreadIsSet ==
    ASSUME ProcessorInv, LinuxApplies
    PROVE  ProcessorInv'
<1>0. ProcessorTypes /\ Linux /\ begin.step = "apply" /\ at[MainThread] = "running"
  BY DEF ProcessorInv, LinuxApplies
<1>1. PICK w \in Workers : w = begin.thread
  BY <1>0, BeginsAre
<1>2. /\ processorSystem' = processorSystem /\ affinity' = affinity /\ ideal' = ideal /\ at' = at
      /\ asked' = asked /\ usersMask' = usersMask /\ begin' = NoBegin
      /\ call' = [call EXCEPT ![MainThread] = Startup(w)]
      /\ data' = [data EXCEPT ![w].mask = begin.mask] \/ data' = data
  BY <1>0, <1>1 DEF LinuxApplies
<1>3. /\ TaskInv(w) /\ MessageInv(w) /\ Begins(w) /\ w \in Tasks /\ asked[w].kind # "nowhere"
      /\ call[MainThread].kind = "none" /\ data[w].mask = begin.mask /\ at[w] \in {"starting", "running"}
  <2>1. TaskInv(w) /\ Begins(w) /\ w \in Tasks /\ ~On({"windows"})
    BY <1>0, <1>1, ProcessorsAre DEF ProcessorInv, Begins, Linux, On
  <2>2. call[MainThread].kind = "none" /\ usersMask[w] = begin.mask /\ at[w] \in {"starting", "running"}
    BY <1>0, <1>1 DEF ProcessorInv, BeginInv
  <2> QED
    BY <1>0, <2>1, <2>2 DEF TaskInv
<1>4. data' = data
  <2>1. data \in [Tasks -> [startup : ProcessorAsks, mask : SUBSET Processors, id : BOOLEAN, pid : BOOLEAN]]
    BY <1>0 DEF ProcessorTypes, ProcessorsTypeOK
  <2>2. [data[w] EXCEPT !.mask = data[w].mask] = data[w]
    BY <1>3, <2>1
  <2>3. [data EXCEPT ![w].mask = data[w].mask] = [data EXCEPT ![w] = [data[w] EXCEPT !.mask = data[w].mask]]
    OBVIOUS
  <2>4. [data EXCEPT ![w] = data[w]] = data
    BY <1>3, <2>1
  <2> QED
    BY <1>2, <1>3, <2>2, <2>3, <2>4
<1>5. Startup(w) = NoCall \/ (/\ Startup(w) = Affinity(w, {data[w].startup})
                              /\ data[w].startup \notin {kProcessorDefault, kProcessorAny})
  BY DEF Startup, PlatformThreadAffinity
<1>6. Startup(w) \in Calls /\ (Startup(w) # NoCall => Startup(w).on = w /\ Fulfils(Startup(w)))
  <2>1. NoCall \in Calls
    BY DEF Calls
  <2> QED
    BY <1>0, <1>3, <1>5, <2>1, MessageFulfils DEF Affinity
<1>7. /\ call' \in [Tasks -> Calls] /\ call'[MainThread] = Startup(w)
      /\ \A u \in Tasks \ {MainThread} : call'[u] = call[u]
      /\ \A u \in Tasks, v \in Tasks : CallsOn(u, v) => CallsOn(u, v)'
  BY <1>0, <1>2, <1>3, <1>6, CallIsMade, ProcessorsAre
<1>8. ProcessorTypes'
  BY <1>0, <1>2, <1>4, <1>7 DEF ProcessorTypes, ProcessorsTypeOK
<1>9. TaskInv(w)'
  <2>1. (Linux' <=> Linux) /\ (On({"windows"})' <=> On({"windows"})) /\ (MessageInv(w)' <=> MessageInv(w)) /\ (Done(w)' <=> Done(w))
    BY <1>2, <1>4, DoneStays DEF Linux, On, MessageInv
  <2> QED
    BY <1>2, <1>3, <1>4, <1>7, <2>1 DEF TaskInv
<1>10. ASSUME NEW t \in Tasks PROVE CallInv(t)'
  <2>1. CASE t = MainThread
    <3>1. CASE Startup(w) = NoCall
      BY <1>7, <2>1, <3>1 DEF CallInv, NoCall
    <3>2. CASE Startup(w) # NoCall
      <4>1. call'[t] = Startup(w) /\ Startup(w).on = w /\ Fulfils(Startup(w)) /\ at'[t] = "running" /\ at'[w] # "unborn"
        BY <1>0, <1>2, <1>3, <1>6, <1>7, <2>1, <3>2
      <4>2. Fulfils(call[t])'
        BY <1>2, <4>1 DEF Fulfils, On
      <4> QED
        BY <2>1, <4>1, <4>2 DEF CallInv
    <3> QED
      BY <3>1, <3>2
  <2>2. CASE t # MainThread
    <3>1. CallInv(t) /\ call'[t] = call[t]
      BY <1>7, <2>2 DEF ProcessorInv
    <3> QED
      BY <1>2, <3>1, CallStays
  <2> QED
    BY <2>1, <2>2
<1>11. BeginInv'
  BY <1>2 DEF BeginInv, NoBegin
<1>12. \A u \in Tasks \ {w} : Begins(u)' <=> Begins(u)
  BY <1>1, <1>2 DEF Begins, NoBegin
<1>13. \A u \in Tasks \ {w} :
              /\ affinity'[u] = affinity[u] /\ ideal'[u] = ideal[u] /\ data'[u] = data[u] /\ at'[u] = at[u]
              /\ asked'[u] = asked[u] /\ usersMask'[u] = usersMask[u]
  BY <1>2, <1>4
<1> QED
  BY <1>2, <1>7, <1>8, <1>9, <1>10, <1>11, <1>12, <1>13, WorkersAre, OneThreadMoves

LEMMA ThreadStarts ==
    ASSUME ProcessorInv, NEW w \in Workers, WorkerStarts(w)
    PROVE  ProcessorInv'
<1> DEFINE set == {data[w].startup}
           c == IF Linux /\ data[w].startup \notin {kProcessorDefault, kProcessorAny} THEN Affinity(w, set) ELSE NoCall
<1>1. /\ ProcessorTypes /\ at[w] = "starting" /\ w \in Tasks /\ w # MainThread /\ TaskInv(w)
      /\ CallInv(w) /\ call[w].kind = "none"
  BY ProcessorsAre DEF ProcessorInv, WorkerStarts, CallInv
<1>2. /\ processorSystem' = processorSystem /\ affinity' = affinity /\ ideal' = ideal /\ begin' = begin
      /\ asked' = asked /\ usersMask' = usersMask
      /\ data' = [data EXCEPT ![w].pid = TRUE] /\ at' = [at EXCEPT ![w] = "running"]
      /\ call' = [call EXCEPT ![w] = c]
  BY DEF WorkerStarts
<1>3. /\ data' \in [Tasks -> [startup : ProcessorAsks, mask : SUBSET Processors, id : BOOLEAN, pid : BOOLEAN]]
      /\ data'[w].pid /\ data'[w].id = data[w].id /\ data'[w].startup = data[w].startup /\ data'[w].mask = data[w].mask
      /\ \A u \in Tasks \ {w} : data'[u] = data[u]
  <2>1. data \in [Tasks -> [startup : ProcessorAsks, mask : SUBSET Processors, id : BOOLEAN, pid : BOOLEAN]]
    BY <1>1 DEF ProcessorTypes, ProcessorsTypeOK
  <2>2. [data[w] EXCEPT !.pid = TRUE] \in [startup : ProcessorAsks, mask : SUBSET Processors, id : BOOLEAN, pid : BOOLEAN]
    BY <1>1, <2>1
  <2>3. data' = [data EXCEPT ![w] = [data[w] EXCEPT !.pid = TRUE]]
    BY <1>2
  <2>4. data'[w] = [data[w] EXCEPT !.pid = TRUE]
    BY <1>1, <2>1, <2>3
  <2>5. data[w] \in [startup : ProcessorAsks, mask : SUBSET Processors, id : BOOLEAN, pid : BOOLEAN]
    BY <1>1, <2>1
  <2> QED
    BY <2>1, <2>2, <2>3, <2>4, <2>5
<1>4. /\ at' \in [Tasks -> {"unborn", "suspended", "starting", "running"}]
      /\ at'[w] = "running" /\ \A u \in Tasks \ {w} : at'[u] = at[u]
  BY <1>1, <1>2 DEF ProcessorTypes, ProcessorsTypeOK
<1>5. Linux => MessageInv(w) /\ asked[w].kind # "nowhere"
  BY <1>1 DEF TaskInv, Linux, On
<1>6. c \in Calls /\ (c # NoCall => Linux /\ c.kind = "affinity" /\ c.on = w /\ Fulfils(c))
  <2>1. NoCall \in Calls
    BY DEF Calls
  <2>2. Linux /\ data[w].startup \notin {kProcessorDefault, kProcessorAny}
           => Affinity(w, set) \in Calls /\ Fulfils(Affinity(w, set))
    BY <1>1, <1>5, MessageFulfils
  <2> QED
    BY <2>1, <2>2 DEF Affinity
<1>7. /\ call' \in [Tasks -> Calls] /\ call'[w] = c
      /\ \A u \in Tasks \ {w} : call'[u] = call[u]
      /\ \A u \in Tasks, v \in Tasks : CallsOn(u, v) => CallsOn(u, v)'
  <2> HIDE DEF c
  <2> QED
    BY <1>1, <1>2, <1>6, CallIsMade
<1>8. Done(w)' \/ CallsOn(w, w)'
  <2>1. Done(w)' <=> Done(w)
    BY <1>2, DoneStays
  <2>2. Linux /\ data[w].startup \in Processors => CallsOn(w, w)'
    <3>1. data[w].startup \in Processors => data[w].startup \notin {kProcessorDefault, kProcessorAny}
      BY ProcessorsAre
    <3>2. Linux /\ data[w].startup \in Processors => c.kind = "affinity" /\ c.on = w
      BY <3>1 DEF Affinity
    <3> HIDE DEF c
    <3> QED
      BY <1>7, <3>2 DEF CallsOn
  <2> QED
    BY <1>1, <2>1, <2>2 DEF TaskInv
<1> HIDE DEF c
<1>9. ProcessorTypes'
  BY <1>1, <1>2, <1>3, <1>4, <1>7 DEF ProcessorTypes, ProcessorsTypeOK
<1>10. TaskInv(w)'
  <2>1. (Linux' <=> Linux) /\ (On({"windows"})' <=> On({"windows"})) /\ (MessageInv(w)' <=> MessageInv(w)) /\ (Begins(w)' <=> Begins(w))
    BY <1>2, <1>3 DEF Linux, On, MessageInv, Begins
  <2> QED
    BY <1>1, <1>2, <1>3, <1>4, <1>8, <2>1 DEF TaskInv
<1>11. ASSUME NEW t \in Tasks PROVE CallInv(t)'
  <2>1. CASE t = w
    <3>1. CASE c = NoCall
      BY <1>7, <2>1, <3>1 DEF CallInv, NoCall
    <3>2. CASE c # NoCall
      <4>1. call'[t] = c /\ c.on = w /\ Fulfils(c) /\ at'[t] = "running" /\ at'[w] # "unborn"
        BY <1>4, <1>6, <1>7, <2>1, <3>2
      <4>2. Fulfils(call[t])'
        BY <1>2, <4>1 DEF Fulfils, On
      <4> QED
        BY WorkersAre, <4>1, <4>2 DEF CallInv
    <3> QED
      BY <3>1, <3>2
  <2>2. CASE t # w
    <3>1. CallInv(t) /\ call'[t] = call[t] /\ at'[t] = at[t]
      BY <1>4, <1>7, <2>2 DEF ProcessorInv
    <3>2. call[t].kind # "none" => call[t].on \in Tasks
      BY <1>1, CallsAre, ProcessorsAre
    <3>3. call[t].kind # "none" /\ at[call[t].on] # "unborn" => at'[call[t].on] # "unborn"
      BY <1>4, <3>2
    <3> QED
      BY <1>2, <3>1, <3>3, CallStays
  <2> QED
    BY <2>1, <2>2
<1>12. BeginInv'
  <2>1. call'[MainThread].kind = call[MainThread].kind
    BY <1>1, <1>7, ProcessorsAre
  <2>2. BeginInv
    BY DEF ProcessorInv
  <2>3. begin.step \in {"create", "apply"} => call'[MainThread].kind = "none"
    BY <2>1, <2>2 DEF BeginInv
  <2>4. Begins(w) => Linux /\ begin.step = "apply"
    <3>1. Begins(w) => begin.step # "none" /\ begin.thread = w
      BY DEF Begins
    <3>2. Begins(w) /\ begin.step = "create" => FALSE
      BY <1>1, <2>2, <3>1 DEF BeginInv
    <3>3. Begins(w) /\ begin.step = "resume" => FALSE
      BY <1>1, <2>2, <3>1 DEF BeginInv
    <3>4. Begins(w) /\ begin.step = "apply" => Linux
      BY <1>1, <2>2, <3>1 DEF BeginInv
    <3> QED
      BY <1>1, <3>1, <3>2, <3>3, <3>4, BeginsAre
  <2>5. ASSUME NEW v \in Workers, Begins(v)
        PROVE  /\ at'[v] = at[v] \/ (Linux /\ begin.step = "apply" /\ at'[v] = "running")
               /\ data'[v].id = data[v].id
               /\ begin.step \in {"create", "apply"} => usersMask'[v] = usersMask[v]
               /\ begin.step \in {"create", "apply"} /\ ~Linux => asked'[v] = asked[v] /\ data'[v].startup = data[v].startup
               /\ begin.step = "resume" => Done(v)' \/ CallsOn(MainThread, v)'
    <3>1. v # w => data'[v] = data[v] /\ at'[v] = at[v]
      BY <1>3, <1>4, ProcessorsAre
    <3>2. begin.step = "resume" => Done(v) \/ CallsOn(MainThread, v)
      BY <2>2, <2>5 DEF BeginInv, Begins
    <3>3. (Done(v)' <=> Done(v)) /\ (CallsOn(MainThread, v) => CallsOn(MainThread, v)')
      BY <1>2, <1>7, DoneStays, ProcessorsAre
    <3> QED
      BY <1>2, <1>3, <1>4, <2>4, <2>5, <3>1, <3>2, <3>3
  <2> QED
    BY <1>1, <1>2, <2>2, <2>3, <2>5, BeginStays
<1>13. \A u \in Tasks \ {w} : Begins(u)' <=> Begins(u)
  BY <1>2 DEF Begins
<1>14. \A u \in Tasks \ {w} :
              /\ affinity'[u] = affinity[u] /\ ideal'[u] = ideal[u] /\ data'[u] = data[u] /\ at'[u] = at[u]
              /\ asked'[u] = asked[u] /\ usersMask'[u] = usersMask[u]
  BY <1>2, <1>3, <1>4
<1> QED
  BY <1>2, <1>7, <1>9, <1>10, <1>11, <1>12, <1>13, <1>14, WorkersAre, OneThreadMoves

\* What SetProcessor asks Windows or an Xbox One for does what was asked.
LEMMA SystemProcessorIs ==
    ASSUME On({"windows", "xboxone"}), NEW w \in Workers, NEW p \in Int
    PROVE  LET c == SystemProcessor(w, p)
           IN  /\ c \in Calls /\ c.kind \in {"ideal", "affinity"} /\ c.kind # "none" /\ c.on = w
               /\ c.kind = "ideal" => On({"windows"}) /\ (p < 0 => c.to = Nowhere) /\ (p >= 0 => c.to = p % ProcessorCount)
               /\ c.kind = "affinity" =>
                     ~On({"windows"}) /\ (p < 0 => c.set = Processors) /\ (p >= 0 => c.set = {p % ProcessorCount})
<1>1. p % ProcessorCount \in Processors /\ Processors # {}
  BY ModuloCount, ProcessorsAre
<1>2. On({"windows"}) => SystemProcessor(w, p) = [kind |-> "ideal", on |-> w, to |-> IF p < 0 THEN Nowhere ELSE p % ProcessorCount]
  BY DEF SystemProcessor, WindowsProcessor, Ideal
<1>3. ~On({"windows"}) => SystemProcessor(w, p) = [kind |-> "affinity", on |-> w, set |-> IF p < 0 THEN Processors ELSE {p % ProcessorCount}]
  BY DEF SystemProcessor, XboxProcessor, Affinity
<1> HIDE DEF Processors, Nowhere
<1>4. SystemProcessor(w, p) \in Calls
  <2>1. (IF p < 0 THEN Nowhere ELSE p % ProcessorCount) \in Processors \cup {Nowhere}
    BY <1>1
  <2>2. (IF p < 0 THEN Processors ELSE {p % ProcessorCount}) \in (SUBSET Processors) \ {{}}
    BY <1>1
  <2> QED
    BY WorkersAre, <1>2, <1>3, <2>1, <2>2 DEF Calls
<1> QED
  BY <1>2, <1>3, <1>4

LEMMA MaskWithIs ==
    ASSUME ProcessorTypes, NEW w \in Workers, NEW p \in Int
    PROVE  MaskWith(w, p) \in SUBSET Processors
<1>1. p % ProcessorCount \in Processors
  BY ModuloCount
<1>2. data[w].mask \in SUBSET Processors
  BY ProcessorsAre DEF ProcessorTypes, ProcessorsTypeOK
<1>3. MaskWith(w, p) = data[w].mask \/ MaskWith(w, p) = (IF p < 0 THEN Processors ELSE {p % ProcessorCount})
  BY DEF MaskWith, XboxProcessor, Affinity
<1> HIDE DEF Processors
<1> QED
  BY <1>1, <1>2, <1>3

\* A new mask of a thread.
LEMMA MaskIsSet ==
    ASSUME ProcessorTypes, NEW w \in Tasks, NEW mask \in SUBSET Processors, data' = [data EXCEPT ![w].mask = mask]
    PROVE  /\ data' \in [Tasks -> [startup : ProcessorAsks, mask : SUBSET Processors, id : BOOLEAN, pid : BOOLEAN]]
           /\ data'[w].pid = data[w].pid /\ data'[w].id = data[w].id /\ data'[w].startup = data[w].startup
           /\ data'[w].mask = mask
           /\ \A u \in Tasks \ {w} : data'[u] = data[u]
<1>1. data \in [Tasks -> [startup : ProcessorAsks, mask : SUBSET Processors, id : BOOLEAN, pid : BOOLEAN]]
  BY DEF ProcessorTypes, ProcessorsTypeOK
<1>2. data[w] \in [startup : ProcessorAsks, mask : SUBSET Processors, id : BOOLEAN, pid : BOOLEAN]
  BY <1>1
<1>3. [data[w] EXCEPT !.mask = mask] \in [startup : ProcessorAsks, mask : SUBSET Processors, id : BOOLEAN, pid : BOOLEAN]
  BY <1>2
<1>4. data' = [data EXCEPT ![w] = [data[w] EXCEPT !.mask = mask]]
  OBVIOUS
<1>5. data'[w] = [data[w] EXCEPT !.mask = mask] /\ \A u \in Tasks \ {w} : data'[u] = data[u]
  BY <1>1, <1>4
<1>6. data' \in [Tasks -> [startup : ProcessorAsks, mask : SUBSET Processors, id : BOOLEAN, pid : BOOLEAN]]
  BY <1>1, <1>3, <1>4
<1> QED
  BY <1>2, <1>5, <1>6

LEMMA WindowsThreadIsSet ==
    ASSUME ProcessorInv, WindowsApplies
    PROVE  ProcessorInv'
<1>0. ProcessorTypes /\ On({"windows", "xboxone"}) /\ ~Linux /\ begin.step = "apply" /\ at[MainThread] = "running"
  BY DEF ProcessorInv, WindowsApplies, On, Linux
<1>1. PICK w \in Workers : w = begin.thread
  BY <1>0, BeginsAre
<1>2. /\ TaskInv(w) /\ at[w] = "suspended" /\ w \in Tasks /\ w # MainThread
      /\ call[MainThread].kind = "none" /\ asked[w] = Asked(begin.processor, begin.mask)
      /\ begin.processor \in ProcessorAsks /\ begin.mask \in (SUBSET Processors) \ {{}}
  <2>1. at[w] = "suspended" /\ call[MainThread].kind = "none"
    BY <1>0, <1>1 DEF ProcessorInv, BeginInv
  <2>2. asked[w] = Asked(begin.processor, begin.mask)
    BY <1>0, <1>1 DEF ProcessorInv, BeginInv, On
  <2> QED
    BY <1>0, <2>1, <2>2, BeginsAre, MasksAre, ProcessorsAre DEF ProcessorInv
<1>3. PICK c \in Calls, mask \in SUBSET Processors :
         /\ c.kind # "none" /\ c.on = w /\ Fulfils(c)
         /\ call' = [call EXCEPT ![MainThread] = c]
         /\ data' = [data EXCEPT ![w].mask = mask]
         /\ usersMask' = [usersMask EXCEPT ![w] = mask]
  <2>1. CASE begin.processor = kProcessorAny
    <3> DEFINE c == Affinity(w, begin.mask)
    <3>1. /\ call' = [call EXCEPT ![MainThread] = c]
          /\ data' = [data EXCEPT ![w].mask = begin.mask]
          /\ usersMask' = [usersMask EXCEPT ![w] = begin.mask]
      BY <1>1, <2>1 DEF WindowsApplies
    <3>2. c = [kind |-> "affinity", on |-> w, set |-> begin.mask]
      BY DEF Affinity
    <3>3. c \in Calls
      BY <1>2, <3>2 DEF Calls
    <3>4. asked[w].kind = "mask" /\ asked[w].set = begin.mask
      BY <1>2, <2>1, ProcessorsAre DEF Asked
    <3>5. Fulfils(c)
      BY <3>2, <3>4 DEF Fulfils
    <3> HIDE DEF c
    <3> QED
      BY <1>2, <3>1, <3>2, <3>3, <3>5
  <2>2. CASE begin.processor # kProcessorAny
    <3>1. PICK p \in Selected(begin.processor) :
            /\ call' = [call EXCEPT ![MainThread] = SystemProcessor(w, p)]
            /\ data' = [data EXCEPT ![w].mask = MaskWith(w, p)]
            /\ usersMask' = [usersMask EXCEPT ![w] = MaskWith(w, p)]
      BY <1>1, <2>2 DEF WindowsApplies
    <3>2. p \in Int
      BY <1>2, ProcessorsAre, StartupIs DEF Selected
    <3>3. Fulfils(SystemProcessor(w, p))
      <4>1. CASE begin.processor >= 0
        <5>1. p = begin.processor /\ asked[w].kind = "processor" /\ asked[w].set = {p % ProcessorCount}
          BY <1>2, <4>1 DEF Selected, Asked
        <5>2. /\ SystemProcessor(w, p).kind \in {"ideal", "affinity"} /\ SystemProcessor(w, p).on = w
              /\ SystemProcessor(w, p).kind = "ideal" => On({"windows"}) /\ SystemProcessor(w, p).to = p % ProcessorCount
              /\ SystemProcessor(w, p).kind = "affinity" => ~On({"windows"}) /\ SystemProcessor(w, p).set = {p % ProcessorCount}
          BY <1>0, <3>2, <4>1, <5>1, SystemProcessorIs
        <5> QED
          BY <5>1, <5>2 DEF Fulfils
      <4>2. CASE begin.processor < 0
        <5>1. asked[w].kind = "nothing"
          BY <1>2, <2>2, <4>2, ProcessorsAre DEF Asked, Nothing
        <5> QED
          BY <1>0, <3>2, <5>1, SystemProcessorIs DEF Fulfils
      <4> QED
        BY <1>2, <4>1, <4>2, ProcessorsAre
    <3>4. /\ SystemProcessor(w, p) \in Calls /\ SystemProcessor(w, p).kind # "none" /\ SystemProcessor(w, p).on = w
          /\ MaskWith(w, p) \in SUBSET Processors
      BY <1>0, <3>2, SystemProcessorIs, MaskWithIs
    <3> QED
      BY <3>1, <3>3, <3>4
  <2> QED
    BY <2>1, <2>2
<1>4. /\ processorSystem' = processorSystem /\ affinity' = affinity /\ ideal' = ideal /\ at' = at
      /\ asked' = asked /\ begin' = [begin EXCEPT !.step = "resume"]
  BY DEF WindowsApplies
<1>5. /\ begin'.step = "resume" /\ begin'.thread = w
      /\ begin' \in [step : {"create", "apply", "resume"}, thread : Workers, processor : ProcessorAsks, mask : Masks]
      /\ Begins(w)' /\ \A u \in Tasks \ {w} : Begins(u)' <=> Begins(u)
  BY <1>0, <1>1, <1>4, BeginsAre DEF Begins
<1>6. /\ call' \in [Tasks -> Calls] /\ call'[MainThread] = c
      /\ \A u \in Tasks \ {MainThread} : call'[u] = call[u]
      /\ \A u \in Tasks, v \in Tasks : CallsOn(u, v) => CallsOn(u, v)'
  BY <1>0, <1>2, <1>3, CallIsMade, ProcessorsAre
<1>7. /\ data' \in [Tasks -> [startup : ProcessorAsks, mask : SUBSET Processors, id : BOOLEAN, pid : BOOLEAN]]
      /\ data'[w].pid = data[w].pid /\ data'[w].id = data[w].id /\ data'[w].startup = data[w].startup
      /\ data'[w].mask = mask
      /\ \A u \in Tasks \ {w} : data'[u] = data[u]
  BY <1>0, <1>2, <1>3, MaskIsSet
<1>8. /\ usersMask' \in [Tasks -> SUBSET Processors] /\ usersMask'[w] = mask
      /\ \A u \in Tasks \ {w} : usersMask'[u] = usersMask[u]
  BY <1>0, <1>2, <1>3 DEF ProcessorTypes, ProcessorsTypeOK
<1>9. ProcessorTypes'
  BY <1>0, <1>4, <1>5, <1>6, <1>7, <1>8 DEF ProcessorTypes, ProcessorsTypeOK
<1>10. TaskInv(w)'
  BY <1>0, <1>2, <1>4, <1>5, <1>7, <1>8 DEF TaskInv, Linux, On
<1>11. ASSUME NEW t \in Tasks PROVE CallInv(t)'
  <2>1. CASE t = MainThread
    <3>1. call'[t] = c /\ at'[t] = "running" /\ at'[w] # "unborn"
      BY <1>0, <1>2, <1>4, <1>6, <2>1
    <3>2. Fulfils(call[t])'
      BY <1>3, <1>4, <3>1 DEF Fulfils, On
    <3> QED
      BY <2>1, <1>3, <3>1, <3>2 DEF CallInv
  <2>2. CASE t # MainThread
    <3>1. CallInv(t) /\ call'[t] = call[t]
      BY <1>6, <2>2 DEF ProcessorInv
    <3> QED
      BY <1>4, <3>1, CallStays
  <2> QED
    BY <2>1, <2>2
<1>12. BeginInv'
  <2>1. CallsOn(MainThread, w)'
    BY <1>3, <1>6 DEF CallsOn
  <2>2. On({"windows", "xboxone"})' /\ at'[w] = "suspended"
    BY <1>0, <1>2, <1>4 DEF On
  <2> QED
    BY <1>5, <2>1, <2>2 DEF BeginInv
<1>13. \A u \in Tasks \ {w} :
              /\ affinity'[u] = affinity[u] /\ ideal'[u] = ideal[u] /\ data'[u] = data[u] /\ at'[u] = at[u]
              /\ asked'[u] = asked[u] /\ usersMask'[u] = usersMask[u]
  BY <1>4, <1>7, <1>8
<1> QED
  BY <1>4, <1>5, <1>6, <1>9, <1>10, <1>11, <1>12, <1>13, WorkersAre, OneThreadMoves

LEMMA WindowsThreadIsResumed ==
    ASSUME ProcessorInv, WindowsResumes
    PROVE  ProcessorInv'
<1>0. ProcessorTypes /\ begin.step = "resume" /\ call[MainThread].kind = "none"
  BY DEF ProcessorInv, WindowsResumes
<1>1. PICK w \in Workers : w = begin.thread
  BY <1>0, BeginsAre
<1>2. /\ processorSystem' = processorSystem /\ affinity' = affinity /\ ideal' = ideal /\ data' = data /\ call' = call
      /\ asked' = asked /\ usersMask' = usersMask /\ begin' = NoBegin /\ at' = [at EXCEPT ![w] = "starting"]
  BY <1>1 DEF WindowsResumes
<1>3. /\ TaskInv(w) /\ at[w] = "suspended" /\ w \in Tasks /\ w # MainThread /\ Done(w) /\ ~Linux
  <2>1. at[w] = "suspended" /\ On({"windows", "xboxone"}) /\ (Done(w) \/ CallsOn(MainThread, w))
    BY <1>0, <1>1 DEF ProcessorInv, BeginInv
  <2>2. ~CallsOn(MainThread, w)
    BY <1>0 DEF CallsOn
  <2>3. ~Linux
    BY <2>1 DEF Linux, On
  <2> QED
    BY <2>1, <2>2, <2>3, ProcessorsAre DEF ProcessorInv
<1>4. /\ at' \in [Tasks -> {"unborn", "suspended", "starting", "running"}]
      /\ at'[w] = "starting" /\ \A u \in Tasks \ {w} : at'[u] = at[u]
  BY <1>0, <1>2, <1>3 DEF ProcessorTypes, ProcessorsTypeOK
<1>5. ProcessorTypes'
  BY <1>0, <1>2, <1>4 DEF ProcessorTypes, ProcessorsTypeOK, Calls
<1>6. TaskInv(w)'
  <2>1. Done(w)' <=> Done(w)
    BY <1>2, DoneStays
  <2>2. ~Linux' /\ (On({"windows"})' <=> On({"windows"}))
    BY <1>2, <1>3 DEF Linux, On
  <2> QED
    BY <1>2, <1>3, <1>4, <2>1, <2>2 DEF TaskInv
<1>7. ASSUME NEW t \in Tasks PROVE CallInv(t)'
  <2>1. call[t].kind # "none" => call[t].on \in Tasks
    BY <1>0, CallsAre, ProcessorsAre
  <2>2. CallInv(t)
    BY DEF ProcessorInv
  <2> QED
    BY <1>2, <1>3, <1>4, <2>1, <2>2, CallStays
<1>8. BeginInv'
  BY <1>2 DEF BeginInv, NoBegin
<1>9. \A u \in Tasks \ {w} : Begins(u)' <=> Begins(u)
  BY <1>1, <1>2 DEF Begins, NoBegin
<1>10. \A t \in Tasks, u \in Tasks \ {w} : CallsOn(t, u) => CallsOn(t, u)'
  BY <1>2 DEF CallsOn
<1>11. \A u \in Tasks \ {w} :
              /\ affinity'[u] = affinity[u] /\ ideal'[u] = ideal[u] /\ data'[u] = data[u] /\ at'[u] = at[u]
              /\ asked'[u] = asked[u] /\ usersMask'[u] = usersMask[u]
  BY <1>2, <1>4
<1> QED
  BY <1>2, <1>5, <1>6, <1>7, <1>8, <1>9, <1>10, <1>11, WorkersAre, OneThreadMoves

\* t asks for something else for w, about which nobody is doing anything.
LEMMA ThreadIsAsked ==
    ASSUME ProcessorInv, NEW t \in Tasks, NEW w \in Tasks, Free(t), Quiet(w), w = MainThread => t = w,
           processorSystem' = processorSystem, affinity' = affinity, ideal' = ideal, at' = at, begin' = begin,
           NEW c \in Calls, call' = [call EXCEPT ![t] = c],
           NEW a \in [kind : {"nothing", "nowhere", "processor", "mask"}, set : SUBSET Processors],
           asked' = [asked EXCEPT ![w] = a],
           NEW s \in [startup : ProcessorAsks, mask : SUBSET Processors, id : BOOLEAN, pid : BOOLEAN],
           data' = [data EXCEPT ![w] = s], s.id = data[w].id, s.pid = data[w].pid,
           NEW mask \in SUBSET Processors, usersMask' = [usersMask EXCEPT ![w] = mask], s.mask = mask,
           a.kind = "nowhere" => On({"windows"}),
           c.kind = "none" => a = asked[w],
           c.kind # "none" => c.on = w /\ Fulfils(c)'
    PROVE  ProcessorInv'
<1>1. /\ ProcessorTypes /\ TaskInv(w) /\ at[w] = "running" /\ ~Begins(w)
      /\ at[t] = "running" /\ call[t].kind = "none" /\ (t = MainThread => begin.step = "none")
      /\ \A u \in Tasks : ~CallsOn(u, w)
  BY ProcessorsAre DEF ProcessorInv, Free, Quiet, CallsOn
<1>2. Done(w) /\ data[w].id /\ (w = MainThread \/ data[w].pid)
  BY <1>1 DEF TaskInv
<1>3. /\ call' \in [Tasks -> Calls] /\ call'[t] = c
      /\ \A u \in Tasks \ {t} : call'[u] = call[u]
      /\ \A u \in Tasks, v \in Tasks : CallsOn(u, v) => CallsOn(u, v)'
  BY <1>1, CallIsMade
<1>4. /\ asked' \in [Tasks -> [kind : {"nothing", "nowhere", "processor", "mask"}, set : SUBSET Processors]]
      /\ data' \in [Tasks -> [startup : ProcessorAsks, mask : SUBSET Processors, id : BOOLEAN, pid : BOOLEAN]]
      /\ usersMask' \in [Tasks -> SUBSET Processors]
      /\ asked'[w] = a /\ data'[w] = s /\ usersMask'[w] = mask
      /\ \A u \in Tasks \ {w} : asked'[u] = asked[u] /\ data'[u] = data[u] /\ usersMask'[u] = usersMask[u]
  BY <1>1 DEF ProcessorTypes, ProcessorsTypeOK
<1>5. ProcessorTypes'
  BY <1>1, <1>3, <1>4 DEF ProcessorTypes, ProcessorsTypeOK
<1>6. Done(w)' \/ CallsOn(t, w)'
  <2>1. c.kind = "none" => asked'[w] = asked[w]
    BY <1>4
  <2>2. c.kind = "none" => Done(w)'
    BY <1>2, <2>1, DoneStays
  <2>3. c.kind # "none" => CallsOn(t, w)'
    BY <1>3 DEF CallsOn
  <2> QED
    BY <2>2, <2>3
<1>7. TaskInv(w)'
  <2>1. ~Begins(w)' /\ (On({"windows"})' <=> On({"windows"}))
    BY <1>1 DEF Begins, On
  <2> QED
    BY <1>1, <1>2, <1>4, <1>6, <2>1 DEF TaskInv
<1>8. ASSUME NEW u \in Tasks PROVE CallInv(u)'
  <2>1. CASE u = t
    <3>1. CASE c.kind = "none"
      BY <1>3, <2>1, <3>1 DEF CallInv
    <3>2. CASE c.kind # "none"
      <4>1. call'[u] = c /\ c.on = w /\ at'[u] = "running" /\ at'[w] # "unborn"
        BY <1>1, <1>3, <2>1, <3>2
      <4>2. Fulfils(call[u])'
        BY <3>2, <4>1 DEF Fulfils
      <4> QED
        BY <2>1, <4>1, <4>2 DEF CallInv
    <3> QED
      BY <3>1, <3>2
  <2>2. CASE u # t
    <3>1. CallInv(u) /\ call'[u] = call[u]
      BY <1>3, <2>2 DEF ProcessorInv
    <3>2. call[u].kind # "none" => call[u].on \in Tasks \ {w}
      BY <1>1, CallsAre, ProcessorsAre DEF CallsOn
    <3>3. call[u].kind # "none" => asked'[call[u].on] = asked[call[u].on]
      BY <1>4, <3>2
    <3> QED
      BY <3>1, <3>3, CallStays
  <2> QED
    BY <2>1, <2>2
<1>9. BeginInv'
  <2>1. begin.step \in {"create", "apply"} => call'[MainThread].kind = "none"
    <3>1. begin.step \in {"create", "apply"} => t # MainThread /\ call[MainThread].kind = "none"
      BY <1>1 DEF ProcessorInv, BeginInv
    <3> QED
      BY <1>3, <3>1, ProcessorsAre
  <2>2. ASSUME NEW v \in Workers, Begins(v)
        PROVE  /\ asked'[v] = asked[v] /\ data'[v] = data[v] /\ usersMask'[v] = usersMask[v]
               /\ begin.step = "resume" => Done(v)' \/ CallsOn(MainThread, v)'
    <3>1. v \in Tasks \ {w}
      BY <1>1, <2>2, ProcessorsAre
    <3>2. asked'[v] = asked[v] /\ data'[v] = data[v] /\ usersMask'[v] = usersMask[v]
      BY <1>4, <3>1
    <3>3. begin.step = "resume" => Done(v) \/ CallsOn(MainThread, v)
      BY <2>2 DEF ProcessorInv, BeginInv, Begins
    <3>4. (Done(v)' <=> Done(v)) /\ (CallsOn(MainThread, v) => CallsOn(MainThread, v)')
      BY <1>3, <3>2, DoneStays, ProcessorsAre
    <3> QED
      BY <3>2, <3>3, <3>4
  <2>3. BeginInv
    BY DEF ProcessorInv
  <2> QED
    BY <1>1, <2>1, <2>2, <2>3, BeginStays
<1>10. \A u \in Tasks \ {w} : Begins(u)' <=> Begins(u)
  BY DEF Begins
<1>11. \A u \in Tasks \ {w} :
              /\ affinity'[u] = affinity[u] /\ ideal'[u] = ideal[u] /\ data'[u] = data[u] /\ at'[u] = at[u]
              /\ asked'[u] = asked[u] /\ usersMask'[u] = usersMask[u]
  BY <1>4
<1> QED
  BY <1>1, <1>3, <1>5, <1>7, <1>8, <1>9, <1>10, <1>11, OneThreadMoves

\* What is asked for with a processor, or with none in particular.
LEMMA AsksAre ==
    ASSUME NEW p \in ProcessorAsks
    PROVE  /\ p \in Int /\ p % ProcessorCount \in Processors
           /\ Asked(p, Processors) \in [kind : {"nothing", "nowhere", "processor", "mask"}, set : SUBSET Processors]
           /\ AskedAny \in [kind : {"nothing", "nowhere", "processor", "mask"}, set : SUBSET Processors]
           /\ p >= 0 => Asked(p, Processors) = [kind |-> "processor", set |-> {p % ProcessorCount}]
           /\ p \in Processors => p >= 0 /\ p % ProcessorCount = p
           /\ Asked(p, Processors).kind # "nowhere" /\ (AskedAny.kind = "nowhere" => On({"windows"}))
<1>1. p \in Int /\ p % ProcessorCount \in Processors /\ (p \in Processors => p >= 0 /\ p % ProcessorCount = p)
  <2>1. p \in Int
    BY ProcessorsAre
  <2>2. p \in Processors => p >= 0
    BY ProcessorsAre
  <2> QED
    BY <2>1, <2>2, ModuloCount
<1> HIDE DEF Processors
<1> QED
  BY <1>1 DEF Asked, AskedAny, Nothing

LEMMA ProcessorIsSet ==
    ASSUME CarefulSetters, ProcessorInv, NEW t \in Tasks, NEW w \in Workers, NEW p \in ProcessorAsks,
           SetProcessor(t, w, p)
    PROVE  ProcessorInv'
<1>1. /\ ProcessorTypes /\ Free(t) /\ p \in Processors /\ (Linux \/ On({"kettle"})) /\ ~On({"windows"})
      /\ Quiet(w) \/ (Linux /\ Begins(w) /\ begin.step = "create")
      /\ w \in Tasks /\ w # MainThread /\ TaskInv(w)
  BY ProcessorsAre DEF ProcessorInv, SetProcessor, MaySetProcessor, Linux, On
<1> DEFINE known == data[w].id /\ (On({"android"}) => data[w].pid)
           c == IF known THEN Affinity(w, {p}) ELSE NoCall
           s == [data[w] EXCEPT !.startup = p]
           a == Asked(p, Processors)
<1>2. /\ processorSystem' = processorSystem /\ affinity' = affinity /\ ideal' = ideal /\ at' = at /\ begin' = begin
      /\ usersMask' = usersMask /\ call' = [call EXCEPT ![t] = c] /\ asked' = [asked EXCEPT ![w] = a]
      /\ data' = [data EXCEPT ![w] = s]
  BY DEF SetProcessor
<1>3. /\ a \in [kind : {"nothing", "nowhere", "processor", "mask"}, set : SUBSET Processors]
      /\ a = [kind |-> "processor", set |-> {p}]
  BY <1>1, AsksAre
<1>4. /\ s \in [startup : ProcessorAsks, mask : SUBSET Processors, id : BOOLEAN, pid : BOOLEAN]
      /\ s.id = data[w].id /\ s.pid = data[w].pid /\ s.mask = data[w].mask /\ s.startup = p
  <2>1. data[w] \in [startup : ProcessorAsks, mask : SUBSET Processors, id : BOOLEAN, pid : BOOLEAN]
    BY <1>1 DEF ProcessorTypes, ProcessorsTypeOK
  <2> QED
    BY <2>1
<1>5. usersMask[w] \in SUBSET Processors /\ usersMask' = [usersMask EXCEPT ![w] = usersMask[w]] /\ s.mask = usersMask[w]
  BY <1>1, <1>2, <1>4 DEF ProcessorTypes, ProcessorsTypeOK, TaskInv
<1>6. c \in Calls
  <2> HIDE DEF Processors, known
  <2> QED
    BY <1>1 DEF Affinity, Calls
<1> HIDE DEF s, a
<1>7. CASE Quiet(w)
  <2> HIDE DEF c
  <2>1. known
    BY <1>1, <1>7, ProcessorsAre DEF Quiet, TaskInv, CallsOn
  <2>2. c = [kind |-> "affinity", on |-> w, set |-> {p}]
    BY <2>1 DEF Affinity, c
  <2>3. PICK made \in Calls : made = c
    BY <1>6
  <2>4. Fulfils(made)'
    <3>1. asked'[w].kind = "processor" /\ asked'[w].set = {p} /\ ~On({"windows"})'
      BY <1>1, <1>2, <1>3 DEF ProcessorTypes, On
    <3>2. made.kind = "affinity" /\ made.on = w /\ made.set = {p}
      BY <2>2, <2>3
    <3> QED
      BY <3>1, <3>2 DEF Fulfils
  <2>5. made.kind = "affinity" /\ made.on = w /\ a.kind = "processor" /\ call' = [call EXCEPT ![t] = made]
    BY <1>2, <1>3, <2>2, <2>3
  <2>6. PICK r \in [startup : ProcessorAsks, mask : SUBSET Processors, id : BOOLEAN, pid : BOOLEAN] : r = s
    BY <1>4
  <2>7. PICK m \in SUBSET Processors : m = usersMask[w]
    BY <1>5
  <2>8. /\ usersMask' = [usersMask EXCEPT ![w] = m] /\ r.mask = m /\ r.id = data[w].id /\ r.pid = data[w].pid
        /\ data' = [data EXCEPT ![w] = r] /\ made.kind # "none" /\ a.kind # "nowhere"
    BY <1>2, <1>4, <1>5, <2>5, <2>6, <2>7
  <2>9. /\ Free(t) /\ processorSystem' = processorSystem /\ affinity' = affinity /\ ideal' = ideal /\ at' = at
        /\ begin' = begin /\ asked' = [asked EXCEPT ![w] = a]
        /\ a \in [kind : {"nothing", "nowhere", "processor", "mask"}, set : SUBSET Processors]
    BY <1>1, <1>2, <1>3
  <2> QED
    BY <1>7, <2>4, <2>5, <2>8, <2>9, WorkersAre, ThreadIsAsked
<1>8. CASE ~Quiet(w)
  <2>1. Linux /\ Begins(w) /\ begin.step = "create" /\ at[w] = "unborn" /\ ~data[w].id /\ ~On({"kettle", "windows", "xboxone"})
    <3>1. Linux /\ Begins(w) /\ begin.step = "create"
      BY <1>1, <1>8
    <3> QED
      BY <3>1 DEF ProcessorInv, BeginInv, Begins, Linux, On
  <2>2. c = NoCall
    BY <2>1
  <2> HIDE DEF c
  <2>3. /\ call' \in [Tasks -> Calls] /\ call'[t] = NoCall /\ call[t].kind = "none"
        /\ \A u \in Tasks \ {t} : call'[u] = call[u]
        /\ \A u \in Tasks, v \in Tasks : CallsOn(u, v) => CallsOn(u, v)'
    BY <1>1, <1>2, <1>6, <2>2, CallIsMade DEF Free
  <2>4. /\ asked' \in [Tasks -> [kind : {"nothing", "nowhere", "processor", "mask"}, set : SUBSET Processors]]
        /\ data' \in [Tasks -> [startup : ProcessorAsks, mask : SUBSET Processors, id : BOOLEAN, pid : BOOLEAN]]
        /\ asked'[w] = a /\ data'[w] = s
        /\ \A u \in Tasks \ {w} : asked'[u] = asked[u] /\ data'[u] = data[u]
    BY <1>1, <1>2, <1>3, <1>4 DEF ProcessorTypes, ProcessorsTypeOK
  <2>5. ProcessorTypes'
    BY <1>1, <1>2, <2>3, <2>4 DEF ProcessorTypes, ProcessorsTypeOK
  <2>6. MessageInv(w)'
    BY <1>1, <1>3, <1>4, <2>4 DEF MessageInv
  <2>7. TaskInv(w)'
    BY <1>1, <1>2, <1>3, <1>4, <1>5, <2>1, <2>4, <2>6 DEF TaskInv
  <2>8. ASSUME NEW u \in Tasks PROVE CallInv(u)'
    <3>1. CASE u = t
      BY <2>3, <3>1 DEF CallInv, NoCall
    <3>2. CASE u # t
      <4>1. CallInv(u) /\ call'[u] = call[u]
        BY <2>3, <3>2 DEF ProcessorInv
      <4>2. call[u].kind # "none" => call[u].on \in Tasks
        BY <1>1, CallsAre, ProcessorsAre
      <4>3. call[u].kind # "none" /\ at[call[u].on] # "unborn" => asked'[call[u].on] = asked[call[u].on]
        BY <2>1, <2>4, <4>2
      <4> QED
        BY <1>2, <4>1, <4>3, CallStays
    <3> QED
      BY <3>1, <3>2
  <2>9. BeginInv'
    <3>1. BeginInv
      BY DEF ProcessorInv
    <3>2. call'[MainThread].kind = "none"
      BY <2>1, <2>3, <3>1, ProcessorsAre DEF BeginInv, NoCall
    <3>3. ASSUME NEW v \in Workers, Begins(v) PROVE v = w
      BY <2>1, <3>3 DEF Begins
    <3>4. s.startup \in Processors
      BY <1>1, <1>4
    <3> HIDE DEF Processors
    <3> QED
      BY <1>1, <1>2, <1>4, <2>1, <2>4, <3>1, <3>2, <3>3, <3>4, BeginStays
  <2>10. \A u \in Tasks \ {w} : Begins(u)' <=> Begins(u)
    BY <1>2 DEF Begins
  <2>11. \A u \in Tasks \ {w} :
              /\ affinity'[u] = affinity[u] /\ ideal'[u] = ideal[u] /\ data'[u] = data[u] /\ at'[u] = at[u]
              /\ asked'[u] = asked[u] /\ usersMask'[u] = usersMask[u]
    BY <1>2, <2>4
  <2> QED
    BY <1>2, <2>3, <2>5, <2>7, <2>8, <2>9, <2>10, <2>11, WorkersAre, OneThreadMoves
<1> QED
  BY <1>7, <1>8

LEMMA WindowsProcessorIsSet ==
    ASSUME CarefulSetters, ProcessorInv, NEW t \in Tasks, NEW w \in Workers, NEW p \in ProcessorAsks,
           WindowsSetProcessor(t, w, p)
    PROVE  ProcessorInv'
<1>1. /\ ProcessorTypes /\ Free(t) /\ On({"windows", "xboxone"}) /\ Quiet(w) /\ w \in Tasks
  BY ProcessorsAre DEF ProcessorInv, WindowsSetProcessor, MaySetProcessor, Linux, On
<1>2. PICK a : a = IF p >= 0 THEN Asked(p, Processors) ELSE AskedAny
  OBVIOUS
<1>3. /\ a \in [kind : {"nothing", "nowhere", "processor", "mask"}, set : SUBSET Processors]
      /\ p >= 0 => a = [kind |-> "processor", set |-> {p % ProcessorCount}]
      /\ p < 0 /\ On({"windows"}) => a.kind = "nowhere"
      /\ p < 0 /\ ~On({"windows"}) => a.kind = "mask" /\ a.set = Processors
      /\ a.kind = "nowhere" => On({"windows"})
  BY <1>2, AsksAre DEF AskedAny
<1>4. PICK c \in Calls : c = SystemProcessor(w, p)
  BY <1>1, AsksAre, SystemProcessorIs
<1>5. /\ c.kind \in {"ideal", "affinity"} /\ c.kind # "none" /\ c.on = w
      /\ c.kind = "ideal" => On({"windows"}) /\ (p < 0 => c.to = Nowhere) /\ (p >= 0 => c.to = p % ProcessorCount)
      /\ c.kind = "affinity" =>
            ~On({"windows"}) /\ (p < 0 => c.set = Processors) /\ (p >= 0 => c.set = {p % ProcessorCount})
  BY <1>1, <1>4, AsksAre, SystemProcessorIs
<1>6. PICK m \in SUBSET Processors : m = MaskWith(w, p)
  BY <1>1, AsksAre, MaskWithIs
<1>7. /\ processorSystem' = processorSystem /\ affinity' = affinity /\ ideal' = ideal /\ at' = at /\ begin' = begin
      /\ call' = [call EXCEPT ![t] = c] /\ asked' = [asked EXCEPT ![w] = a]
      /\ data' = [data EXCEPT ![w].mask = m] /\ usersMask' = [usersMask EXCEPT ![w] = m]
  BY <1>2, <1>4, <1>6 DEF WindowsSetProcessor
<1>8. PICK r \in [startup : ProcessorAsks, mask : SUBSET Processors, id : BOOLEAN, pid : BOOLEAN] :
         r.id = data[w].id /\ r.pid = data[w].pid /\ r.mask = m /\ data' = [data EXCEPT ![w] = r]
  <2>1. data[w] \in [startup : ProcessorAsks, mask : SUBSET Processors, id : BOOLEAN, pid : BOOLEAN]
    BY <1>1 DEF ProcessorTypes, ProcessorsTypeOK
  <2>2. data' = [data EXCEPT ![w] = [data[w] EXCEPT !.mask = m]]
    BY <1>7
  <2> QED
    BY <2>1, <2>2
<1>9. Fulfils(c)'
  <2>1. asked'[w] = a /\ (On({"windows"})' <=> On({"windows"}))
    BY <1>1, <1>7 DEF ProcessorTypes, On
  <2>2. CASE p >= 0
    <3>1. PICK q : q = p % ProcessorCount
      OBVIOUS
    <3>2. asked'[w].kind = "processor" /\ asked'[w].set = {q}
      BY <1>3, <2>1, <2>2, <3>1
    <3>3. (c.kind = "ideal" => On({"windows"}) /\ c.to = q) /\ (c.kind = "affinity" => ~On({"windows"}) /\ c.set = {q})
      BY <1>5, <2>2, <3>1
    <3> QED
      BY <1>5, <2>1, <3>2, <3>3 DEF Fulfils
  <2>3. CASE p < 0
    BY <1>3, <1>5, <2>1, <2>3 DEF Fulfils
  <2> QED
    BY <2>2, <2>3, AsksAre
<1> QED
  BY <1>1, <1>3, <1>5, <1>7, <1>8, <1>9, WorkersAre, ThreadIsAsked

LEMMA ThreadProcessorIsSet ==
    ASSUME CarefulSetters, ProcessorInv, NEW t \in Tasks, NEW p \in ProcessorAsks, SetThreadProcessor(t, p)
    PROVE  ProcessorInv'
<1>1. /\ ProcessorTypes /\ Free(t) /\ Quiet(t) /\ TaskInv(t)
      /\ On({"linux"}) => p = 0
      /\ p \in kProcessorAny .. ProcessorCount - 1
  <2>1. On({"linux"}) => p = 0 /\ p \in kProcessorAny .. ProcessorCount - 1
    BY ProcessorsAre DEF SetThreadProcessor
  <2> QED
    BY <2>1 DEF ProcessorInv, SetThreadProcessor
<1>2. p \in Int /\ (p >= 0 => p \in Processors /\ p % ProcessorCount = p)
  <2>1. p \in Int /\ (p >= 0 => p \in Processors)
    BY <1>1, ProcessorsAre
  <2> QED
    BY <2>1, ModuloCount
<1>3. PICK c : c = ThreadProcessor(t, p)
  OBVIOUS
<1>4. PICK a : a = IF On({"android", "cpp11"}) THEN asked[t] ELSE IF p >= 0 THEN Asked(p, Processors) ELSE AskedAny
  OBVIOUS
<1>5. /\ a \in [kind : {"nothing", "nowhere", "processor", "mask"}, set : SUBSET Processors]
      /\ a.kind = "nowhere" => On({"windows"})
      /\ On({"android", "cpp11"}) => a = asked[t]
      /\ ~On({"android", "cpp11"}) =>
            /\ p >= 0 => a = [kind |-> "processor", set |-> {p}]
            /\ p < 0 /\ On({"windows"}) => a.kind = "nowhere"
            /\ p < 0 /\ ~On({"windows"}) => a.kind = "mask" /\ a.set = Processors
  <2>1. CASE On({"android", "cpp11"})
    BY <1>1, <1>4, <2>1 DEF ProcessorTypes, TaskInv
  <2>2. CASE ~On({"android", "cpp11"})
    <3>1. CASE p >= 0
      <4>1. a = Asked(p, Processors) /\ p % ProcessorCount = p
        BY <1>2, <1>4, <2>2, <3>1
      <4>2. a = [kind |-> "processor", set |-> {p % ProcessorCount}]
        BY <3>1, <4>1, AsksAre
      <4>3. a = [kind |-> "processor", set |-> {p}]
        BY <4>1, <4>2
      <4>4. a \in [kind : {"nothing", "nowhere", "processor", "mask"}, set : SUBSET Processors]
        BY <4>1, AsksAre
      <4>5. a.kind = "processor"
        BY <4>3
      <4> QED
        BY <1>2, <2>2, <3>1, <4>3, <4>4, <4>5
    <3>2. CASE p < 0
      <4>1. a = AskedAny
        BY <1>2, <1>4, <2>2, <3>2
      <4> QED
        BY <1>2, <2>2, <3>2, <4>1, AsksAre DEF AskedAny
    <3> QED
      BY <1>2, <3>1, <3>2
  <2> QED
    BY <2>1, <2>2
<1>6. processorSystem \in {"linux", "android", "kettle", "windows", "xboxone", "cpp11"}
  BY <1>1, PlatformIs
<1>7. /\ On({"android", "cpp11"}) => c = NoCall
      /\ On({"windows"}) => c = [kind |-> "ideal", on |-> t, to |-> IF p < 0 THEN Nowhere ELSE p]
      /\ On({"linux", "kettle", "xboxone"}) => c = [kind |-> "affinity", on |-> t, set |-> IF p < 0 THEN Processors ELSE {p}]
  <2>1. CASE On({"android", "cpp11"})
    <3>1. ~On({"linux"}) /\ ~On({"kettle"}) /\ ~On({"windows", "xboxone"}) /\ ~On({"windows"}) /\ ~On({"linux", "kettle", "xboxone"})
      BY <2>1 DEF On
    <3> QED
      BY <1>3, <2>1, <3>1 DEF ThreadProcessor
  <2>2. CASE On({"windows"})
    <3>1. ~On({"linux"}) /\ ~On({"kettle"}) /\ On({"windows", "xboxone"}) /\ ~On({"linux", "kettle", "xboxone"}) /\ ~On({"android", "cpp11"})
      BY <2>2 DEF On
    <3>2. c = WindowsProcessor(t, p)
      BY <1>3, <2>2, <3>1 DEF ThreadProcessor, WindowsThreadProcessor
    <3> QED
      BY <1>2, <2>2, <3>1, <3>2 DEF WindowsProcessor, Ideal
  <2>3. CASE On({"xboxone"})
    <3>1. ~On({"linux"}) /\ ~On({"kettle"}) /\ On({"windows", "xboxone"}) /\ ~On({"windows"}) /\ ~On({"android", "cpp11"})
      BY <2>3 DEF On
    <3>2. c = Affinity(t, KettleProcessorSet(p))
      BY <1>3, <2>3, <3>1 DEF ThreadProcessor, WindowsThreadProcessor
    <3>3. KettleProcessorSet(p) = IF p < 0 THEN Processors ELSE {p}
      BY <1>2 DEF KettleProcessorSet
    <3> QED
      BY <3>1, <3>2, <3>3 DEF Affinity
  <2>4. CASE On({"kettle"})
    <3>1. ~On({"linux"}) /\ ~On({"windows", "xboxone"}) /\ ~On({"windows"}) /\ ~On({"android", "cpp11"})
      BY <2>4 DEF On
    <3>2. c = Affinity(t, KettleProcessorSet(p))
      BY <1>3, <2>4, <3>1 DEF ThreadProcessor
    <3>3. KettleProcessorSet(p) = IF p < 0 THEN Processors ELSE {p}
      BY <1>2 DEF KettleProcessorSet
    <3> QED
      BY <3>1, <3>2, <3>3 DEF Affinity
  <2>5. CASE On({"linux"})
    <3>1. ~On({"kettle"}) /\ ~On({"windows", "xboxone"}) /\ ~On({"windows"}) /\ ~On({"android", "cpp11"})
      BY <2>5 DEF On
    <3>2. c = Affinity(t, LinuxProcessorSet(0)) /\ p = 0
      BY <1>1, <1>3, <2>5, <3>1 DEF ThreadProcessor
    <3>3. LinuxProcessorSet(0) = {0}
      BY DEF LinuxProcessorSet
    <3> QED
      BY <2>5, <3>1, <3>2, <3>3 DEF Affinity
  <2> QED
    BY <1>6, <2>1, <2>2, <2>3, <2>4, <2>5 DEF On
<1>8. c \in Calls /\ (c.kind = "none" => On({"android", "cpp11"}))
  <2>1. (IF p < 0 THEN Nowhere ELSE p) \in Processors \cup {Nowhere}
    BY <1>2
  <2>2. (IF p < 0 THEN Processors ELSE {p}) \in (SUBSET Processors) \ {{}}
    <3>1. Processors # {}
      BY ProcessorsAre
    <3> HIDE DEF Processors
    <3> QED
      BY <1>2, <3>1
  <2>3. On({"android", "cpp11"}) \/ On({"windows"}) \/ On({"linux", "kettle", "xboxone"})
    BY <1>6 DEF On
  <2> HIDE DEF Processors, Nowhere
  <2>4. CASE On({"android", "cpp11"})
    BY <1>7, <2>4 DEF Calls
  <2>5. CASE On({"windows"})
    <3>1. PICK to \in Processors \cup {Nowhere} : c = [kind |-> "ideal", on |-> t, to |-> to]
      BY <1>7, <2>1, <2>5
    <3> QED
      BY <1>1, <3>1 DEF Calls
  <2>6. CASE On({"linux", "kettle", "xboxone"})
    <3>1. PICK set \in (SUBSET Processors) \ {{}} : c = [kind |-> "affinity", on |-> t, set |-> set]
      BY <1>7, <2>2, <2>6
    <3> QED
      BY <1>1, <3>1 DEF Calls
  <2> QED
    BY <2>3, <2>4, <2>5, <2>6
<1>9. /\ processorSystem' = processorSystem /\ affinity' = affinity /\ ideal' = ideal /\ at' = at /\ begin' = begin
      /\ data' = data /\ usersMask' = usersMask
      /\ call' = [call EXCEPT ![t] = c] /\ asked' = [asked EXCEPT ![t] = a]
  BY <1>3, <1>4 DEF SetThreadProcessor
<1>10. PICK r \in [startup : ProcessorAsks, mask : SUBSET Processors, id : BOOLEAN, pid : BOOLEAN] :
         r = data[t] /\ data' = [data EXCEPT ![t] = r]
  BY <1>1, <1>9 DEF ProcessorTypes, ProcessorsTypeOK
<1>11. PICK m \in SUBSET Processors : r.mask = m /\ usersMask' = [usersMask EXCEPT ![t] = m]
  BY <1>1, <1>9, <1>10 DEF ProcessorTypes, ProcessorsTypeOK, TaskInv
<1>12. c.kind # "none" => c.on = t /\ Fulfils(c)'
  <2> SUFFICES ASSUME c.kind # "none" PROVE c.on = t /\ Fulfils(c)'
    OBVIOUS
  <2>1. asked'[t] = a /\ (On({"windows"})' <=> On({"windows"}))
    BY <1>1, <1>9 DEF ProcessorTypes, On
  <2>2. ~On({"android", "cpp11"})
    BY <1>7 DEF NoCall
  <2>3. CASE On({"windows"})
    <3>1. c = [kind |-> "ideal", on |-> t, to |-> IF p < 0 THEN Nowhere ELSE p]
      BY <1>7, <2>3
    <3> QED
      BY <1>2, <1>5, <2>1, <2>2, <2>3, <3>1 DEF Fulfils
  <2>4. CASE ~On({"windows"})
    <3>1. On({"linux", "kettle", "xboxone"})
      BY <1>6, <2>2, <2>4 DEF On
    <3>2. c = [kind |-> "affinity", on |-> t, set |-> IF p < 0 THEN Processors ELSE {p}]
      BY <1>7, <3>1
    <3>3. c.kind = "affinity" /\ c.on = t /\ (p < 0 => c.set = Processors) /\ (p >= 0 => c.set = {p})
      BY <1>2, <3>2
    <3>4. /\ p < 0 => asked'[t].kind = "mask" /\ asked'[t].set = Processors
          /\ p >= 0 => asked'[t].kind = "processor" /\ asked'[t].set = {p}
      BY <1>5, <2>1, <2>2, <2>4
    <3> HIDE DEF Processors
    <3>5. CASE p < 0
      BY <3>3, <3>4, <3>5 DEF Fulfils
    <3>6. CASE p >= 0
      BY <2>1, <2>4, <3>3, <3>4, <3>6 DEF Fulfils
    <3> QED
      BY <1>2, <3>5, <3>6
  <2> QED
    BY <2>3, <2>4
<1>13. c.kind = "none" => a = asked[t]
  BY <1>5, <1>8
<1>14. r.id = data[t].id /\ r.pid = data[t].pid
  BY <1>10
<1>15. PICK made \in Calls : made = c
  BY <1>8
<1>16. /\ call' = [call EXCEPT ![t] = made] /\ (made.kind = "none" => a = asked[t])
       /\ made.kind # "none" => made.on = t /\ Fulfils(made)'
  BY <1>9, <1>12, <1>13, <1>15
<1>17. PICK b \in [kind : {"nothing", "nowhere", "processor", "mask"}, set : SUBSET Processors] : b = a
  BY <1>5
<1>18. /\ Free(t) /\ Quiet(t)
       /\ processorSystem' = processorSystem /\ affinity' = affinity /\ ideal' = ideal /\ at' = at /\ begin' = begin
       /\ asked' = [asked EXCEPT ![t] = b] /\ data' = [data EXCEPT ![t] = r] /\ usersMask' = [usersMask EXCEPT ![t] = m]
       /\ r.id = data[t].id /\ r.pid = data[t].pid /\ r.mask = m
       /\ b.kind = "nowhere" => On({"windows"})
       /\ made.kind = "none" => b = asked[t]
  BY <1>1, <1>5, <1>9, <1>10, <1>11, <1>14, <1>16, <1>17
<1> QED
  BY <1>16, <1>18, ThreadIsAsked

LEMMA ThreadMaskIsSet ==
    ASSUME CarefulSetters, ProcessorInv, NEW t \in Tasks, NEW w \in Workers, NEW m \in Masks, SetsMask(t, w, w, m)
    PROVE  ProcessorInv'
<1>1. ProcessorTypes /\ Free(t) /\ Quiet(w) /\ TaskInv(w) /\ w \in Tasks /\ m \in (SUBSET Processors) \ {{}}
  BY MasksAre, ProcessorsAre DEF ProcessorInv, SetsMask
<1>2. PICK c : c = MaskCall(w, m)
  OBVIOUS
<1>3. (c.kind = "none" /\ c = NoCall) \/ (c.kind = "affinity" /\ ~On({"linux", "android", "cpp11"}) /\ c = [kind |-> "affinity", on |-> w, set |-> m])
  <2>1. processorSystem \in {"linux", "android", "kettle", "windows", "xboxone", "cpp11"}
    BY <1>1, PlatformIs
  <2>2. CASE On({"linux", "android"})
    <3>1. Linux /\ ~On({"cpp11"}) /\ ~On({"kettle"}) /\ ~On({"windows", "xboxone"})
      BY <2>2 DEF Linux, On
    <3> QED
      BY <1>2, <3>1 DEF MaskCall, LinuxMask, NoCall
  <2>3. CASE On({"cpp11"})
    <3>1. ~Linux /\ ~On({"kettle"}) /\ ~On({"windows", "xboxone"})
      BY <2>3 DEF Linux, On
    <3> QED
      BY <1>2, <2>3, <3>1 DEF MaskCall, Cpp11Mask, NoCall
  <2>4. CASE On({"kettle"})
    <3>1. ~Linux /\ ~On({"cpp11"}) /\ ~On({"windows", "xboxone"}) /\ ~On({"linux", "android", "cpp11"})
      BY <2>4 DEF Linux, On
    <3> QED
      BY <1>2, <2>4, <3>1 DEF MaskCall, KettleMask, Affinity
  <2>5. CASE On({"windows", "xboxone"})
    <3>1. ~Linux /\ ~On({"cpp11"}) /\ ~On({"kettle"}) /\ ~On({"linux", "android", "cpp11"})
      BY <2>5 DEF Linux, On
    <3> QED
      BY <1>2, <2>5, <3>1 DEF MaskCall, WindowsMask, Affinity
  <2> QED
    BY <2>1, <2>2, <2>3, <2>4, <2>5 DEF On
<1>4. PICK a : a = IF c.kind = "none" THEN asked[w] ELSE [kind |-> "mask", set |-> m]
  OBVIOUS
<1>5. /\ a \in [kind : {"nothing", "nowhere", "processor", "mask"}, set : SUBSET Processors]
      /\ a.kind = "nowhere" => On({"windows"})
      /\ c.kind = "none" => a = asked[w]
  <2>1. asked[w] \in [kind : {"nothing", "nowhere", "processor", "mask"}, set : SUBSET Processors]
    BY <1>1 DEF ProcessorTypes
  <2>2. asked[w].kind = "nowhere" => On({"windows"})
    BY <1>1 DEF TaskInv
  <2> QED
    BY <1>1, <1>4, <2>1, <2>2
<1>6. /\ processorSystem' = processorSystem /\ affinity' = affinity /\ ideal' = ideal /\ at' = at /\ begin' = begin
      /\ data' = [data EXCEPT ![w].mask = m] /\ usersMask' = [usersMask EXCEPT ![w] = m]
      /\ call' = [call EXCEPT ![t] = c] /\ asked' = [asked EXCEPT ![w] = a]
  BY <1>2, <1>4 DEF SetsMask
<1>7. PICK r \in [startup : ProcessorAsks, mask : SUBSET Processors, id : BOOLEAN, pid : BOOLEAN] :
         r.id = data[w].id /\ r.pid = data[w].pid /\ r.mask = m /\ data' = [data EXCEPT ![w] = r]
  <2>1. data[w] \in [startup : ProcessorAsks, mask : SUBSET Processors, id : BOOLEAN, pid : BOOLEAN]
    BY <1>1 DEF ProcessorTypes, ProcessorsTypeOK
  <2>2. data' = [data EXCEPT ![w] = [data[w] EXCEPT !.mask = m]]
    BY <1>6
  <2> QED
    BY <1>1, <2>1, <2>2
<1>8. c \in Calls
  BY <1>1, <1>3 DEF Calls
<1>9. c.kind # "none" => c.on = w /\ Fulfils(c)'
  <2> SUFFICES ASSUME c.kind # "none" PROVE c.on = w /\ Fulfils(c)'
    OBVIOUS
  <2>1. asked'[w] = [kind |-> "mask", set |-> m]
    BY <1>1, <1>4, <1>6 DEF ProcessorTypes
  <2> QED
    BY <1>3, <2>1 DEF Fulfils
<1>10. PICK b \in [kind : {"nothing", "nowhere", "processor", "mask"}, set : SUBSET Processors] : b = a
  BY <1>5
<1>11. (b.kind = "nowhere" => On({"windows"})) /\ asked' = [asked EXCEPT ![w] = b]
  BY <1>5, <1>6, <1>10
<1>12. PICK made \in Calls : made = c
  BY <1>8
<1>13. PICK mask \in SUBSET Processors : mask = m
  BY <1>1
<1>14. /\ call' = [call EXCEPT ![t] = made] /\ (made.kind = "none" => a = asked[w])
       /\ made.kind # "none" => made.on = w /\ Fulfils(made)'
       /\ usersMask' = [usersMask EXCEPT ![w] = mask] /\ r.mask = mask
  BY <1>5, <1>6, <1>7, <1>9, <1>12, <1>13
<1>15. /\ Free(t) /\ Quiet(w)
       /\ processorSystem' = processorSystem /\ affinity' = affinity /\ ideal' = ideal /\ at' = at /\ begin' = begin
       /\ data' = [data EXCEPT ![w] = r] /\ r.id = data[w].id /\ r.pid = data[w].pid
       /\ made.kind = "none" => b = asked[w]
  BY <1>1, <1>6, <1>7, <1>14, <1>10
<1> QED
  BY <1>14, <1>15, <1>11, WorkersAre, ThreadIsAsked

LEMMA ProcessorsGoOn ==
    ASSUME CarefulSetters, ProcessorCount # 2, ProcessorInv, [ProcessorsNext]_processorVars
    PROVE  ProcessorInv'
<1>1. CASE UNCHANGED processorVars
  <2>1. /\ processorSystem' = processorSystem /\ affinity' = affinity /\ ideal' = ideal /\ data' = data /\ at' = at
        /\ begin' = begin /\ call' = call /\ asked' = asked /\ usersMask' = usersMask
    BY <1>1 DEF processorVars
  <2>2. ProcessorTypes' /\ at'[MainThread] = "running"
    BY <2>1 DEF ProcessorInv, ProcessorTypes, ProcessorsTypeOK, Calls
  <2>3. ASSUME NEW w \in Tasks PROVE TaskInv(w)'
    <3>1. Begins(w)' <=> Begins(w)
      BY <2>1 DEF Begins
    <3>2. \A t \in Tasks : CallsOn(t, w) => CallsOn(t, w)'
      BY <2>1 DEF CallsOn
    <3>3. \A u \in Tasks : TaskInv(u)
      BY DEF ProcessorInv
    <3>4. \A u \in {w} :
              /\ affinity'[u] = affinity[u] /\ ideal'[u] = ideal[u] /\ data'[u] = data[u] /\ at'[u] = at[u]
              /\ asked'[u] = asked[u] /\ usersMask'[u] = usersMask[u]
      BY <2>1
    <3> QED
      BY <2>1, <3>1, <3>2, <3>3, <3>4, OthersStay
  <2>4. ASSUME NEW t \in Tasks PROVE CallInv(t)'
    BY <2>1, CallStays DEF ProcessorInv
  <2>5. BeginInv'
    <3>1. ProcessorTypes /\ BeginInv /\ (begin.step \in {"create", "apply"} => call'[MainThread].kind = "none")
      BY <2>1 DEF ProcessorInv, BeginInv
    <3>2. ASSUME NEW v \in Workers, Begins(v), begin.step = "resume" PROVE Done(v)' \/ CallsOn(MainThread, v)'
      <4>1. Done(v) \/ CallsOn(MainThread, v)
        BY <3>1, <3>2 DEF BeginInv, Begins
      <4>2. (Done(v)' <=> Done(v)) /\ (CallsOn(MainThread, v)' <=> CallsOn(MainThread, v))
        BY <2>1, DoneStays DEF CallsOn
      <4> QED
        BY <4>1, <4>2
    <3> QED
      BY <2>1, <3>1, <3>2, BeginStays
  <2> QED
    BY <2>2, <2>3, <2>4, <2>5 DEF ProcessorInv
<1>2. CASE ProcessorsNext
  <2>1. ASSUME NEW w \in Workers, NEW p \in ProcessorAsks, NEW m \in Masks, BeginConstructs(w, p, m) PROVE ProcessorInv'
    BY <2>1, ThreadIsConstructed
  <2>2. CASE LinuxCreates
    BY <2>2, LinuxThreadIsCreated
  <2>3. CASE LinuxApplies
    BY <2>3, LinuxThreadIsSet
  <2>4. CASE KettleCreates
    BY <2>4, KettleThreadIsCreated
  <2>5. CASE WindowsCreates
    BY <2>5, WindowsThreadIsCreated
  <2>6. CASE WindowsApplies
    BY <2>6, WindowsThreadIsSet
  <2>7. CASE WindowsResumes
    BY <2>7, WindowsThreadIsResumed
  <2>8. CASE Cpp11Creates
    BY <2>8, Cpp11ThreadIsCreated
  <2>9. ASSUME NEW w \in Workers, WorkerStarts(w) PROVE ProcessorInv'
    BY <2>9, ThreadStarts
  <2>10. ASSUME NEW t \in Tasks, SystemCall(t) PROVE ProcessorInv'
    BY <2>10, SystemIsCalled
  <2>11. ASSUME NEW t \in Tasks, NEW p \in ProcessorAsks, SetThreadProcessor(t, p) PROVE ProcessorInv'
    BY <2>11, ThreadProcessorIsSet
  <2>12. ASSUME NEW t \in Tasks, NEW w \in Workers, NEW p \in ProcessorAsks, SetProcessor(t, w, p) PROVE ProcessorInv'
    BY <2>12, ProcessorIsSet
  <2>13. ASSUME NEW t \in Tasks, NEW w \in Workers, NEW p \in ProcessorAsks, WindowsSetProcessor(t, w, p) PROVE ProcessorInv'
    BY <2>13, WindowsProcessorIsSet
  <2>14. ASSUME NEW t \in Tasks, NEW w \in Workers, NEW m \in Masks, SetThreadAffinityMask(t, w, m) PROVE ProcessorInv'
    BY <2>14, ThreadMaskIsSet DEF SetThreadAffinityMask
  <2>15. ASSUME NEW t \in Tasks, NEW w \in Workers, NEW m \in Masks, Cpp11SetAffinityMask(t, w, m) PROVE ProcessorInv'
    BY <2>15, ThreadMaskIsSet DEF Cpp11SetAffinityMask
  <2> QED
    BY <1>2, <2>1, <2>2, <2>3, <2>4, <2>5, <2>6, <2>7, <2>8, <2>9, <2>10, <2>11, <2>12, <2>13, <2>14, <2>15
    DEF ProcessorsNext
<1> QED
  BY <1>1, <1>2

LEMMA ProcessorInvKeeps == ProcessorInv => ProcessorsAreKept
<1> SUFFICES ASSUME ProcessorInv PROVE ProcessorsAreKept
  OBVIOUS
<1>1. ASSUME NEW w \in Tasks, Quiet(w) PROVE Done(w)
  <2>1. TaskInv(w) /\ at[w] = "running" /\ \A t \in Tasks : ~CallsOn(t, w)
    BY <1>1 DEF ProcessorInv, Quiet, CallsOn
  <2> QED
    BY <2>1 DEF TaskInv
<1>2. ThreadsRunWhereAsked
  BY <1>1 DEF ThreadsRunWhereAsked, Done
<1>3. MasksAreTheUsers
  BY ProcessorsAre DEF ProcessorInv, TaskInv, MasksAreTheUsers
<1>4. ProcessorsTypeOK
  BY DEF ProcessorInv, ProcessorTypes
<1> QED
  BY <1>2, <1>3, <1>4 DEF ProcessorsAreKept

-----------------------------------------------------------------------------
(* The selection of processors.                                            *)

\* Where the counter stands, and when a processor has its next turn from there.
LastTurn == IF nLastProcessor = MAXIMUM_PROCESSORS THEN MAXIMUM_PROCESSORS - 1 ELSE nLastProcessor
Turn(p) == IF p > LastTurn THEN p ELSE p + MAXIMUM_PROCESSORS

\* Whoever had no turn since q's last one has its next turn before q.
TurnsInv ==
    \A q, p \in AllProcessors : p \in skipped[q] => p \in sDefaultProcessorMask /\ Turn(p) < Turn(q)

Searching(t) == selecting[t].step # "idle"

SelectionInv ==
    /\ SelectionTypeOK
    /\ nLastProcessor \in 0 .. MAXIMUM_PROCESSORS
    /\ nLastProcessor = MAXIMUM_PROCESSORS <=> \E t \in Selectors : selecting[t].step = "wrap"
    /\ \A t, u \in Selectors : Searching(t) /\ Searching(u) => t = u
    /\ \A t \in Selectors : Searching(t) => selecting[t].mask = sDefaultProcessorMask
    /\ TurnsInv

LEMMA SelectionBegins == SelectionInit => SelectionInv
<1> SUFFICES ASSUME SelectionInit PROVE SelectionInv
  OBVIOUS
<1> USE DEF SelectionInit
<1>1. /\ MAXIMUM_PROCESSORS \in Nat \ {0} /\ MaxCounter \in Nat /\ 0 \in AllProcessors
      /\ NotSelecting \in [step : {"idle", "increment", "wrap"}, n : Int, mask : SUBSET AllProcessors]
  BY SelectionAssumption DEF AllProcessors, NotSelecting, kProcessorDefault
<1>2. SelectionTypeOK
  <2>1. AllProcessors \in (SUBSET AllProcessors) \ {{}}
    BY <1>1
  <2> QED
    BY <1>1, <2>1 DEF SelectionTypeOK, Fresh
<1>3. \A t \in Selectors : selecting[t].step = "idle"
  BY DEF NotSelecting
<1>4. TurnsInv
  BY DEF TurnsInv, Fresh
<1> QED
  BY <1>1, <1>2, <1>3, <1>4 DEF SelectionInv, Searching

\* t takes the next turn, for n, and takes n if it is in the mask.
LEMMA TurnIsTaken ==
    ASSUME SelectionInv, NEW t \in Selectors, Searching(t), NEW n \in AllProcessors, nLastProcessor' = n,
           n = IF nLastProcessor >= MAXIMUM_PROCESSORS - 1 THEN 0 ELSE nLastProcessor + 1,
           Tested(t, n), UNCHANGED <<sDefaultProcessor, sDefaultProcessorMask>>
    PROVE  SelectionInv' /\ skipped[n % MAXIMUM_PROCESSORS] = {}
<1> USE DEF SelectionInv
<1>1. /\ MAXIMUM_PROCESSORS \in Nat \ {0} /\ MaxCounter \in Nat /\ MaxCounter > MAXIMUM_PROCESSORS
      /\ n \in Nat /\ n < MAXIMUM_PROCESSORS /\ n % MAXIMUM_PROCESSORS = n
      /\ nLastProcessor \in Int
  <2>1. MAXIMUM_PROCESSORS \in Nat \ {0} /\ n \in Nat /\ n < MAXIMUM_PROCESSORS
    BY SelectionAssumption DEF AllProcessors
  <2>2. n % MAXIMUM_PROCESSORS = n
    BY <2>1, SmallRemainder
  <2> QED
    BY <2>1, <2>2, SelectionAssumption
<1>2. skipped \in [AllProcessors -> SUBSET AllProcessors]
  BY DEF SelectionTypeOK
<1>3. \A p \in AllProcessors : p \in Int /\ 0 <= p /\ p < MAXIMUM_PROCESSORS
  BY <1>1 DEF AllProcessors
\* The turn of n is the first one, and becomes the last one.
<1>4. \A p \in AllProcessors : Turn(p) >= Turn(n)
  BY <1>1, <1>3 DEF Turn, LastTurn
<1>5. /\ \A p \in AllProcessors \ {n} : Turn(p)' < Turn(n)'
      /\ \A p, q \in AllProcessors \ {n} : Turn(p) < Turn(q) => Turn(p)' < Turn(q)'
      /\ \A p \in AllProcessors : Turn(p) \in Int /\ Turn(p)' \in Int
  BY <1>1, <1>3 DEF Turn, LastTurn
<1>6. skipped[n] = {}
  <2>1. ASSUME NEW p \in skipped[n] PROVE FALSE
    <3>1. p \in AllProcessors
      BY <1>2
    <3>2. Turn(p) < Turn(n)
      BY <3>1 DEF TurnsInv
    <3> QED
      BY <1>4, <1>5, <3>1, <3>2
  <2> QED
    BY <2>1
<1>7. selecting[t].mask = sDefaultProcessorMask /\ sDefaultProcessorMask' = sDefaultProcessorMask
      /\ sDefaultProcessorMask \in (SUBSET AllProcessors) \ {{}} /\ sDefaultProcessor' = sDefaultProcessor
  BY DEF SelectionTypeOK
<1>8. /\ n \in sDefaultProcessorMask =>
            selecting' = [selecting EXCEPT ![t] = [NotSelecting EXCEPT !.n = n]] /\ skipped' = Taken(n)
      /\ n \notin sDefaultProcessorMask =>
            selecting' = [selecting EXCEPT ![t] = [selecting[t] EXCEPT !.step = "increment"]] /\ skipped' = skipped
  BY <1>1, <1>7 DEF Tested
<1>9. PICK x \in [step : {"idle", "increment", "wrap"}, n : Int, mask : SUBSET AllProcessors] :
         /\ selecting' = [selecting EXCEPT ![t] = x]
         /\ x.step \in {"idle", "increment"} /\ (x.step = "increment" => x.mask = sDefaultProcessorMask)
  <2>1. CASE n \in sDefaultProcessorMask
    <3>1. /\ [NotSelecting EXCEPT !.n = n] \in [step : {"idle", "increment", "wrap"}, n : Int, mask : SUBSET AllProcessors]
          /\ [NotSelecting EXCEPT !.n = n].step = "idle"
      BY <1>1 DEF NotSelecting
    <3> QED
      BY <1>8, <2>1, <3>1
  <2>2. CASE n \notin sDefaultProcessorMask
    <3>1. selecting[t] \in [step : {"idle", "increment", "wrap"}, n : Int, mask : SUBSET AllProcessors]
      BY DEF SelectionTypeOK
    <3>2. /\ [selecting[t] EXCEPT !.step = "increment"] \in [step : {"idle", "increment", "wrap"}, n : Int, mask : SUBSET AllProcessors]
          /\ [selecting[t] EXCEPT !.step = "increment"].step = "increment"
          /\ [selecting[t] EXCEPT !.step = "increment"].mask = selecting[t].mask
      BY <3>1
    <3> QED
      BY <1>7, <1>8, <2>2, <3>2
  <2> QED
    BY <2>1, <2>2
<1>10. /\ selecting'[t] = x /\ \A u \in Selectors \ {t} : selecting'[u] = selecting[u] /\ ~Searching(u)
       /\ selecting' \in [Selectors -> [step : {"idle", "increment", "wrap"}, n : Int, mask : SUBSET AllProcessors]]
  BY <1>9 DEF SelectionTypeOK
<1>11. TurnsInv' /\ skipped' \in [AllProcessors -> SUBSET AllProcessors]
  <2>1. CASE n \in sDefaultProcessorMask
    <3>1. skipped' = [q \in AllProcessors |-> IF q = n THEN sDefaultProcessorMask \ {n} ELSE skipped[q] \ {n}]
      BY <1>8, <2>1 DEF Taken
    <3>2. ASSUME NEW q \in AllProcessors, NEW p \in AllProcessors, p \in skipped'[q]
          PROVE  p \in sDefaultProcessorMask' /\ Turn(p)' < Turn(q)'
      <4>1. CASE q = n
        BY <1>5, <1>7, <3>1, <3>2, <4>1
      <4>2. CASE q # n
        <5>1. p \in skipped[q] /\ p # n
          BY <3>1, <3>2, <4>2
        <5>2. p \in sDefaultProcessorMask /\ Turn(p) < Turn(q)
          BY <5>1 DEF TurnsInv
        <5> QED
          BY <1>5, <1>7, <4>2, <5>1, <5>2
      <4> QED
        BY <4>1, <4>2
    <3>3. skipped' \in [AllProcessors -> SUBSET AllProcessors]
      BY <1>2, <1>7, <3>1
    <3> QED
      BY <3>2, <3>3 DEF TurnsInv
  <2>2. CASE n \notin sDefaultProcessorMask
    <3>1. skipped' = skipped
      BY <1>8, <2>2
    <3>2. ASSUME NEW q \in AllProcessors, NEW p \in AllProcessors, p \in skipped[q]
          PROVE  p \in sDefaultProcessorMask' /\ Turn(p)' < Turn(q)'
      <4>1. p \in sDefaultProcessorMask /\ Turn(p) < Turn(q) /\ p # n /\ q # n
        BY <1>6, <2>2, <3>2 DEF TurnsInv
      <4> QED
        BY <1>5, <1>7, <4>1
    <3> QED
      BY <1>2, <3>1, <3>2 DEF TurnsInv
  <2> QED
    BY <2>1, <2>2
<1>12. SelectionTypeOK'
  <2>1. nLastProcessor' \in 0 .. MaxCounter
    BY <1>1
  <2> QED
    BY <1>7, <1>10, <1>11, <2>1 DEF SelectionTypeOK
<1>13. \A u \in Selectors : selecting'[u].step # "wrap"
  <2>1. \A u \in Selectors \ {t} : selecting'[u].step = "idle"
    BY <1>10 DEF Searching
  <2> QED
    BY <1>9, <1>10, <2>1
<1>14. \A u \in Selectors : Searching(u)' => u = t /\ selecting'[u].mask = sDefaultProcessorMask'
  BY <1>7, <1>9, <1>10 DEF Searching
<1>15. nLastProcessor' # MAXIMUM_PROCESSORS /\ nLastProcessor' \in 0 .. MAXIMUM_PROCESSORS
  BY <1>1
<1> QED
  BY <1>1, <1>6, <1>11, <1>12, <1>13, <1>14, <1>15

LEMMA SelectionGoesOn ==
    ASSUME CarefulSelectors, SelectionInv, [SelectionNext]_selectionVars
    PROVE  /\ SelectionInv'
           /\ \A t \in Selectors :
                 Searching(t) /\ ~Searching(t)' => skipped[selecting'[t].n % MAXIMUM_PROCESSORS] = {}
<1> DEFINE Fair == \A t \in Selectors :
                      Searching(t) /\ ~Searching(t)' => skipped[selecting'[t].n % MAXIMUM_PROCESSORS] = {}
<1> USE DEF SelectionInv
<1>0. /\ MAXIMUM_PROCESSORS \in Nat \ {0} /\ MaxCounter \in Nat /\ MaxCounter > MAXIMUM_PROCESSORS
      /\ nLastProcessor \in 0 .. MAXIMUM_PROCESSORS
      /\ \A p \in AllProcessors : p \in Int /\ 0 <= p /\ p < MAXIMUM_PROCESSORS
  BY SelectionAssumption DEF AllProcessors
<1>1. CASE UNCHANGED selectionVars
  BY <1>1 DEF selectionVars, SelectionTypeOK, TurnsInv, Turn, LastTurn, Searching
<1>2. ASSUME NEW p \in AllProcessors \cup {kProcessorDefault, kProcessorAny}, SetDefaultProcessor(p) PROVE SelectionInv' /\ Fair
  BY <1>2 DEF SetDefaultProcessor, SelectionTypeOK, TurnsInv, Turn, LastTurn, Searching
<1>3. ASSUME NEW mask \in SUBSET AllProcessors, SetDefaultProcessorMask(mask) PROVE SelectionInv' /\ Fair
  <2>1. /\ \A t \in Selectors : ~Searching(t) /\ ~Searching(t)'
        /\ skipped' = Fresh /\ sDefaultProcessorMask' = mask /\ mask # {}
        /\ nLastProcessor' = nLastProcessor /\ sDefaultProcessor' = sDefaultProcessor /\ selecting' = selecting
    BY <1>3 DEF SetDefaultProcessorMask, Searching
  <2>2. TurnsInv' /\ skipped' \in [AllProcessors -> SUBSET AllProcessors]
    BY <2>1 DEF TurnsInv, Fresh
  <2>3. SelectionTypeOK'
    BY <2>1, <2>2 DEF SelectionTypeOK
  <2> QED
    BY <2>1, <2>2, <2>3
<1>4. ASSUME NEW t \in Selectors, NEW p \in AllProcessors, SelectAsked(t, p) PROVE SelectionInv' /\ Fair
  <2>1. /\ \A u \in Selectors : ~Searching(u) /\ ~Searching(u)' /\ selecting[u].step # "wrap"
        /\ skipped' = Fresh /\ sDefaultProcessorMask' = sDefaultProcessorMask /\ p # MAXIMUM_PROCESSORS - 1
        /\ nLastProcessor' = IF p = nLastProcessor THEN nLastProcessor + 1 ELSE nLastProcessor
        /\ sDefaultProcessor' = sDefaultProcessor /\ selecting' = selecting
    BY <1>4 DEF SelectAsked, MaySelect, Searching
  <2>2. TurnsInv' /\ skipped' \in [AllProcessors -> SUBSET AllProcessors]
    BY <2>1 DEF TurnsInv, Fresh
  <2>3. nLastProcessor # MAXIMUM_PROCESSORS
    BY <2>1
  <2>4. nLastProcessor' \in 0 .. MAXIMUM_PROCESSORS /\ nLastProcessor' # MAXIMUM_PROCESSORS /\ nLastProcessor' \in 0 .. MaxCounter
    BY <1>0, <2>1, <2>3
  <2>5. SelectionTypeOK'
    BY <2>1, <2>2, <2>4 DEF SelectionTypeOK
  <2> QED
    BY <2>1, <2>2, <2>4, <2>5
<1>5. ASSUME NEW t \in Selectors, SelectDefault(t) PROVE SelectionInv' /\ Fair
  <2> DEFINE x == [step |-> "increment", n |-> kProcessorDefault, mask |-> sDefaultProcessorMask]
  <2>1. /\ \A u \in Selectors : ~Searching(u) /\ selecting[u].step = "idle"
        /\ selecting' = [selecting EXCEPT ![t] = x]
        /\ UNCHANGED <<nLastProcessor, sDefaultProcessor, sDefaultProcessorMask, skipped>>
    BY <1>5 DEF SelectDefault, MaySelect, Searching
  <2>2. x \in [step : {"idle", "increment", "wrap"}, n : Int, mask : SUBSET AllProcessors] /\ x.step = "increment" /\ x.mask = sDefaultProcessorMask
    BY DEF SelectionTypeOK, kProcessorDefault
  <2> HIDE DEF x
  <2>3. /\ selecting'[t] = x /\ \A u \in Selectors \ {t} : selecting'[u] = selecting[u]
        /\ selecting' \in [Selectors -> [step : {"idle", "increment", "wrap"}, n : Int, mask : SUBSET AllProcessors]]
    BY <2>1, <2>2 DEF SelectionTypeOK
  <2>4. \A u \in Selectors : /\ selecting'[u].step # "wrap" /\ selecting[u].step # "wrap"
                             /\ Searching(u)' => u = t /\ selecting'[u].mask = sDefaultProcessorMask'
    BY <2>1, <2>2, <2>3 DEF Searching
  <2>5. SelectionTypeOK' /\ TurnsInv'
    BY <2>1, <2>3 DEF SelectionTypeOK, TurnsInv, Turn, LastTurn
  <2> QED
    BY <2>1, <2>4, <2>5
<1>6. ASSUME NEW t \in Selectors, Increment(t) PROVE SelectionInv' /\ Fair
  <2>1. /\ Searching(t) /\ selecting[t].step = "increment" /\ \A u \in Selectors \ {t} : ~Searching(u)
        /\ nLastProcessor # MAXIMUM_PROCESSORS
    <3>1. selecting[t].step = "increment" /\ Searching(t)
      BY <1>6 DEF Increment, Searching
    <3>2. \A u \in Selectors : selecting[u].step = "wrap" => u = t
      BY <3>1 DEF Searching
    <3> QED
      BY <3>1, <3>2
  <2>2. CASE nLastProcessor + 1 = MAXIMUM_PROCESSORS
    <3>1. /\ nLastProcessor' = nLastProcessor + 1 /\ skipped' = skipped
          /\ sDefaultProcessor' = sDefaultProcessor /\ sDefaultProcessorMask' = sDefaultProcessorMask
          /\ selecting' = [selecting EXCEPT ![t] = [selecting[t] EXCEPT !.step = "wrap"]]
      BY <1>6, <2>2 DEF Increment
    <3>2. PICK x \in [step : {"idle", "increment", "wrap"}, n : Int, mask : SUBSET AllProcessors] :
             x = [selecting[t] EXCEPT !.step = "wrap"] /\ x.step = "wrap" /\ x.mask = selecting[t].mask
      <4>1. selecting[t] \in [step : {"idle", "increment", "wrap"}, n : Int, mask : SUBSET AllProcessors]
        BY DEF SelectionTypeOK
      <4>2. /\ [selecting[t] EXCEPT !.step = "wrap"] \in [step : {"idle", "increment", "wrap"}, n : Int, mask : SUBSET AllProcessors]
            /\ [selecting[t] EXCEPT !.step = "wrap"].step = "wrap"
            /\ [selecting[t] EXCEPT !.step = "wrap"].mask = selecting[t].mask
        BY <4>1
      <4> QED
        BY <4>2
    <3>3. /\ selecting'[t] = x /\ \A u \in Selectors \ {t} : selecting'[u] = selecting[u]
          /\ selecting' \in [Selectors -> [step : {"idle", "increment", "wrap"}, n : Int, mask : SUBSET AllProcessors]]
      BY <3>1, <3>2 DEF SelectionTypeOK
    <3>4. \A u \in Selectors : Searching(u)' => u = t /\ selecting'[u].mask = sDefaultProcessorMask'
      BY <2>1, <3>1, <3>2, <3>3 DEF Searching
    <3>5. Searching(t)' /\ \A u \in Selectors : Searching(u) => Searching(u)'
      BY <2>1, <3>2, <3>3 DEF Searching
    <3>6. TurnsInv'
      BY <2>1, <2>2, <3>1 DEF TurnsInv, Turn, LastTurn
    <3>7. SelectionTypeOK'
      BY <1>0, <2>2, <3>1, <3>3 DEF SelectionTypeOK
    <3>8. nLastProcessor' = MAXIMUM_PROCESSORS /\ nLastProcessor' \in 0 .. MAXIMUM_PROCESSORS /\ selecting'[t].step = "wrap"
      BY <1>0, <2>2, <3>1, <3>2, <3>3
    <3> QED
      BY <3>4, <3>5, <3>6, <3>7, <3>8
  <2>3. CASE nLastProcessor + 1 # MAXIMUM_PROCESSORS
    <3>1. PICK n : n = nLastProcessor + 1
      OBVIOUS
    <3>2. /\ n \in AllProcessors /\ nLastProcessor' = n /\ Tested(t, n)
          /\ n = IF nLastProcessor >= MAXIMUM_PROCESSORS - 1 THEN 0 ELSE nLastProcessor + 1
          /\ UNCHANGED <<sDefaultProcessor, sDefaultProcessorMask>>
      BY <1>0, <1>6, <2>1, <2>3, <3>1 DEF Increment, AllProcessors
    <3>3. SelectionInv' /\ skipped[n % MAXIMUM_PROCESSORS] = {}
      BY <2>1, <3>2, TurnIsTaken
    <3>4. \A u \in Selectors : Searching(u) /\ ~Searching(u)' => selecting'[u].n = n
      BY <2>1, <3>2 DEF Tested, NotSelecting, Searching, SelectionTypeOK
    <3> QED
      BY <3>3, <3>4
  <2> QED
    BY <2>2, <2>3
<1>7. ASSUME NEW t \in Selectors, Wrap(t) PROVE SelectionInv' /\ Fair
  <2>1. /\ Searching(t) /\ selecting[t].step = "wrap" /\ \A u \in Selectors \ {t} : ~Searching(u)
        /\ nLastProcessor = MAXIMUM_PROCESSORS
    BY <1>7 DEF Wrap, Searching
  <2>2. /\ 0 \in AllProcessors /\ nLastProcessor' = 0 /\ Tested(t, 0)
        /\ 0 = IF nLastProcessor >= MAXIMUM_PROCESSORS - 1 THEN 0 ELSE nLastProcessor + 1
        /\ UNCHANGED <<sDefaultProcessor, sDefaultProcessorMask>>
    BY <1>0, <1>7, <2>1 DEF Wrap, AllProcessors
  <2>3. SelectionInv' /\ skipped[0 % MAXIMUM_PROCESSORS] = {}
    BY <2>1, <2>2, TurnIsTaken
  <2>4. \A u \in Selectors : Searching(u) /\ ~Searching(u)' => selecting'[u].n = 0
    BY <2>1, <2>2 DEF Tested, NotSelecting, Searching, SelectionTypeOK
  <2> QED
    BY <2>3, <2>4
<1> QED
  BY <1>1, <1>2, <1>3, <1>4, <1>5, <1>6, <1>7 DEF SelectionNext

-----------------------------------------------------------------------------
(* The theorems.                                                           *)

\* On every platform the priorities are ordered as the system's, are read back as
\* they were set, up to its range and gaps, and none of the range is refused.
THEOREM SystemPrioritiesAreKept == Spec => []PrioritiesAreKept
<1>1. Init => PriorityInv
  BY PrioritiesBegin DEF Init
<1>2. PriorityInv /\ [Next]_allVars => PriorityInv'
  BY OneSubjectMoves, PrioritiesGoOn
<1>3. PriorityInv => PrioritiesAreKept
  BY PriorityInvKeeps
<1> QED
  BY <1>1, <1>2, <1>3, PTL DEF Spec

\* Every handle that GetThreadId has made for a thread of somebody else's, or Begin
\* for one of the library's, is open while somebody can use it, the thread's own,
\* and closed once.
THEOREM SystemHandlesAreKept ==
    ASSUME CarefulEnds
    PROVE  Spec => []HandlesAreKept
<1>1. Init => HandleInv
  BY HandlesBegin DEF Init
<1>2. HandleInv /\ [Next]_allVars => HandleInv'
  BY OneSubjectMoves, HandlesGoOn
<1>3. HandleInv => HandlesAreKept
  BY HandleInvKeeps
<1> QED
  BY <1>1, <1>2, <1>3, PTL DEF Spec

\* When no naming is under way, mName and the name the system shows are those that
\* were given last.
THEOREM SystemNamesAreKept ==
    ASSUME CarefulNamers
    PROVE  Spec => []NamesAreKept
<1>1. Init => NameInv
  BY NamesBegin DEF Init
<1>2. NameInv /\ [Next]_allVars => NameInv'
  BY OneSubjectMoves, NamesGoOn
<1>3. NameInv => NamesAreKept
  BY NameInvKeeps
<1> QED
  BY <1>1, <1>2, <1>3, PTL DEF Spec

\* Waits end at the absolute time that was asked for, ThreadTime's arithmetic is
\* exact and normalized, and each sleep on Kettle ends with its own timer event.
THEOREM SystemTimesAreKept ==
    ASSUME CarefulTimes, CarefulSleepers
    PROVE  Spec => []TimesAreKept
<1>1. Init => TimeInv /\ SleepInv
  BY TimeBegins, SleepBegins DEF Init
<1>2. TimeInv /\ SleepInv /\ [Next]_allVars => TimeInv' /\ SleepInv'
  BY OneSubjectMoves, TimeGoesOn, SleepGoesOn
<1>3. TimeInv /\ SleepInv => TimesAreKept
  BY TimeInvKeeps, SleepInvKeeps DEF TimesAreKept
<1> QED
  BY <1>1, <1>2, <1>3, PTL DEF Spec

\* Once Begin, the new thread, SetProcessor and the masks have all done their part,
\* a thread may run where it was asked to, and its mask is its user's; where there
\* are not just two processors (see StartupIs).
THEOREM SystemProcessorsAreKept ==
    ASSUME CarefulSetters, ProcessorCount # 2
    PROVE  Spec => []ProcessorsAreKept
<1>1. Init => ProcessorInv
  BY ProcessorsBegin DEF Init
<1>2. ProcessorInv /\ [Next]_allVars => ProcessorInv'
  BY OneSubjectMoves, ProcessorsGoOn
<1>3. ProcessorInv => ProcessorsAreKept
  BY ProcessorInvKeeps
<1> QED
  BY <1>1, <1>2, <1>3, PTL DEF Spec

\* SelectProcessor goes round the processors of the mask: whoever is taken has let
\* every other one have its turn; and nLastProcessor is wrapped in time.
THEOREM SystemSelectionIsFair ==
    ASSUME CarefulSelectors
    PROVE  Spec => SelectionIsFair
<1>1. Init => SelectionInv
  BY SelectionBegins DEF Init
<1>2. SelectionInv /\ [Next]_allVars => SelectionInv'
  BY OneSubjectMoves, SelectionGoesOn
<1>3. SelectionInv => SelectionTypeOK /\ CounterIsWrapped
  <2>1. SelectionInv => nLastProcessor \in AllProcessors \/ nLastProcessor = MAXIMUM_PROCESSORS
    BY SelectionAssumption DEF SelectionInv, AllProcessors
  <2> QED
    BY <2>1 DEF SelectionInv, CounterIsWrapped
<1>4. SelectionInv /\ [Next]_allVars =>
         [\A t \in Selectors :
             selecting[t].step # "idle" /\ selecting'[t].step = "idle"
               => skipped[selecting'[t].n % MAXIMUM_PROCESSORS] = {}]_selectionVars
  BY OneSubjectMoves, SelectionGoesOn DEF Searching
<1> QED
  BY <1>1, <1>2, <1>3, <1>4, PTL DEF Spec, SelectionIsFair, RoundRobinIsFair
=============================================================================
