-------------------------- MODULE ThreadProcessors --------------------------
(***************************************************************************)
(* Which processors a thread may run on: the parameters of Begin, and the  *)
(* functions SetProcessor, SetThreadProcessor and SetThreadAffinityMask.   *)
(*                                                                         *)
(* On Linux only the thread itself, or a caller that knows its id, can set *)
(* it: Begin leaves mStartupProcessor as a message that both the new       *)
(* thread and Begin carry out, and SetProcessor rewrites.  A mask is only  *)
(* recorded there (EATHREAD_THREAD_AFFINITY_MASK_SUPPORTED is 0), and with *)
(* C++11 nothing else is done at all.  Kettle passes both with the         *)
(* attributes of the thread; Windows sets them while it is suspended.      *)
(*                                                                         *)
(* The first part is SelectProcessor: the processor of a thread that is    *)
(* begun on Windows.  Threads that ask for none go round the processors of *)
(* the default mask, with a counter that all selectors share.  The counter *)
(* is incremented first and wrapped after, in two steps.                   *)
(***************************************************************************)
EXTENDS Integers, FiniteSets

CONSTANTS
    Selectors,
    MAXIMUM_PROCESSORS,
    MaxCounter,        \* Bound: of the counter, if it is not wrapped.
    CarefulSelectors   \* One selection at a time, and nobody asks for the last processor.

ASSUME SelectionAssumption ==
    /\ IsFiniteSet(Selectors) /\ CarefulSelectors \in BOOLEAN
    /\ MAXIMUM_PROCESSORS \in Nat \ {0} /\ MaxCounter \in Nat /\ MaxCounter > MAXIMUM_PROCESSORS

AllProcessors == 0 .. MAXIMUM_PROCESSORS - 1

\* The numbers that stand for no particular processor.
kProcessorDefault == -1
kProcessorAny == -2

VARIABLES
    nLastProcessor,
    sDefaultProcessor, sDefaultProcessorMask,
    selecting,  \* Where each selector is, its nProcessor and its processorMask.
    skipped     \* For each processor, those of the mask that had no turn since its last one.

selectionVars == <<nLastProcessor, sDefaultProcessor, sDefaultProcessorMask, selecting, skipped>>

NotSelecting == [step |-> "idle", n |-> kProcessorDefault, mask |-> {}]

\* Nobody has had a turn.
Fresh == [p \in AllProcessors |-> {}]

SelectionInit ==
    /\ nLastProcessor = 0
    /\ sDefaultProcessor = kProcessorAny /\ sDefaultProcessorMask = AllProcessors
    /\ selecting = [t \in Selectors |-> NotSelecting]
    /\ skipped = Fresh

\* SetDefaultProcessor and SetDefaultProcessorMask, before threads are begun: a
\* mask of no processor would have SelectProcessor search for ever.
SetDefaultProcessor(p) ==
    /\ \A t \in Selectors : selecting[t].step = "idle"
    /\ sDefaultProcessor' = p
    /\ UNCHANGED <<nLastProcessor, sDefaultProcessorMask, selecting, skipped>>

SetDefaultProcessorMask(mask) ==
    /\ mask # {} /\ \A t \in Selectors : selecting[t].step = "idle"
    /\ sDefaultProcessorMask' = mask /\ skipped' = Fresh
    /\ UNCHANGED <<nLastProcessor, sDefaultProcessor, selecting>>

MaySelect(t) ==
    /\ selecting[t].step = "idle"
    /\ CarefulSelectors => \A u \in Selectors : selecting[u].step = "idle"

\* mnProcessor is a processor: "a small attempt to try to spread out threads".
\* (The counter is read and incremented apart, which matters to nobody who is careful.)
SelectAsked(t, p) ==
    /\ MaySelect(t)
    /\ CarefulSelectors => p # MAXIMUM_PROCESSORS - 1
    /\ nLastProcessor < MaxCounter
    /\ nLastProcessor' = IF p = nLastProcessor THEN nLastProcessor + 1 ELSE nLastProcessor
    /\ skipped' = Fresh
    /\ UNCHANGED <<sDefaultProcessor, sDefaultProcessorMask, selecting>>

\* No parameters, or kProcessorAny, or a default processor: the counter is left alone.
\* Otherwise the search begins.
SelectDefault(t) ==
    /\ MaySelect(t) /\ sDefaultProcessor = kProcessorAny
    /\ selecting' = [selecting EXCEPT ![t] = [step |-> "increment", n |-> kProcessorDefault,
                                              mask |-> sDefaultProcessorMask]]
    /\ UNCHANGED <<nLastProcessor, sDefaultProcessor, sDefaultProcessorMask, skipped>>

\* p is taken: the processors of the mask but p have had no turn since.
Taken(p) == [q \in AllProcessors |->
                IF q = p THEN sDefaultProcessorMask \ {p} ELSE skipped[q] \ {p}]

\* The end of an iteration.  A shift by the width of the mask or more is
\* undefined; processors shift by the remainder.
Tested(t, n) ==
    IF n % MAXIMUM_PROCESSORS \in selecting[t].mask
    THEN /\ selecting' = [selecting EXCEPT ![t] = [NotSelecting EXCEPT !.n = n]]
         /\ skipped' = Taken(n % MAXIMUM_PROCESSORS)
    ELSE /\ selecting' = [selecting EXCEPT ![t].step = "increment"]
         /\ UNCHANGED skipped

Increment(t) ==
    /\ selecting[t].step = "increment" /\ nLastProcessor < MaxCounter
    /\ nLastProcessor' = nLastProcessor + 1
    /\ IF nLastProcessor + 1 = MAXIMUM_PROCESSORS
       THEN selecting' = [selecting EXCEPT ![t].step = "wrap"] /\ UNCHANGED skipped
       ELSE Tested(t, nLastProcessor + 1)
    /\ UNCHANGED <<sDefaultProcessor, sDefaultProcessorMask>>

\* Mutant of Wrap: the counter goes back without the processor.
WrapCounter(t) ==
    /\ selecting[t].step = "wrap"
    /\ nLastProcessor' = IF nLastProcessor = MAXIMUM_PROCESSORS THEN 0 ELSE nLastProcessor
    /\ selecting' = [selecting EXCEPT ![t].step = "increment"]
    /\ UNCHANGED <<sDefaultProcessor, sDefaultProcessorMask, skipped>>

\* SetValueConditional(0, MAXIMUM_PROCESSORS).
Wrap(t) ==
    /\ selecting[t].step = "wrap"
    /\ nLastProcessor' = IF nLastProcessor = MAXIMUM_PROCESSORS THEN 0 ELSE nLastProcessor
    /\ Tested(t, 0)
    /\ UNCHANGED <<sDefaultProcessor, sDefaultProcessorMask>>

SelectionNext ==
    \/ \E p \in AllProcessors \cup {kProcessorDefault, kProcessorAny} : SetDefaultProcessor(p)
    \/ \E mask \in SUBSET AllProcessors : SetDefaultProcessorMask(mask)
    \/ \E t \in Selectors :
          \/ \E p \in AllProcessors : SelectAsked(t, p)
          \/ SelectDefault(t) \/ Increment(t) \/ Wrap(t)

-----------------------------------------------------------------------------
SelectionTypeOK ==
    /\ nLastProcessor \in 0 .. MaxCounter
    /\ sDefaultProcessor \in AllProcessors \cup {kProcessorDefault, kProcessorAny}
    /\ sDefaultProcessorMask \in (SUBSET AllProcessors) \ {{}}
    /\ selecting \in [Selectors -> [step : {"idle", "increment", "wrap"}, n : Int, mask : SUBSET AllProcessors]]
    /\ skipped \in [AllProcessors -> SUBSET AllProcessors]

\* The counter never escapes beyond MAXIMUM_PROCESSORS, where it would not be
\* wrapped again: what is not being wrapped is a processor.
CounterIsWrapped ==
    nLastProcessor \in AllProcessors \/ \E t \in Selectors : selecting[t].step = "wrap"

\* 'round-robin': no processor of the mask gets a second turn before every other
\* one has had one, unless somebody asked for a processor in between.
RoundRobinIsFair ==
    [][\A t \in Selectors :
          selecting[t].step # "idle" /\ selecting'[t].step = "idle"
            => skipped[selecting'[t].n % MAXIMUM_PROCESSORS] = {}]_selectionVars
-----------------------------------------------------------------------------
(* What Begin and the callers of the functions ask for.                    *)

CONSTANTS
    ProcessorSystems,  \* Of "linux", "android", "kettle", "windows", "xboxone", "cpp11".
    Workers,           \* The threads that are begun; at most one at a time.
    MainThread,        \* The thread that begins them; it may bind itself first.
    ProcessorCount,
    MaxProcessor,      \* Bound: the largest processor anybody asks for.
    CarefulSetters     \* Do callers keep to what the code does as documented?

ASSUME ProcessorsAssumption ==
    /\ ProcessorSystems \subseteq {"linux", "android", "kettle", "windows", "xboxone", "cpp11"}
    /\ MainThread \notin Workers /\ IsFiniteSet(Workers)
    /\ ProcessorCount \in Nat \ {0} /\ MaxProcessor \in Nat /\ CarefulSetters \in BOOLEAN

Tasks == Workers \cup {MainThread}
Processors == 0 .. ProcessorCount - 1
ProcessorAsks == kProcessorAny .. MaxProcessor
\* kThreadAffinityMaskAny, and the masks of one processor.
Masks == {Processors} \cup {{p} : p \in Processors}

VARIABLES
    processorSystem,  \* The platform.
    affinity,  \* What the system lets each thread run on ...
    ideal,     \* ... and, on Windows, where it would rather have it.
    data,      \* mStartupProcessor and mnThreadAffinityMask; does mThreadId
               \* name the thread; does mThreadPid?
    at,        \* Where each thread is: "unborn", "suspended", "starting", "running".
    begin,     \* The call of Begin that is under way: its step, thread and parameters.
    call,      \* The call of the system each thread is about to make.
    asked,     \* What was last asked for each thread: a processor or a mask.
    usersMask  \* The mask last given for each thread.

processorVars == <<processorSystem, affinity, ideal, data, at, begin, call, asked, usersMask>>

NoCall == [kind |-> "none"]
NoBegin == [step |-> "none"]
Nowhere == -1        \* No ideal processor.
Nothing == [kind |-> "nothing", set |-> {}]
Affinity(t, set) == [kind |-> "affinity", on |-> t, set |-> set]
Ideal(t, p) == [kind |-> "ideal", on |-> t, to |-> p]

On(systems) == processorSystem \in systems
Linux == On({"linux", "android"})

\* C's remainder has the sign of what is divided.
Remainder(p, n) == IF p < 0 THEN -((-p) % n) ELSE p % n

\* What the documentation makes of a processor, or of a mask.
Asked(p, mask) ==
    IF p >= 0 THEN [kind |-> "processor", set |-> {p % ProcessorCount}]
    ELSE IF p = kProcessorAny THEN [kind |-> "mask", set |-> mask]
    ELSE Nothing

\* kProcessorAny, given to SetProcessor.
AskedAny == [kind |-> IF On({"windows"}) THEN "nowhere" ELSE "mask", set |-> Processors]

Begins(w) == begin.step # "none" /\ begin.thread = w
\* Nobody is doing anything about the processors of w.
Quiet(w) == at[w] = "running" /\ ~Begins(w) /\ \A t \in Tasks : call[t].kind # "none" => call[t].on # w

ProcessorsInit ==
    /\ processorSystem \in ProcessorSystems
    /\ affinity = [t \in Tasks |-> Processors] /\ ideal = [t \in Tasks |-> Nowhere]
    /\ data = [t \in Tasks |-> [startup |-> kProcessorDefault, mask |-> Processors,
                                id |-> t = MainThread, pid |-> FALSE]]
    /\ at = [t \in Tasks |-> IF t = MainThread THEN "running" ELSE "unborn"]
    /\ begin = NoBegin /\ call = [t \in Tasks |-> NoCall]
    /\ asked = [t \in Tasks |-> Nothing] /\ usersMask = [t \in Tasks |-> Processors]

-----------------------------------------------------------------------------
(* The system.                                                             *)

\* A set without any processor of this machine is an error.
SystemCall(t) ==
    /\ call[t].kind # "none"
    /\ IF call[t].kind = "ideal"
       THEN ideal' = [ideal EXCEPT ![call[t].on] = call[t].to] /\ UNCHANGED affinity
       ELSE /\ affinity' = [affinity EXCEPT ![call[t].on] =
                               IF call[t].set \cap Processors = {} THEN @ ELSE call[t].set \cap Processors]
            /\ UNCHANGED ideal
    /\ call' = [call EXCEPT ![t] = NoCall]
    /\ UNCHANGED <<processorSystem, data, at, begin, asked, usersMask>>

\* A thread can do the next thing.
Free(t) == at[t] = "running" /\ call[t].kind = "none" /\ (t = MainThread => begin.step = "none")

-----------------------------------------------------------------------------
(* Begin.                                                                  *)

\* Mutant of StartupProcessor: the parameter as it is.
RawProcessor(p) == p

\* mStartupProcessor = pTP->mnProcessor % GetProcessorCount().
StartupProcessor(p) == Remainder(p, ProcessorCount)

\* "Run the thread on any processor" is nothing that Begin tells Linux, and a new
\* thread inherits: callers who mean it have not bound themselves before.
MayBegin(p) ==
    CarefulSetters => (Linux /\ p = kProcessorAny => affinity[MainThread] = Processors)

BeginConstructs(w, p, mask) ==
    /\ Free(MainThread) /\ at[w] = "unborn"
    /\ MayBegin(p)
    /\ data' = [data EXCEPT ![w] = [startup |-> IF Linux \/ On({"kettle"}) THEN StartupProcessor(p)
                                                ELSE kProcessorDefault,
                                    mask |-> mask, id |-> FALSE, pid |-> FALSE]]
    /\ begin' = [step |-> "create", thread |-> w, processor |-> p, mask |-> mask]
    /\ asked' = [asked EXCEPT ![w] = Asked(p, IF Linux \/ On({"cpp11"}) THEN Processors ELSE mask)]
    /\ usersMask' = [usersMask EXCEPT ![w] = mask]
    /\ UNCHANGED <<processorSystem, affinity, ideal, at, call>>

\* pthread_create: the thread inherits where its creator may run.
LinuxCreates ==
    /\ Linux /\ begin.step = "create"
    /\ data' = [data EXCEPT ![begin.thread].id = TRUE]
    /\ affinity' = [affinity EXCEPT ![begin.thread] = affinity[MainThread]]
    /\ at' = [at EXCEPT ![begin.thread] = "starting"]
    /\ begin' = [begin EXCEPT !.step = "apply"]
    /\ UNCHANGED <<processorSystem, ideal, call, asked, usersMask>>

\* SetPlatformThreadAffinity, when there is a startup processor: Android has
\* no function for other threads, and waits for mThreadPid.
PlatformThreadAffinity(w) ==
    IF data[w].id /\ (On({"android"}) => data[w].pid) THEN Affinity(w, {data[w].startup}) ELSE NoCall

Startup(w) == IF data[w].startup \in {kProcessorDefault, kProcessorAny} THEN NoCall
              ELSE PlatformThreadAffinity(w)

\* Begin applies it, in case the thread has not; the mask is recorded again.
LinuxApplies ==
    /\ Linux /\ begin.step = "apply"
    /\ call' = [call EXCEPT ![MainThread] = Startup(begin.thread)]
    /\ IF begin.processor = kProcessorAny
       THEN /\ data' = [data EXCEPT ![begin.thread].mask = begin.mask]
       ELSE UNCHANGED data
    /\ begin' = NoBegin
    /\ UNCHANGED <<processorSystem, affinity, ideal, at, asked, usersMask>>

\* The attributes of the thread.  Without any it gets some processor.
KettleCreates ==
    /\ On({"kettle"}) /\ begin.step = "create"
    /\ LET w == begin.thread
           startup == data[w].startup
       IN  \E p \in Processors :
             affinity' = [affinity EXCEPT ![w] =
                 IF startup = kProcessorAny THEN data[w].mask
                 ELSE IF startup = kProcessorDefault THEN {p} ELSE {startup}]
    /\ data' = [data EXCEPT ![begin.thread].id = TRUE]
    /\ at' = [at EXCEPT ![begin.thread] = "starting"]
    /\ begin' = NoBegin
    /\ UNCHANGED <<processorSystem, ideal, call, asked, usersMask>>

\* _beginthreadex, suspended.
WindowsCreates ==
    /\ On({"windows", "xboxone"}) /\ begin.step = "create"
    /\ data' = [data EXCEPT ![begin.thread].id = TRUE]
    /\ affinity' = [affinity EXCEPT ![begin.thread] = Processors]
    /\ at' = [at EXCEPT ![begin.thread] = "suspended"]
    /\ begin' = [begin EXCEPT !.step = "apply"]
    /\ UNCHANGED <<processorSystem, ideal, call, asked, usersMask>>

\* std::thread does not know about processors.
Cpp11Creates ==
    /\ On({"cpp11"}) /\ begin.step = "create"
    /\ data' = [data EXCEPT ![begin.thread].id = TRUE]
    /\ at' = [at EXCEPT ![begin.thread] = "starting"]
    /\ begin' = NoBegin
    /\ UNCHANGED <<processorSystem, affinity, ideal, call, asked, usersMask>>

\* What SetProcessor asks the system for: on Windows a processor the thread
\* would rather have, on Xbox One a mask.
WindowsProcessor(w, p) == Ideal(w, IF p < 0 THEN Nowhere ELSE p % ProcessorCount)
XboxProcessor(w, p) == Affinity(w, IF p < 0 THEN Processors ELSE {p % ProcessorCount})
SystemProcessor(w, p) == IF On({"windows"}) THEN WindowsProcessor(w, p) ELSE XboxProcessor(w, p)

\* The mask that is recorded with that: on Xbox One it is SetThreadAffinityMask.
MaskWith(w, p) == IF On({"xboxone"}) THEN XboxProcessor(w, p).set ELSE data[w].mask

\* What SelectProcessor may answer: kProcessorDefault becomes some processor, one
\* after the other, or the one given to SetDefaultProcessor.
Selected(p) == IF p >= 0 THEN {p} ELSE Processors \cup {kProcessorDefault}

\* SetAffinityMask, or SetProcessor for what SelectProcessor has chosen.
WindowsApplies ==
    /\ On({"windows", "xboxone"}) /\ begin.step = "apply"
    /\ LET w == begin.thread
           Sets(c, mask) == /\ call' = [call EXCEPT ![MainThread] = c]
                            /\ data' = [data EXCEPT ![w].mask = mask]
                            /\ usersMask' = [usersMask EXCEPT ![w] = mask]
       IN  IF begin.processor = kProcessorAny
           THEN Sets(Affinity(w, begin.mask), begin.mask)
           ELSE \E p \in Selected(begin.processor) : Sets(SystemProcessor(w, p), MaskWith(w, p))
    /\ begin' = [begin EXCEPT !.step = "resume"]
    /\ UNCHANGED <<processorSystem, affinity, ideal, at, asked>>

WindowsResumes ==
    /\ begin.step = "resume" /\ call[MainThread].kind = "none"
    /\ at' = [at EXCEPT ![begin.thread] = "starting"]
    /\ begin' = NoBegin
    /\ UNCHANGED <<processorSystem, affinity, ideal, data, call, asked, usersMask>>

\* The new thread writes mThreadPid and carries out the message.
WorkerStarts(w) ==
    /\ at[w] = "starting"
    /\ data' = [data EXCEPT ![w].pid = TRUE]
    /\ at' = [at EXCEPT ![w] = "running"]
    /\ call' = [call EXCEPT ![w] =
                   IF Linux /\ data[w].startup \notin {kProcessorDefault, kProcessorAny}
                   THEN Affinity(w, {data[w].startup}) ELSE NoCall]
    /\ UNCHANGED <<processorSystem, affinity, ideal, begin, asked, usersMask>>

-----------------------------------------------------------------------------
(* Thread::SetProcessor, for a Thread object.                              *)

\* Until the thread is created, on Linux; once it runs, elsewhere.
MaySetProcessor(w, p) ==
    CarefulSetters =>
        /\ Quiet(w) \/ (Linux /\ Begins(w) /\ begin.step = "create")
        /\ ~On({"windows", "xboxone"}) => p \in Processors

\* "Assign this in case the thread hasn't started yet and thus we are leaving
\* it a message".
SetProcessor(t, w, p) ==
    /\ Free(t) /\ (at[w] # "unborn" \/ Begins(w))
    /\ MaySetProcessor(w, p)
    /\ Linux \/ On({"kettle"})
    /\ data' = [data EXCEPT ![w].startup = p]
    /\ LET known == data[w].id /\ (On({"android"}) => data[w].pid)
       IN  call' = [call EXCEPT ![t] = IF known THEN Affinity(w, {p}) ELSE NoCall]
    /\ asked' = [asked EXCEPT ![w] = Asked(p, Processors)]
    /\ UNCHANGED <<processorSystem, affinity, ideal, at, begin, usersMask>>

WindowsSetProcessor(t, w, p) ==
    /\ Free(t) /\ at[w] # "unborn"
    /\ MaySetProcessor(w, p)
    /\ On({"windows", "xboxone"})
    /\ call' = [call EXCEPT ![t] = SystemProcessor(w, p)]
    /\ data' = [data EXCEPT ![w].mask = MaskWith(w, p)]
    /\ usersMask' = [usersMask EXCEPT ![w] = MaskWith(w, p)]
    /\ asked' = [asked EXCEPT ![w] = IF p >= 0 THEN Asked(p, Processors) ELSE AskedAny]
    /\ UNCHANGED <<processorSystem, affinity, ideal, at, begin>>

-----------------------------------------------------------------------------
(* SetThreadProcessor, for the caller.                                     *)

\* The processor, and the processors whose bits are set in its number (0 has none).
LinuxProcessorSet(p) ==
    {p} \cup {c \in Processors : p # 0 /\ (p \div 2 ^ c) % 2 = 1}

KettleProcessorSet(p) == IF p >= 0 THEN {p} ELSE Processors

\* On Xbox One too the number is taken as it is here.
WindowsThreadProcessor(t, p) ==
    IF On({"windows"}) THEN WindowsProcessor(t, p) ELSE Affinity(t, KettleProcessorSet(p))

ThreadProcessor(t, p) ==
    CASE On({"linux"}) -> Affinity(t, LinuxProcessorSet(p))
      [] On({"kettle"}) -> Affinity(t, KettleProcessorSet(p))
      [] On({"windows", "xboxone"}) -> WindowsThreadProcessor(t, p)
      [] On({"android", "cpp11"}) -> NoCall

SetThreadProcessor(t, p) ==
    /\ Free(t)
    /\ CarefulSetters =>
         Quiet(t) /\ p \in (IF On({"linux"}) THEN {0} ELSE kProcessorAny .. ProcessorCount - 1)
    /\ call' = [call EXCEPT ![t] = ThreadProcessor(t, p)]
    /\ asked' = [asked EXCEPT ![t] = IF On({"android", "cpp11"}) THEN @
                                     ELSE IF p >= 0 THEN Asked(p, Processors) ELSE AskedAny]
    /\ UNCHANGED <<processorSystem, affinity, ideal, data, at, begin, usersMask>>

-----------------------------------------------------------------------------
(* SetThreadAffinityMask, for any thread.                                  *)

\* What it asks the system for besides: on Linux, and with C++11, nothing.
LinuxMask(w, mask) == NoCall
Cpp11Mask(w, mask) == NoCall
KettleMask(w, mask) == Affinity(w, mask)
WindowsMask(w, mask) == Affinity(w, mask)

MaskCall(w, mask) ==
    CASE Linux -> LinuxMask(w, mask)
      [] On({"cpp11"}) -> Cpp11Mask(w, mask)
      [] On({"kettle"}) -> KettleMask(w, mask)
      [] On({"windows", "xboxone"}) -> WindowsMask(w, mask)

\* t records the mask for d, and sets that of w.
SetsMask(t, d, w, mask) ==
    /\ Free(t) /\ w \in Workers /\ at[w] # "unborn" /\ data[w].id
    /\ CarefulSetters => Quiet(w)
    /\ data' = [data EXCEPT ![d].mask = mask]
    /\ usersMask' = [usersMask EXCEPT ![w] = mask]
    /\ call' = [call EXCEPT ![t] = MaskCall(w, mask)]
    /\ asked' = [asked EXCEPT ![w] =
                    IF MaskCall(w, mask).kind = "none" THEN @ ELSE [kind |-> "mask", set |-> mask]]
    /\ UNCHANGED <<processorSystem, affinity, ideal, at, begin>>

SetThreadAffinityMask(t, w, mask) == SetsMask(t, w, w, mask)

\* Thread::SetAffinityMask of C++11 calls the function for the current thread.
Cpp11SetAffinityMask(t, w, mask) ==
    /\ On({"cpp11"}) /\ (CarefulSetters => t = w)
    /\ SetsMask(t, t, w, mask)

-----------------------------------------------------------------------------
ProcessorsNext ==
    \/ \E w \in Workers, p \in ProcessorAsks, m \in Masks : BeginConstructs(w, p, m)
    \/ LinuxCreates \/ LinuxApplies \/ KettleCreates \/ WindowsCreates \/ WindowsApplies
    \/ WindowsResumes \/ Cpp11Creates
    \/ \E w \in Workers : WorkerStarts(w)
    \/ \E t \in Tasks :
          \/ SystemCall(t)
          \/ \E p \in ProcessorAsks : SetThreadProcessor(t, p)
          \/ \E w \in Workers, p \in ProcessorAsks : SetProcessor(t, w, p) \/ WindowsSetProcessor(t, w, p)
          \/ \E w \in Workers, m \in Masks : SetThreadAffinityMask(t, w, m) \/ Cpp11SetAffinityMask(t, w, m)

ProcessorsTypeOK ==
    /\ processorSystem \in ProcessorSystems
    /\ affinity \in [Tasks -> (SUBSET Processors) \ {{}}]
    /\ ideal \in [Tasks -> Processors \cup {Nowhere}]
    /\ data \in [Tasks -> [startup : ProcessorAsks, mask : SUBSET Processors, id : BOOLEAN, pid : BOOLEAN]]
    /\ at \in [Tasks -> {"unborn", "suspended", "starting", "running"}]
    /\ usersMask \in [Tasks -> SUBSET Processors]

\* Once a thread has started and nobody is about to change it, the system has
\* what was last asked for that thread, with Begin or later, whoever of Begin,
\* the new thread and the caller of SetProcessor got to it first, and wherever
\* the thread that began it has bound itself.  "Run the thread on any processor"
\* (eathread.h:514) is one of the things to ask (see MayBegin for Linux).
ThreadsRunWhereAsked ==
    \A w \in Tasks : Quiet(w) =>
        CASE asked[w].kind = "nothing" -> TRUE
          [] asked[w].kind = "nowhere" -> ideal[w] = Nowhere
          [] asked[w].kind = "processor" /\ On({"windows"}) -> ideal[w] \in asked[w].set
          [] On({"cpp11"}) -> TRUE
          [] OTHER -> affinity[w] = asked[w].set

\* GetThreadAffinityMask "Returns the current thread affinity mask specified
\* by the user" (eathread.h:574), for that thread and nobody else.
MasksAreTheUsers == \A w \in Workers : Quiet(w) => data[w].mask = usersMask[w]
=============================================================================
