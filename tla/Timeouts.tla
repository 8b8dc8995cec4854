------------------------------ MODULE Timeouts ------------------------------
(***************************************************************************)
(* Absolute timeouts.  A caller adds a relative time to GetThreadTime; the *)
(* functions that wait take the absolute time and, where the system wants  *)
(* a relative one, subtract a later GetThreadTime from it.  In between     *)
(* time goes on.  With Windows' 32 bit clock the sum, and the clock, may   *)
(* wrap; with POSIX a time is a record that each operation has to keep     *)
(* normalized.  ThreadSleep takes a relative time, which is a hint: it may *)
(* return well before that (nanosleep does so for a signal).               *)
(*                                                                         *)
(* The second part is ThreadSleep on Kettle.                               *)
(***************************************************************************)
EXTENDS Integers, FiniteSets

CONSTANTS
    TimeSystems,     \* Of "windows32", "windows64", "kettle", "cpp11", "posix".
    Word,            \* Unsigned numbers of the system, and its clock, are modulo this.
    MillisecondsPerSecond, NanosecondsPerMillisecond,  \* 1000 and 1000000, much smaller here.
    MaxTime,         \* Bound: on the time that goes by ...
    MaxRelative,     \* ... and on the relative times that are asked for.
    CarefulTimes     \* No timeout beyond the end of the clock, no negative milliseconds.

ASSUME TimesAssumption ==
    /\ TimeSystems \subseteq {"windows32", "windows64", "kettle", "cpp11", "posix"}
    /\ {Word, MillisecondsPerSecond, NanosecondsPerMillisecond} \subseteq Nat \ {0}
    /\ MaxTime \in Nat /\ MaxRelative \in Nat /\ MaxRelative < Word - 1
    /\ CarefulTimes \in BOOLEAN

VARIABLES
    timeSystem,  \* The platform.
    time,        \* The time that has really gone by.
    wait,        \* The wait that is under way; in a sleep the time is a hint.
    threadTime   \* A POSIX ThreadTime that is calculated with, and what it should be.

timeVars == <<timeSystem, time, wait, threadTime>>

EATHREAD_MIN_ABSOLUTE_TIME == 1
kTimeoutImmediate == 0
Never == MaxTime + MaxRelative + 1
NanosecondsPerSecond == MillisecondsPerSecond * NanosecondsPerMillisecond

\* "kTimeoutNone", where a time is an unsigned number; the others have so many
\* bits that no sum reaches it.
kTimeoutNone == IF timeSystem = "windows32" THEN Word - 1 ELSE Never + EATHREAD_MIN_ABSOLUTE_TIME
INFINITE == Word - 1

NotWaiting == [step |-> "idle"]

-----------------------------------------------------------------------------
(* POSIX: seconds and nanoseconds.                                         *)

Time(sec, nsec) == [tv_sec |-> sec, tv_nsec |-> nsec]
Nanoseconds(t) == t.tv_sec * NanosecondsPerSecond + t.tv_nsec
Normalized(t) == t.tv_nsec \in 0 .. NanosecondsPerSecond - 1

\* The division of C.
Quotient(a, b) == IF a < 0 THEN -((-a) \div b) ELSE a \div b

\* The end of each += : at most one second is carried.
CarryOne(t) == IF t.tv_nsec >= NanosecondsPerSecond THEN Time(t.tv_sec + 1, t.tv_nsec - NanosecondsPerSecond) ELSE t
BorrowOne(t) == IF t.tv_nsec < 0 THEN Time(t.tv_sec - 1, t.tv_nsec + NanosecondsPerSecond) ELSE t

\* Milliseconds as a ThreadTime that has no sign of its own.
FromMilliseconds(ms) ==
    LET sec == Quotient(ms, MillisecondsPerSecond)
    IN  Time(sec, (ms - sec * MillisecondsPerSecond) * NanosecondsPerMillisecond)

Plus(t, u) == CarryOne(Time(t.tv_sec + u.tv_sec, t.tv_nsec + u.tv_nsec))
Minus(t, u) == BorrowOne(Time(t.tv_sec - u.tv_sec, t.tv_nsec - u.tv_nsec))

\* operator>=
AtLeast(t, u) == IF t.tv_sec = u.tv_sec THEN t.tv_nsec >= u.tv_nsec ELSE t.tv_sec >= u.tv_sec

-----------------------------------------------------------------------------
(* GetThreadTime, ConvertRelativeTime, RelativeTimeoutFromAbsoluteTimeout. *)

WindowsThreadTime ==
    IF timeSystem = "windows32" THEN (time + EATHREAD_MIN_ABSOLUTE_TIME) % Word
    ELSE time + EATHREAD_MIN_ABSOLUTE_TIME
PosixThreadTime == Time(time \div NanosecondsPerSecond, time % NanosecondsPerSecond)
\* Milliseconds since the epoch, or since the machine was started.
Cpp11ThreadTime == time + EATHREAD_MIN_ABSOLUTE_TIME

GetThreadTime ==
    CASE timeSystem = "posix" -> PosixThreadTime
      [] timeSystem \in {"windows32", "windows64"} -> WindowsThreadTime
      [] timeSystem \in {"cpp11", "kettle"} -> Cpp11ThreadTime

ConvertRelativeTime(relative) ==
    CASE timeSystem = "posix" -> Plus(GetThreadTime, Time(relative \div NanosecondsPerSecond,
                                                          relative % NanosecondsPerSecond))
      [] timeSystem = "windows32" -> (GetThreadTime + relative) % Word
      [] OTHER -> GetThreadTime + relative

\* Mutant of RelativeTimeout: a time that is over is not looked for.
WrappedTimeout(absolute) ==
    IF absolute = kTimeoutNone THEN INFINITE
    ELSE IF absolute = kTimeoutImmediate THEN 0
    ELSE (absolute - GetThreadTime) % Word

\* RelativeTimeoutFromAbsoluteTimeout.  Its result has 32 bits.
RelativeTimeout(absolute) ==
    IF absolute = kTimeoutNone THEN INFINITE
    ELSE IF absolute = kTimeoutImmediate THEN 0
    ELSE IF absolute > GetThreadTime THEN (absolute - GetThreadTime) % Word ELSE 0

-----------------------------------------------------------------------------
(* Waiting.                                                                *)

TimeInit ==
    /\ timeSystem \in TimeSystems
    /\ time = 0 /\ wait = NotWaiting
    /\ threadTime = [is |-> Time(0, 0), should |-> 0]

\* The caller calculates the absolute time.
Converts(relative) ==
    /\ wait.step = "idle"
    /\ CarefulTimes /\ timeSystem = "windows32" => GetThreadTime + relative < Word - 1
    /\ wait' = [step |-> "converted", asked |-> time + relative, absolute |-> ConvertRelativeTime(relative)]
    /\ UNCHANGED <<timeSystem, time, threadTime>>

\* No wrap of a 32 bit clock since the absolute time was calculated.
SameEpoch == (time + EATHREAD_MIN_ABSOLUTE_TIME) \div Word = (wait.asked + EATHREAD_MIN_ABSOLUTE_TIME) \div Word

\* The wait begins: for a relative time, or on POSIX until the absolute one.
Waits ==
    /\ wait.step = "converted"
    /\ CarefulTimes /\ timeSystem = "windows32" => SameEpoch
    /\ wait' = [step |-> "waiting", hint |-> FALSE, asked |-> wait.asked,
                absolute |-> wait.absolute, since |-> time,
                until |-> IF timeSystem = "posix" THEN 0
                          ELSE IF RelativeTimeout(wait.absolute) = INFINITE THEN Never
                          ELSE time + RelativeTimeout(wait.absolute)]
    /\ UNCHANGED <<timeSystem, time, threadTime>>

\* ThreadSleep takes a relative time.  (With a 0 it yields.)
PosixSleep(relative) ==
    /\ wait.step = "idle" /\ timeSystem = "posix"
    /\ wait' = [step |-> "waiting", hint |-> TRUE, asked |-> time + relative, since |-> time, until |-> 0,
                absolute |-> ConvertRelativeTime(relative)]
    /\ UNCHANGED <<timeSystem, time, threadTime>>

WindowsSleep(relative) ==
    /\ wait.step = "idle" /\ timeSystem \notin {"posix", "kettle"}
    /\ wait' = [step |-> "waiting", hint |-> TRUE, asked |-> time + relative, since |-> time,
                until |-> time + relative, absolute |-> kTimeoutImmediate]
    /\ UNCHANGED <<timeSystem, time, threadTime>>

TimeIsUp ==
    /\ wait.step = "waiting"
    /\ IF timeSystem = "posix" THEN AtLeast(GetThreadTime, wait.absolute) ELSE time >= wait.until

\* It has timed out.
TimesOut ==
    /\ TimeIsUp
    /\ wait' = [step |-> "ended", hint |-> wait.hint, asked |-> wait.asked]
    /\ UNCHANGED <<timeSystem, time, threadTime>>

\* A sleep is over before its time: nanosleep fails with EINTR, and is not called again.
SleepEndsEarly ==
    /\ wait.step = "waiting" /\ wait.hint
    /\ wait' = [step |-> "ended", hint |-> TRUE, asked |-> wait.asked]
    /\ UNCHANGED <<timeSystem, time, threadTime>>

Returns ==
    /\ wait.step = "ended"
    /\ wait' = NotWaiting
    /\ UNCHANGED <<timeSystem, time, threadTime>>

\* Time goes by, except that a timeout is not late.
Tick ==
    /\ ~TimeIsUp /\ time < MaxTime
    /\ time' = time + 1
    /\ UNCHANGED <<timeSystem, wait, threadTime>>

\* Somebody calculates with a ThreadTime: += and -= of milliseconds and of times.
Calculates(ms) ==
    /\ timeSystem = "posix" /\ (CarefulTimes => ms >= 0)
    /\ \E u \in {FromMilliseconds(ms), Plus(Time(0, ms % NanosecondsPerSecond), Time(0, 1))} :
         \/ /\ Nanoseconds(threadTime.is) + Nanoseconds(u) <= MaxTime
            /\ threadTime' = [is |-> Plus(threadTime.is, u), should |-> threadTime.should + Nanoseconds(u)]
         \/ /\ Nanoseconds(threadTime.is) - Nanoseconds(u) >= -MaxTime
            /\ threadTime' = [is |-> Minus(threadTime.is, u), should |-> threadTime.should - Nanoseconds(u)]
    /\ UNCHANGED <<timeSystem, time, wait>>

TimeNext ==
    \/ \E r \in 0 .. MaxRelative : Converts(r) \/ PosixSleep(r) \/ WindowsSleep(r)
    \/ Waits \/ TimesOut \/ SleepEndsEarly \/ Returns \/ Tick
    \/ \E ms \in -MaxRelative .. MaxRelative : Calculates(ms)

-----------------------------------------------------------------------------
TimeTypeOK ==
    /\ timeSystem \in TimeSystems
    /\ time \in 0 .. MaxTime
    /\ wait.step \in {"idle", "converted", "waiting", "ended"}
    /\ threadTime.is.tv_sec \in Int /\ threadTime.is.tv_nsec \in Int

\* "To specify a timeout that is relative to the current time, simply add time
\* (in milliseconds) to the return value of GetThreadTime" (eathread.h:648-649):
\* a wait until an absolute time never times out before the time that was asked
\* for has gone by; and neither it nor a sleep, which may be over at any time
\* before (eathread.h:615-617), is timed for longer, however late it began.
TimeoutsAreOnTime ==
    /\ wait.step = "ended" /\ ~wait.hint => time >= wait.asked
    /\ wait.step = "waiting" => time <= wait.asked \/ time = wait.since

\* "These comparisons assume that the nsec value is normalized" (eathread.h:361):
\* it is, after any number of operations, and the value is what it should be.
TimesAreExact ==
    Normalized(threadTime.is) /\ Nanoseconds(threadTime.is) = threadTime.should
-----------------------------------------------------------------------------
(* ThreadSleep on Kettle.  The sleeper adds a timer event to an            *)
(* EAThreadTimerQueue and waits until the queue has an event, whichever it *)
(* is.  Each EAThread has a queue in its EAThreadDynamicData; all other    *)
(* threads share gThreadTimerQueue.  Without a queue, or for a long sleep, *)
(* it is nanosleep.                                                        *)

CONSTANTS
    EAThreads, OtherThreads,
    GlobalQueue,      \* gThreadTimerQueue; another queue is named by its thread.
    UnitsPerSecond,   \* The unit of time: 50 microseconds, with much shorter seconds.
    kMinTimeForTimerEvent,  \* 100 microseconds: "may only accept sleep values between" ...
    QueueLimit,       \* ... and 100 seconds.
    EventIds,         \* The ids of events are modulo this, 2^32.
    MaxSleep, MaxNow, \* Bounds: on a sleep, and on the time.
    CarefulSleepers   \* No sleeps below the minimum; one at a time in the shared queue.

Sleepers == EAThreads \cup OtherThreads
Queues == Sleepers \cup {GlobalQueue}

ASSUME SleepAssumption ==
    /\ EAThreads \cap OtherThreads = {} /\ GlobalQueue \notin Sleepers /\ IsFiniteSet(Sleepers)
    /\ {UnitsPerSecond, kMinTimeForTimerEvent, QueueLimit, EventIds, MaxSleep, MaxNow} \subseteq Nat \ {0}
    /\ kMinTimeForTimerEvent <= UnitsPerSecond /\ CarefulSleepers \in BOOLEAN

VARIABLES
    now,
    enabled,     \* The queues that could be created (mbEnabled).
    withData,    \* The threads that FindThreadDynamicData finds.
    mCurrentId,  \* The id of each queue's next event.
    events,      \* The events in the queues that nobody has received.
    sleeping     \* The sleep each thread is in.

sleepVars == <<now, enabled, withData, mCurrentId, events, sleeping>>

Awake == [step |-> "awake", queue |-> GlobalQueue, until |-> 0]

SleepInit ==
    /\ now = 0
    /\ enabled \in SUBSET Queues
    /\ withData = EAThreads
    /\ mCurrentId = [q \in Queues |-> 0] /\ events = {}
    /\ sleeping = [t \in Sleepers |-> Awake]

\* A thread of somebody else that calls Begin gets data too.
GetsData(t) ==
    /\ t \notin withData /\ sleeping[t].step = "awake"
    /\ withData' = withData \cup {t}
    /\ UNCHANGED <<now, enabled, mCurrentId, events, sleeping>>

QueueOf(t) == IF t \in withData THEN t ELSE GlobalQueue

\* How long the timer event takes: a part of a second that is too short is made
\* longer, if there are seconds.
EventTime(relative) ==
    LET short == relative % UnitsPerSecond < kMinTimeForTimerEvent /\ relative >= UnitsPerSecond
    IN  IF short THEN relative - (relative % UnitsPerSecond) + kMinTimeForTimerEvent ELSE relative

\* sceKernelAddHRTimerEvent, if the queue accepts the time; the result is only asserted.
AddTimerEvent(q, relative) ==
    /\ mCurrentId' = [mCurrentId EXCEPT ![q] = (@ + 1) % EventIds]
    /\ events' = IF EventTime(relative) < kMinTimeForTimerEvent THEN events
                 ELSE events \cup {[queue |-> q, id |-> mCurrentId[q], due |-> now + EventTime(relative)]}

\* (With a 0 it yields.)
ThreadSleep(t, relative) ==
    /\ sleeping[t].step = "awake" /\ now + relative <= MaxNow
    /\ CarefulSleepers =>
         /\ relative >= kMinTimeForTimerEvent
         /\ t \in withData \/ \A u \in Sleepers \ withData : sleeping[u].step = "awake"
    /\ IF relative < QueueLimit /\ QueueOf(t) \in enabled
       THEN /\ AddTimerEvent(QueueOf(t), relative)
            /\ sleeping' = [sleeping EXCEPT ![t] =
                               [step |-> "queue", queue |-> QueueOf(t), until |-> now + relative]]
       ELSE /\ sleeping' = [sleeping EXCEPT ![t] =
                               [step |-> "nanosleep", queue |-> GlobalQueue, until |-> now + relative]]
            /\ UNCHANGED <<mCurrentId, events>>
    /\ UNCHANGED <<now, enabled, withData>>

\* The events that end the wait of t.
Triggered(t) == {e \in events : e.queue = sleeping[t].queue /\ e.due <= now}

\* sceKernelWaitEqueue, without a timeout, for one event.
WaitEqueue(t) ==
    /\ sleeping[t].step = "queue"
    /\ \E e \in Triggered(t) : events' = events \ {e}
    /\ sleeping' = [sleeping EXCEPT ![t].step = "over"]
    /\ UNCHANGED <<now, enabled, withData, mCurrentId>>

\* Over at its time, or before: the result is only asserted.
Nanosleep(t) ==
    /\ sleeping[t].step = "nanosleep"
    /\ sleeping' = [sleeping EXCEPT ![t] = Awake]
    /\ UNCHANGED <<now, enabled, withData, mCurrentId, events>>

SleepReturns(t) ==
    /\ sleeping[t].step = "over"
    /\ sleeping' = [sleeping EXCEPT ![t] = Awake]
    /\ UNCHANGED <<now, enabled, withData, mCurrentId, events>>

TimePasses ==
    /\ now < MaxNow + kMinTimeForTimerEvent
    /\ now' = now + 1
    /\ UNCHANGED <<enabled, withData, mCurrentId, events, sleeping>>

SleepNext ==
    \/ TimePasses
    \/ \E t \in Sleepers :
          \/ GetsData(t) \/ WaitEqueue(t) \/ Nanosleep(t) \/ SleepReturns(t)
          \/ \E r \in 1 .. MaxSleep : ThreadSleep(t, r)

-----------------------------------------------------------------------------
SleepTypeOK ==
    /\ now \in Nat /\ enabled \subseteq Queues /\ withData \subseteq Sleepers
    /\ mCurrentId \in [Queues -> 0 .. EventIds - 1]
    /\ events \subseteq [queue : Queues, id : 0 .. EventIds - 1, due : Nat]
    /\ sleeping \in [Sleepers -> [step : {"awake", "queue", "nanosleep", "over"}, queue : Queues, until : Nat]]

\* ThreadSleep's time "is merely a hint and the system thread scheduler might
\* return well before the sleep time has elapsed" (eathread.h:615-617), but a
\* sleep in a timer queue has no other end than an event: each sleeper gets the
\* event it added and not that of another (which would leave that one asleep),
\* and none whose time has come is left without an event to end its sleep.
SleepersHaveTheirEvents ==
    \A t \in Sleepers :
        /\ sleeping[t].step = "over" => now >= sleeping[t].until
        /\ sleeping[t].step = "queue" /\ now >= sleeping[t].until + kMinTimeForTimerEvent => Triggered(t) # {}
=============================================================================
