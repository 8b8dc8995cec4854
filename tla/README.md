# A TLA+ verification of EAThread

EAThread is a portable C++ library of threads and of the objects threads
synchronise with: atomics, locks, semaphores, conditions, barriers, a thread
pool.  Most of them exist in several versions, one per platform.  This directory
holds TLA+ models of them, the TLC configurations that check small instances,
and proofs, checked by TLAPS, that hold for every instance.

* `*.tla`: modules.  `MC*.tla` instantiate the others for TLC, `*Proofs.tla`
  hold theorems.
* `*.cfg`: one per run of TLC.
* `PROJECT.json`: the components, the runs, the lines each definition models, a
  mutant for each property, the hazards, the findings and the theorems.

To check: `tlc -config Futex.cfg Futex` and so on (the table of runs
below), `tlapm FutexProofs.tla` and so on for the other `*Proofs.tla`.

## 1. The system

| component | state | operations | what is hard | what makes it correct |
|---|---|---|---|---|
| Futex (`eathread_futex.h`, `.cpp`) | use count (owner's locks and everybody on the way), recursion count, owner's id, a semaphore | Lock, Lock(timeout), TryLock, Unlock, a spin loop | Unlock decides from the count whether to signal; a waiter may come or give up in between | one holder; exactly one signal per hand-over; no waiter forgotten |
| Mutex (`eathread_mutex.*`) | a recursive mutex of the platform, a lock count | Lock, Unlock | the count is changed under the lock only | as Futex |
| SpinLock, RWSpinLock, RWSpinLockW (`eathread_spinlock.h`, `eathread_rwspinlock*.h`) | one atomic word | lock, try, unlock for reading and writing | failed attempts change the word before they put it back; compare-and-swap with stale values | readers exclude writers; the word is exact; a free lock is taken |
| RWSemaLock (`eathread_rwsemalock.h`) | a word of three bit fields, two semaphores | as above | the last unlock chooses whom to count and to signal, and signals later | as above, no wakeup lost |
| RWMutex, RWMutexIP (`eathread_rwmutex*.cpp`) | counts, a mutex, two conditions; between processes a mutex and two semaphores | Lock(type, timeout), Unlock | signalled threads and newcomers race for the mutex; timeouts | as above |
| Semaphore (`eathread_semaphore*`) | a count and the platform's semaphore; or a count, a mutex and a condition; on Windows a count of cancelled waits | Wait(timeout), Post(n) | two counts changed one after the other; timeouts racing posts; the maximum | a wait takes one post; none is lost |
| Condition (`eathread_condition*`) | three counters, two semaphores, a mutex | Wait(mutex, timeout), Signal(broadcast) | the counters of threads that blocked, left and are to be woken | a signal wakes a thread that waited before it |
| Barrier (`eathread_barrier*`) | a count, an index, two semaphores; or a cycle and a condition | Wait(timeout) | the next round begins while threads leave the last one; timeouts | nobody passes before all came; one primary |
| Thread (`eathread_thread*.h`, `unix/`, `pc/`, `cpp11/`, `kettle/`) | a Thread object points to counted data that it shares with its copies and with the thread | Begin, WaitForEnd, GetStatus, copies | four kinds of owners give up references in any order; joining or detaching; waiting for a thread that has yet to start | data lives as long as it is used; each thread joined or detached once; WaitForEnd tells the truth and returns |
| ThreadPool (`eathread_pool.*`) | list of threads, list of jobs, counts, a mutex and a condition | Init, Begin, WaitForJobCompletion, Pause, AddThread, Shutdown | idle threads quit, threads are created, jobs come and Shutdown runs, all at once; several reads without the mutex | every job runs once; waits tell the truth; Shutdown ends and leaves nothing |
| ThreadLocalStorage (`eathread_storage.*`) | a key, an array or a map | GetValue, SetValue | capacity, removal, threads that end | a live thread's value stays until it sets it |
| simple_list (`eathread_list.h`) | a doubly linked list between two sentinels | push, pop, erase, find | links | a sequence |
| shared_ptr_mt, shared_array_mt | pointer, counter, a mutex each | copy, assign, reset, swap | two mutexes taken one after the other | freed once, with the last owner |
| AtomicInt and the standalone atomics (`eathread_atomic*.h`, `internal/`) | a word, of one or two registers; on old Androids a mutex per address | get, set, add, bits, compare-and-swap, operators | loops of compare-and-swap, halves loaded apart, results loaded again | a call is as good as one instruction and returns its promised value; the loops are lock free |
| processors and masks (`eathread_thread_*`, `eathread_unix.cpp`, `_pc.cpp`, `_kettle.cpp`, `_cpp11.cpp`) | mStartupProcessor and the mask in the thread's data, the system's affinity, a round robin counter | Begin, SetProcessor, SetAffinityMask, the functions for the current thread, SelectProcessor | Begin, the new thread and SetProcessor each apply a part of what they read | a thread runs where it was last asked to; processors in turn |
| priorities | the system's policy and level | Begin, SetPriority, GetPriority | five conversions: clamped, reversed, with gaps, and on Linux one for the object and another for the function | order kept; read back without loss; nothing refused |
| names | mName and the name the system shows | Begin, SetName, SetThreadName | on some systems a thread can name only itself | both names are the one given last |
| handles of Windows threads (`eathread_pc.cpp`) | a handle cached per thread, an array of handles to close | GetThreadId, SetCurrentThreadHandle, ThreadEnd | handles are numbers the system uses again | an id is the thread's own; closed once |
| time and sleeping (`eathread.h`) | ThreadTime, clocks that wrap, Kettle's timer queues | GetThreadTime, arithmetic, absolute to relative timeouts, ThreadSleep | wrap-around, normalization, a queue several threads share | waits are over in time and not before, sleeps (which are hints) not after, and each sleeper has its own event |
| memory barriers, callstacks, configuration | | | no protocol | |

How they interact:

* The Futex blocks on a semaphore of the platform; `RWSemaLock` and the portable
  Barrier and Condition block on `Semaphore`; the synthesized Semaphore blocks
  on Mutex and Condition; RWMutex on Mutex and Condition.
* Thread uses one Semaphore and one Mutex per thread to make a join that can
  time out.
* ThreadPool uses Thread (and asks it for the status of a thread), Mutex,
  Condition and simple_list.  Jobs call back into the user's code without the
  pool's mutex.

## 2. The modules

| module | models | notes |
|---|---|---|
| `RecursiveLock` | what a recursive lock promises | abstract; `Futex` and `RecursiveMutexes` implement it |
| `Futex` | the hand-made futex | one step per access to `mUseCount` or the semaphore |
| `FutexProofs` | | theorems about `Futex` |
| `MutexProofs` | | theorems about `RecursiveMutexes` |
| `RecursiveMutexes` | the six Mutex classes and the four Futex classes over a lock of the system | `kind` picks one; `GetLockCount`, `HasLock` and the locks a condition takes behind its back (`SimulateLock`) included |
| `ReadWriteLock` | what a lock for readers and writers promises | abstract; all six locks implement it |
| `LockState` | the variables the six locks share: the lock's word, its semaphores, and where each thread is | so that one specification can run any of them |
| `SpinLock`, `RWSpinLock`, `RWSpinLockW`, `RWSemaLock`, `RWMutex`, `RWMutexIP` | the six locks | one step per atomic operation, or per critical section of the lock's own mutex |
| `MCReadWriteLocks` | | picks one of the six locks initially |
| `RWLockProofs` | | theorems about `MCReadWriteLocks` |
| `CountingSemaphore`, `CyclicBarrier` | what a semaphore and a barrier promise | abstract |
| `SyncState`, `Semaphores`, `Conditions`, `Barriers` | eight semaphores, three conditions, three barriers | a version is an operator for Wait and one for Post or Signal, made of shared steps; `SyncState` has where each thread is |
| `MCSync` | | picks one class and platform initially |
| `SyncProofs` | | theorems about `MCSync` |
| `ThreadState` | Thread objects and their counted data, what the four platforms share | `user` and `thread` say where the users and the begun threads are |
| `ThreadUnix`, `ThreadPC`, `ThreadCpp11` | Begin, the thread's own function, WaitForEnd and GetStatus of each platform | Kettle's are in `ThreadUnix`: the same with two steps of their own |
| `MCThreads` | | picks a platform initially |
| `ThreadProofs` | | theorems about `MCThreads` |
| `ThreadPool` | the pool with its workers and clients | one step per critical section of `mThreadMutex`, and one per access without it |
| `PoolProofs` | | theorems about `ThreadPool` |
| `AtomicCell` | what an atomic integer promises: a call takes effect at one moment and returns what that effect makes | abstract; the effects (`After`, `Promised`) are its constants |
| `Atomics` | the operations: what each stores and what its caller is promised; every platform as a table, for each operation how it is done, what it stores and what it returns; and the steps of each way of doing it | platforms with equal tables are one initial state |
| `ItemSequence`, `PerThreadValue` | what a list and a thread local storage promise | abstract |
| `SharedPointer`, `SimpleList`, `ThreadLocalStorage` | shared_ptr_mt and shared_array_mt, simple_list with its iterator, the four storages | one step per access to a shared pointer, per operation of a list, per futex or system call of a storage |
| `MCData` | | picks one of the three initially |
| `DataProofs` | | theorems about `MCData` |
| `ThreadProcessors` | affinity of threads; the round robin | the call of the system each thread is about to make is a step of its own |
| `ThreadAttributes` | conversions of priorities; naming | names are copied in two parts, of which Linux shows the first |
| `WindowsThreadHandles` | `DynamicThreadArray`, GetThreadId, ThreadEnd | handles are numbers that are used again |
| `Timeouts` | absolute timeouts and ThreadTime; Kettle's timer queues | `time` and `now` are the real time the answers are compared with |
| `MCSystem` | | picks one of these seven subjects initially |
| `SystemProofs` | | theorems about `MCSystem` |

Correspondence of state and code.  A module names variables and actions after
members and functions; where a function has several steps, the actions carry
the names of what the step does, and a program counter (`pc`, `thread`, `user`,
`call`, `at`) says where each thread is in it.  `PROJECT.json` "map" gives the
lines.  Some variables have no member in the code.  They are what the caller
believes (`held`, `reads`, `writes`, `ret`, `sole`), what has happened (`fate`,
`reported`, `handle`, `answer`, `opened`, `skipped`, `refusals`, `alive`), or what was
asked for and how (`asked`, `usersMask`, `wanted`, `means`, `given`, `hint`).  The properties compare the code's
members with these.

Where one class has several versions, the version is a variable (`kind`,
`platform`, `table`, `version`, `...System`) that is chosen initially and never
changes: one run checks all versions, against the same promise.

What all models assume:

* Memory is sequentially consistent; an operation of an atomic type is one step
  (`Atomics` shows that), a plain load or store of a 64 bit value on a 32 bit
  processor is two.
* The platform's own objects do what POSIX says: a mutex excludes, a semaphore
  counts, a signal of a condition wakes a thread that waits or is lost.  A wait
  that can time out may do so at any moment.  A condition of the system may wake
  its waiter without a signal.
* Callers keep the documented rules that assertions check: only owners unlock,
  nobody locks for writing what it has locked for reading, one thread at a time
  calls WaitForEnd and not after it was joined.

## 3. The runs

Bounds are the constants in each `.cfg`; each is declared with its meaning in
the module that owns it.

| run | module, cfg | instance | shows |
|---|---|---|---|
| `futex` | `Futex`, `Futex.cfg` | 3 threads, recursion 2; timed waits give up while the lock has an owner | `MutualExclusion`, `OwnerIsRecorded`, `UseCountIsExact`, `OneBaton`; the futex implements `RecursiveLock`; `WaitersAreServed` |
| `futex_timeout` | `Futex`, `FutexTimeout.cfg` | 2 threads; timed waits give up at any moment (Apple, Sony, Windows) | finding: `MutualExclusion` fails |
| `recursive_locks` | `RecursiveMutexes`, `RecursiveLocks.cfg` | any of ten locks, 2 threads, recursion 2 | each implements `RecursiveLock`; `LocksTellTheTruth`; `LocksReturn` |
| `rw_locks` | `MCReadWriteLocks`, `RWLocks.cfg` | any of six locks, 3 threads, recursion 2 for readers; timed reads | each implements `ReadWriteLock`; `AnyWordIsExact`; `FreeLockIsTaken` |
| `sync` | `MCSync`, `Sync.cfg` | any of 8 semaphores and 3 conditions with 2 waiters and 2 posters, or 3 barriers with 3 threads | each semaphore implements `CountingSemaphore`, each barrier `CyclicBarrier`; the counters of each version agree; `EveryoneGetsOn` |
| `threads` | `MCThreads`, `Threads.cfg` | any of 4 platforms; 2 users, one of whom begins threads and enumerates; 2 threads, 2 slots and a block of heap | `DataIsKept`, `HandlesAreReleasedOnce`, `EndsAreTrue`, `WaitsEnd` |
| `pool_run` | `ThreadPool`, `PoolRun.cfg` | 2 clients, 2 workers, 2 jobs, pauses, Shutdown | `ReportedJobsAreOver`, `SomeoneWillTakeJobs`, `ThreadsAreAccounted`, `QueuedJobsAreRun`, `ShutdownEnds` |
| `pool_idle` | `ThreadPool`, `PoolIdle.cfg` | 2 clients, 2 workers, at most 1 thread, 2 jobs, idle threads quit, AddThread | `CountsAreKept`: exact counters, no job in two places, the maximum |
| `pool_stranded` | `ThreadPool`, `PoolStranded.cfg` | 1 client, 1 worker, idle threads quit | finding: `QueuedJobsAreRun` fails |
| `atomics` | `Atomics`, `Atomics.cfg` | every platform's table; a thread that calls everything against one that sets, increments, decrements and flips | each implements `AtomicCell`; `SomeoneGetsThrough` |
| `data` | `MCData`, `Data.cfg` | 2 sharers with 2 shared pointers, or with 1 and one of their own; a list of 4 items; 2 threads, 2 storages, 2 keys | `StructuresAreExact`, `SharedCallsReturn`; the list implements `ItemSequence`, each storage `PerThreadValue` |
| `system` | `MCSystem`, `System.cfg` | seven subjects, each on its platforms | `ProcessorsAreKept`, `PrioritiesAreKept`, `NamesAreKept`, `HandlesAreKept`, `TimesAreKept`, `SelectionIsFair` |

A property that is a conjunction of named parts (`DataIsKept`,
`ConditionIsExact`, `CountsAreKept`, ...) has each part, with its comment, in the
module of the component.

Why the bounds are enough:

* Three threads give a lock an owner, a thread on its way and a newcomer, which
  is what a race for a signal takes; the proofs hold for any number of them.
  `SemaphoreMax` leaves room for a stray signal, `ValueUnlocked` and
  `WordModulus` leave the word the room the 32 bits have for every thread's
  attempt; `WordAssumption` states it.
* The ten locks of `recursive_locks` have no hand-over of their own, the system's
  lock has: an owner and a thread that asks or waits are what can meet.
* Three threads at a semaphore, one of which both waits and posts, make a timeout,
  a Post and a newcomer meet; a Post of two units with two waiters is the least
  that can be counted wrongly; `MaxCount` 2 makes Posts fail.  A condition needs a
  waiter that timed out beside one that is signalled and a newcomer, and
  `DoneLimit` makes the trimming of `mnWaitersDone` happen.  Three threads at a
  barrier of height 3 let one be in the next round while another is still to
  leave the last; `CycleModulus` lets the cycle wrap.
* A beginner, a second user that waits for and copies its object, the threads, and
  Begin itself are the four owners of a block of data; a second Begin of the
  same object meets the first thread, and three data with two slots make the
  heap fallback happen.
* Two jobs and two workers, of which none exists at first, make the pool create
  threads with and without jobs in the list; a second worker with `MaxCount` 1
  lets AddThread, and nobody else, go past `mnMaxCount`.
* A word of two bits has two halves that can be torn, a carry and a wrap; two
  threads are what a compare-and-swap needs to fail.
* Two shared pointers are what two swaps need to lock each other out; one with an
  owner's own and the temporaries of assignments are what copies need.  Four list
  nodes with two items make duplicates, and freed nodes that are used again.
  As many keys and array entries as storages and threads make the limits and the
  reuse happen.
* `system`: three processors and requests up to 4 make the modulus matter;
  priorities of -5 .. 5 over four levels make clamping happen at both ends; three
  handles for three threads are used again at once; a round robin over four
  processors of any mask; clocks modulo 8 that wrap within 12 units; a shared
  timer queue with two sleepers beside a thread with its own.
* Counters that only grow are bounded in a guard: `MaxJobs`, `MaxPause`,
  `MaxRecursion`, `MaxReads`, `MaxThreads`, `MaxData`, `MaxCounter`, `MaxTime`,
  `MaxNow`, `OSMax`.

Fairness.  A thread that can take its next step inside a library function takes
it (weak fairness per thread): that is what a scheduler does.  Where a step is
the acquisition of a lock or semaphore of the system that others also take and
give back (`recursive_locks`, `sync`, `data`), fairness is strong: no system
passes a waiter over for ever.  Nothing forces a program to call a function, so
calls have no fairness, with three exceptions stated where they are used: in
`futex` owners unlock in the end (`OwnersUnlock`), in the pool a client that
paused it resumes it, and threads come back to a barrier.  They are about the
caller's program, and without them no lock, pool or barrier could promise
anything.  The functions of threads return (`threads`).  No wakeup without a
signal and no timeout of a condition is relied on.  `FreeLockIsTaken` excuses
executions in which threads call Try functions for ever, see the observations.

Instances that leave a case out on purpose.  Each constant below keeps out calls
that break a rule or that the code is known not to serve; with the other value
TLC finds the property named violated, and section 4 says how.  A run says nothing
of the cases it leaves out: the hazards that are only there name no property, or
the run of section 4 that finds them.

`Careful` means: nobody polls or closes what a Begin or another WaitForEnd of the
same thread is changing; EnumerateThreads finds no data whose last reference is
going; and on POSIX, where Begin is to name its thread or to give it a mask, the
thread's function does not destroy the object that began it.  `CarefulSetters`
means: a thread's processor is set once its start cannot undo that; and on Linux
SetThreadProcessor is given 0, and nobody who bound itself begins a thread with
`kProcessorAny` (`MayBegin`).

| run | constant | with the other value |
|---|---|---|
| `futex` | `TimeoutsRace = FALSE` | `MutualExclusion` (the run `futex_timeout`), `OneBaton` |
| `futex` | `MaxRecursion` below `RecursionModulus` | `OwnerIsRecorded` |
| `recursive_locks` | `WaitKinds`, left out of `HasLockTellsTruth` | `LocksTellTheTruth`, stated of them |
| `recursive_locks` | `NoneKinds` without `cpp11Futex` | `LocksReturn` |
| `rw_locks` | `TimedLocks = {"read"}` | `FreeLockIsTaken` (with writers) |
| `pool_run` | `PromptStart`, `AloneAtShutdown`, no `"current"` in `ShutdownKinds`, `ShutdownTimeout = FALSE` | `ThreadsAreAccounted`; without `PromptStart` also `CountsAreExact` |
| `pool_run` | `IdleTimeout = FALSE` | `SomeoneWillTakeJobs`, `QueuedJobsAreRun` |
| `threads` | `Careful` | `EndsAreTrue`, `HandlesAreReleasedOnce`, `DataIsKept` |
| `sync` | `ModestKinds`, `BarrierTimeouts`, `UntimedKinds` | `EveryoneGetsOn`, `BarrierIsExact`, `ImplementsCountingSemaphore` |
| `sync` | `UnsignedModulus = CycleModulus`: the cycle number fits an unsigned | `BarrierIsExact`, `ImplementsCyclicBarrier` |
| `atomics` | `Unreliable`, `AssignAlone` | `ImplementsAtomicCell` |
| `data` | `SwapsInOrder`, `UsesPushFront` | a deadlock, `StructuresAreExact` |
| `system` | `CarefulSetters`, `CarefulNamers`, `CarefulEnds`, `CarefulSelectors`, `CarefulTimes`, `CarefulSleepers`, `ProcessorCount = 3` (not 2) | the property of the subject |

## 4. Findings

`pool_stranded`.  A worker whose idle wait times out as a job arrives for it
quits without looking at the list, and nobody else is told: the job waits for
the next one.  TLC prints the steps.

`futex_timeout`.  In the builds whose waits time out, a timed lock can time out
after Unlock counted it as a waiter and before Unlock signals.  It takes its count
away and returns, and the signal stays in the semaphore; later a thread that queues
behind an owner takes it, and is a second owner.

Observed with other constants, and kept as hazards (`PROJECT.json` "hazards",
with their lines) instead of runs:

* Futex, in the Unix build: the timed lock does not time out at all.
* The C++11 futex tries once when it is given `kTimeoutNone`.  `SimulateLock`
  counts the lock before it records the thread, so `HasLock` can say yes to a
  thread that had the mutex last.
* RWMutex: a writer that timed out still counts as waiting when the owner unlocks,
  so the owner signals it alone and the waiting readers are not woken.
* Threads that call Try functions in a loop can keep RWSpinLock disturbed for
  ever.  RWSemaLock's fields are signed, so 512 readers read as a negative count.
* Thread, POSIX and Kettle: a WaitForEnd whose timeout passes before the thread
  started falls into the branch for ended threads and joins it, whatever the
  timeout.  Windows: a WaitForEnd during Begin reports the end of a thread that
  was not created; GetStatus can close the handle that a WaitForEnd is about to
  close.  C++11: Begin reads its data without a reference of its own.  POSIX: Begin
  does so too after BeginThreadInternal has released its reference, to set a mask or
  a name (`unix/eathread_thread_unix.cpp:775-779`, `789-793`), when the function of
  the thread may have destroyed the object.  After a Begin that failed, a
  `kProcessorAny` makes SetAffinityMask dereference the NULL `mpData` (line 1013).
* EnumerateThreads takes a reference to data whose last reference is gone, or
  which is not yet constructed.
* ThreadPool: Shutdown drops a thread that was created and has not run yet.  A
  Begin that read `mbInitialized` before Shutdown creates a thread nobody tells
  to quit, and Shutdown polls for ever.  With `"current"` jobs stay in the list of
  a destroyed pool.  Workers do not look at `mnPauseCount` and idle workers quit
  below `mnMinCount`; the models follow the code.
* Condition (portable): a waiter that comes after a broadcast can take the unit of
  one that was blocked at it.  Barrier: the POSIX and Kettle versions keep the cycle
  number, an `unsigned long`, as an `unsigned` (`unix/eathread_barrier_unix.cpp:107`,
  `kettle/eathread_barrier_kettle.cpp:98`): where the first has 64 bits, nobody waits
  from the round 2^32 on.  A thread that timed out stays counted; with
  more threads than the height, one can read the portable version's index before it
  is toggled and count itself after.
* Semaphore (synthesized): a Post past the maximum returns with the mutex locked.
  Without threads: a timed Wait answers the count without taking a unit.  On Unix,
  Android and Apple, Posts can pass the maximum together.
* Atomics: the emulated 64 bit operations of old Androids, and += and -= of C++11,
  return what another load finds; copy assignment of a 64 bit value on 32 bit
  processors stores halves.
* shared_ptr_mt: two swaps of the same pointers in opposite order deadlock.
  simple_list: `push_front` leaves a link out.
* Linux: SetThreadProcessor also sets the processors of the bits of the number;
  `kProcessorAny` given to Begin or SetProcessor is taken modulo the number of
  processors first: it is -2, so with two processors Begin makes it the first of
  them, and on Kettle the thread then does not run by its mask.  C++11: SetAffinityMask of a Thread object changes the
  caller.  Linux: a thread that bound itself and begins another with `kProcessorAny`
  passes its binding on (`unix/eathread_unix.cpp:276`), since Begin only records the
  mask there (`363-385`), although `eathread.h:514` says "Run the thread on any
  processor".  A SetProcessor during the start of the thread can be undone by it.
* Priorities on Linux: a Thread object's are always SCHED_OTHER with level 0
  (`unix/eathread_thread_unix.cpp:37-38`), whatever the number, while the function
  SetThreadPriority uses SCHED_RR.  So of two threads with numbers given by these two
  ways the one with the smaller may run first, although higher numbers "mean higher
  thread priorities" (`eathread.h:409-410`); `PrioritiesAreKept` compares threads that
  were given theirs by the same one.
* Windows: ThreadEnd of a thread whose Thread object is gone recycles a handle that
  is closed; the round robin counter can run past its end with two selectors;
  timeouts across a wrap of the 32 bit clock are 49 days off.  Kettle: two sleepers
  in the shared queue can take each other's event, and a sleep below 100
  microseconds may not end.  POSIX: subtracting negative milliseconds leaves
  `tv_nsec` beyond a second.

## 5. The proofs

Each `...Proofs` module has the inductive invariant, a lemma for each action that
it is kept, and the theorems; TLC has checked the invariants on the instances of
the runs first.  All hold for every finite set of threads and every value of the
constants that the named assumptions of the modules allow.  What else a theorem
supposes is an ASSUME of its statement:

| theorem | of | states | supposes |
|---|---|---|---|
| `Invariance`, `TypeCorrect`, `Recorded`, `Exclusion`, `Baton` | `Futex` | `TypeOK`, `OwnerIsRecorded`, `MutualExclusion`, `UseCountIsExact /\ OneBaton` | `SafeBuild`: waits do not time out while the lock changes hands, and the recursion fits its 16 bits |
| `Refinement` | `Futex` | `ImplementsRecursiveLock` | `SafeBuild` |
| `MutexInvariance`, `LocksAreTruthful` | `RecursiveMutexes` | `LocksTellTheTruth` | |
| `MutexRefinement` | `RecursiveMutexes` | `ImplementsRecursiveLock` | |
| `NoneMeansForever` | `RecursiveMutexes` | `NoneNeverTimesOut` | nobody gives the C++11 futex `kTimeoutNone` |
| `ReadWriteInvariance`, `LockStateIsExact` | `MCReadWriteLocks` | `AnyWordIsExact` | fewer than 512 threads where the lock is RWSemaLock |
| `ReadWriteRefinement` | `MCReadWriteLocks` | `ImplementsReadWriteLock` | the same |
| `SemaphoreInvariance`, `SemaphoresCountUnits` | `MCSync` | `SemaphoreIsExact` | |
| `SemaphoreRefinement` | `MCSync` | `ImplementsCountingSemaphore` | without threads nobody gives a time to wait |
| `ConditionInvariance`, `ConditionsCountWaiters` | `MCSync` | `ConditionIsExact` | |
| `BarrierInvariance`, `BarriersCountThreads` | `MCSync` | `BarrierIsExact` | no timeouts; the cycle number fits an unsigned (`CyclesFit`); no more threads than the height where the barrier is portable (`PortableFits`) |
| `BarrierRefinement` | `MCSync` | `ImplementsCyclicBarrier` | no timeouts, `CyclesFit`, no more threads than the height |
| `PoolInvariance`, `PoolWaitsAreTruthful` | `ThreadPool` | `ReportedJobsAreOver` | |
| `PoolCountsAreKept` | `ThreadPool` | `CountsAreKept` | Shutdown finds no thread that is still to start (`Steady`) |
| `JobsAreHandedOver` | `ThreadPool` | `SomeoneWillTakeJobs` | idle threads stay |
| `PoolThreadsAreAccounted` | `ThreadPool` | `ThreadsAreAccounted` | `Steady`; Shutdown is alone and does not leave jobs (`LeavesNoJob`) |
| `ThreadInvariance`, `ThreadDataIsKept` | `MCThreads` | `DataIsKept` | `Careful` |
| `ThreadHandlesAreReleasedOnce` | `MCThreads` | `HandlesAreReleasedOnce` | `Careful` |
| `ThreadEndsAreTrue` | `MCThreads` | `EndsAreTrue` | `Careful` |
| `SystemProcessorsAreKept` | `MCSystem` | `ProcessorsAreKept` | `CarefulSetters`; there are not just two processors |
| `SystemPrioritiesAreKept` | `MCSystem` | `PrioritiesAreKept` | |
| `SystemNamesAreKept` | `MCSystem` | `NamesAreKept` | `CarefulNamers` |
| `SystemHandlesAreKept` | `MCSystem` | `HandlesAreKept` | `CarefulEnds` |
| `SystemTimesAreKept` | `MCSystem` | `TimesAreKept` | `CarefulTimes`, `CarefulSleepers` |
| `SystemSelectionIsFair` | `MCSystem` | `SelectionIsFair` | `CarefulSelectors` |
| `DataStructuresAreExact` | `MCData` | `StructuresAreExact` | nobody calls `push_front` |
| `SharedPointersAreExact` | `MCData` | its part about shared pointers | |
| `ListsImplement` | `MCData` | `ImplementsItemSequence` | nobody calls `push_front` |
| `StoragesImplement` | `MCData` | `ImplementsPerThreadValue` | |

Every supposition is a limit of the code, and TLC finds the theorem's property
violated without it (section 3, "Instances that leave a case out"; for
`PortableFits`, three threads and a height of two), with two exceptions.  512
readers are too many for TLC: the signed field of ten bits is in `RWSemaLock`'s
`Field`.  And `BarrierRefinement` is for as many threads as the height for the
sake of the abstract side: `CyclicBarrier` has one round at a time, while the POSIX
and Kettle versions let the next one start before all have left.

**Futex.**  Mutual exclusion is not inductive: whether a waiter may enter
depends on where the signal came from.  The invariant `IInv` treats the lock as
a baton: the owner, a thread that is taking or leaving the lock, or the
semaphore has it, exactly one of them while `mUseCount` is positive.  To carry
that through Unlock, whose decision reads `mUseCount`, `IInv` also says what the
count is made of, the owner's recursion and the threads at counted labels; and
to carry that through recursion, that threads inside a member function hold
nothing and that a recorded owner has exactly the recursion it owes.
`MoveCount` counts how the sets of threads at given labels change when one thread
moves, and is the only place where cardinalities are reasoned about.
`ModularDecrement` and `ModularIncrement` discharge the 16 bit arithmetic under
`SafeBuild`.  Only OnLockAcquired, recursion and Unlock change `held`.

**Mutexes.**  `mnLockCount` and the owner's id are written in steps of their own
after the system's lock was taken, and read by HasLock without it.  `IInv` says
by how much the count may differ from the depth of the lock at each label
(`CountFollowsDepth`), and that a thread that finds its own id there has the lock
or is on its way out (`OwnerIsWritten`): an id is left behind by some versions
and cleared by others (`Cleared`), which is why both cases are in it.  `held` is what
callers were told: a Lock that answered that it has the lock gives one, an Unlock or
the wait for a condition takes one.  `HeldIsCredited` ties it to the system's lock: a
caller has been told of every lock but those it is just taking or giving up, so that
no two callers believe they have it.

**Locks for readers and writers.**  One invariant per class (`AnyInv` puts them
together): the word is the sum of what each thread has put into it, including
attempts that failed and were not put back yet (`Taken`, `TakenWhole`), waiting
threads, and those that were let in and do not know it; and a thread that goes on
with a word it read before (`seen`) has seen it free.  From this each class
excludes what ReadWriteLock excludes.  For RWSemaLock the units in its two
semaphores and the threads that are still to post are counted as pairs
(`CountPairs`), so that none is lost between the word and a semaphore.

**Semaphores.**  Two counts are changed one after the other, so neither is exact:
`OnesInv`, `BatchInv` and `FastInv` say which threads make the difference, by their
labels and by the units they have still to give (`Left`) or to take back (`Fold`).
The fast version of Windows has an equation of five counts; each of its steps
changes both sides by the units that are put or taken (`Balanced`).  `PlainInv`
is for the versions whose one count is under a lock.  Each step is a call, a Take,
a GiveUp, a Put or a Return of `CountingSemaphore`, or changes nothing there:
a broadcast of the synthesized version moves any number of waiting threads, all of
which still wait.

**Conditions.**  `PortableConditionInv` says what the two locks protect: while a
thread is between reading the counts and writing them, under mUnblockLock or with
the unit of mSemaphoreBlockLock, what it read still holds (`toUnblock = 0`,
`blocked > done`), and one thread at most is to give that unit back.  The
counting part is that units in the queue, units about to be issued and waiters
that took one are at least the waiters to unblock; a waiter that times out is in
`done`, or uses up what it was due.

**Barriers.**  The portable version is in one of three phases (`Opening`, `Opened`,
`Turned`), which say where all threads are and whose units each semaphore has: the
index is toggled when the first thread leaves, and from then on threads of two
rounds are told apart by the index they read.  With more threads than the height a
thread could read the index before the toggle and count itself after it.  The
POSIX and Kettle versions need no phases (`LockedBarrierInv`), and their counts
are right for any number of threads: a thread whose
round is over was let through, whatever its cycle number, which may have come
round to the same value.

**The pool.**  `PoolInv` is about the pool in all its uses, with threads that quit
when idle or are added by clients, and Shutdown at any moment.  The list has every
live thread but those that Shutdown dropped before they ran; these were told to
quit, and do nothing else, which is why a wait for a job may rely on the list
(`ThreadsInv`).  A job is where its fate says (`JobsInv`), fates only move forward
(`FatesMove`), and so a client that looks twice without the mutex, or looks at the
count of active threads and not at its own jobs, is still right (`WaitsInv`).
`HandOverInv` is the argument that no wakeup is lost: whoever appends a job creates
a thread, signals one, or finds one that is yet to look at the list; if none of the
three is possible the list of threads would be empty, and QueueJob's test would
have created one.  `EndInv` follows a Shutdown through its phases.

**Threads.**  `mnRefCount` is the number of owners (`CountInv`): objects, calls of
Begin under way, enumerations, running threads, and the platform's own; each
action moves one owner or one unit of the count.  That data is not freed under
somebody needs to know who frees (`FreeInv`: whoever took the count to zero, and
nobody else) and whom data belongs to: at most one thread, which names it back
(`DataInv`, `LiveThreadInv`).  `BuildInv` is Begin between its steps, when its object,
its data and its thread do not agree yet.  `WaitInv` says that a call keeps its
object's data and that no two calls wait for one thread; from this `JoinInv` gets that
a thread is joined by a call that found it neither joined nor detached, and `EndInv`
that whoever tells the end has seen it.

**The subjects of `MCSystem`.**  One subject moves (`OneSubjectMoves`), so each has
an invariant of its own.

* Priorities: the native priority is the conversion of the number given last, by the
  way it was given (`PriorityInv`); order and reading back are then facts about the conversions.
* Handles: each handle has one place, a slot of the array, data that is referenced, or
  the thread that carries it between two calls (`PlacesInv`, `ThreadRight`).  There
  is one slot for each thread that can need one, so that AddDynamicThreadHandle finds one
  free: a pigeonhole (`FS_PigeonHole`).
* Names: one thread at a time copies a name, the head before the tail, and copies what
  was given last; a name that nobody copies is that one (`CopyInv`).  What the system
  shows follows from there, once by the thread itself and once by others
  (`OneselfInv`, `OthersInv`).
* Times: the absolute time is the time asked for in the clock of the system, modulo
  the word on Windows (`IsAbsolute`), and a wait ends at the time asked for or, if
  that was over, at once (`WaitInv`).  The arithmetic of ThreadTime keeps the sum of
  its two parts exact; lemmas about division show it normalized.
* Sleeping: nothing promises that a sleep is not over early (`eathread.h:615-617`).  A
  queue of Kettle has one thread at a time, and one event for each thread that
  sleeps in it (`OwnQueues`, `OwnEvents`).
* Processors: what was asked of a thread is done, or a call that is still to be made,
  by Begin, by the thread itself or by the caller of SetProcessor, will do it
  (`TaskInv`, `CallInv`, `BeginInv`); on Linux and Android also the message that
  Begin leaves in mStartupProcessor (`MessageInv`).  The thread that begins others is
  one of these too, since they inherit its affinity: what Begin will apply, or that
  affinity, is what was asked for.
* Selection: a processor that had no turn since q's last one has its next turn
  before q's (`TurnsInv`).

**The structures of `MCData`.**  Here too one moves and the others rest.

* Shared pointers: a count is the number of pointers that have it, `Having`
  (`CountsAreRight`).  The two members of a pointer belong together (`ValueOf`) except in
  half a swap, and then crosswise (`PairsAreRight`); that nobody sees them so is what
  the Futexes are for: `LocksAreRight` says which pointers a thread has locked at
  each step, and `OthersAreLeft` that a step touches no other.  A copy reads the
  value and the count apart, so it needs that the lock holds both still (`CopyIsRight`).
  Whoever brings a count to zero is the only one to delete (`DeletersAreRight`).
  Nothing is supposed about the order of swaps: out of order they can block each
  other, and are exact all the same.
* Lists: there is a sequence `w` of nodes from the head to the tail, all different,
  each linked to the next and back, and the nodes not in it are free (`Linked`).  An
  insertion adds to the sequence (`Added`), an erasure takes out of it (`Without`).
  `Walk`, `WalkBack` and `Clearing`, by which the model follows the links, are recursive
  functions.  That there is a function with such an equation is shown by giving it, or
  for `Clearing` by putting together functions that fit up to a number (`Fits`); that
  there is no other, by the least number where two would differ (`LeastOf`).  So `Walk`
  is `w`, and find, clear and the items shown are what the sequence says.
* Storages: each storage has a key of its own (`KeyInv`); the array of the version
  with one thread has at most its pair (`ArrayInv`); in the version with a map a thread
  between two steps of a call knows that the map and its own entry stay, because it has
  the futex, or because others change other entries only (`MapRight`).  A call takes
  effect in `PerThreadValue` where it writes or reads the thread's entry.  A thread
  that ends has cleared its entries of the maps, as SetValue's documentation asks, so
  that the next thread with its id starts with none.

`UnitsMove` and `CountAt` (`SyncProofs`), like `MoveCount`, are the only lemmas
about cardinalities there; counts of units are cardinalities of sets of pairs
(`Units`), for which the library of finite sets suffices and no induction is
needed.

What TLAPS cannot show here, and TLC checks instead: the liveness properties
(`WaitersAreServed`, `LocksReturn`, `FreeLockIsTaken`,
`EveryoneGetsOn`, `WaitsEnd`, `QueuedJobsAreRun`, `ShutdownEnds`,
`SomeoneGetsThrough`, `SharedCallsReturn`), and anything about `ENABLED`.  The library's
induction theorems cannot be used, since no prover instantiates their operator
parameter; where a recursive function had to be unfolded for any length, in the lists,
its equation and a least counterexample take their place.  The only
other property that is only model-checked is `ImplementsAtomicCell`: its abstract
side is a table of effects per platform and operation, and the proof would go through
every entry of it, which is what TLC does.  No module declares a RECURSIVE operator, so
each can get theorems.

## 6. What is not modelled

`PROJECT.json` "components" gives the reason for each.  In short: memory barriers
are instructions, and the models are sequentially consistent, so what a weaker
order would allow is not shown; callstacks walk the machine's stack; the
configuration is the preprocessor's.  Within modelled components: factories and
the RAII classes, which only call; names of mutexes and semaphores, and named and
shared memory of RWMutexIP with the processes that die; stacks of threads, Wake,
user wrappers; Init of a pool after a Shutdown, its processor assignment and a
job without a function; AtomicPointer, which casts to AtomicInt.

## 7. Plan

Done: every component of section 1 that has a protocol, abstract promises for
locks, semaphores, barriers, atomics, lists and storages, and the proofs of every
lock, semaphore, condition and barrier, of the pool, of threads, of the subjects of
`MCSystem` and of the structures of `MCData`.

Next is a proof of the refinement of `AtomicCell`, then larger instances where a run
has time left, and RWMutexIP's shared memory.
