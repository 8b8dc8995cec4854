------------------------------ MODULE MCSystem ------------------------------
(***************************************************************************)
(* What the library asks of the systems it runs on: processors,            *)
(* priorities, names and handles of threads, and time.  Initially one of   *)
(* these subjects is picked.                                               *)
(***************************************************************************)
EXTENDS ThreadProcessors, ThreadAttributes, WindowsThreadHandles, Timeouts

CONSTANT Subjects   \* Of "processors", "priorities", "names", "handles", "selection", "times", "sleep".

VARIABLE subject

allVars == <<subject, processorVars, priorityVars, nameVars, handleVars, selectionVars, timeVars, sleepVars>>

\* Of a subject that is not the one that is picked, one initial state is enough.
Only(s, choice, choices) == subject = s \/ choice = CHOOSE c \in choices : TRUE

Init ==
    /\ subject \in Subjects
    /\ ProcessorsInit /\ Only("processors", processorSystem, ProcessorSystems)
    /\ PrioritiesInit /\ Only("priorities", prioritySystem, PrioritySystems)
    /\ NamesInit /\ Only("names", nameSystem, NameSystems)
    /\ HandlesInit
    /\ SelectionInit
    /\ TimeInit /\ Only("times", timeSystem, TimeSystems)
    /\ SleepInit /\ Only("sleep", enabled, SUBSET Queues)

Next ==
    /\ UNCHANGED subject
    /\ \/ /\ subject = "processors" /\ ProcessorsNext
          /\ UNCHANGED <<priorityVars, nameVars, handleVars, selectionVars, timeVars, sleepVars>>
       \/ /\ subject = "priorities" /\ PrioritiesNext
          /\ UNCHANGED <<processorVars, nameVars, handleVars, selectionVars, timeVars, sleepVars>>
       \/ /\ subject = "names" /\ NamesNext
          /\ UNCHANGED <<processorVars, priorityVars, handleVars, selectionVars, timeVars, sleepVars>>
       \/ /\ subject = "handles" /\ HandlesNext
          /\ UNCHANGED <<processorVars, priorityVars, nameVars, selectionVars, timeVars, sleepVars>>
       \/ /\ subject = "selection" /\ SelectionNext
          /\ UNCHANGED <<processorVars, priorityVars, nameVars, handleVars, timeVars, sleepVars>>
       \/ /\ subject = "times" /\ TimeNext
          /\ UNCHANGED <<processorVars, priorityVars, nameVars, handleVars, selectionVars, sleepVars>>
       \/ /\ subject = "sleep" /\ SleepNext
          /\ UNCHANGED <<processorVars, priorityVars, nameVars, handleVars, selectionVars, timeVars>>

Spec == Init /\ [][Next]_allVars

-----------------------------------------------------------------------------
\* When nobody is in a call, each thread may run exactly where Begin, SetProcessor
\* or a mask last asked for it, though Begin, the new thread and SetProcessor
\* each apply a part; and its mnThreadAffinityMask is what its user last gave.
ProcessorsAreKept == ProcessorsTypeOK /\ ThreadsRunWhereAsked /\ MasksAreTheUsers

\* A higher priority is one the system runs first, whichever way its levels go,
\* among threads that were given theirs by the same means; GetPriority gives back
\* what that means took, up to the range and the gaps of the system; and no call
\* is refused but those that Linux has no level for.
PrioritiesAreKept ==
    PrioritiesTypeOK /\ PrioritiesAreOrdered /\ PrioritiesReadBack /\ PrioritiesAreAccepted

\* When no naming is under way mName and the name the system shows are the one
\* given last, by Begin, by the thread itself or by another.
NamesAreKept == NamesTypeOK /\ NamesAgree

\* GetThreadId gives a thread a handle of its own that is open, and each handle is
\* closed once its thread is gone: neither twice, when it may be another's by
\* then, nor never.
HandlesAreKept == HandlesTypeOK /\ CachedIdsAreOwn /\ HandlesAreKeptOnce

\* SelectProcessor gives new threads the processors of the default mask in turn:
\* none is given again while another of the mask has had no turn, and
\* nLastProcessor does not run past the last processor.
SelectionIsFair == []SelectionTypeOK /\ []CounterIsWrapped /\ RoundRobinIsFair

\* A wait until an absolute time ends then, not before, and not a turn of the
\* clock later, although the system is given a relative time; the arithmetic of
\* ThreadTime is exact and normalized; and a sleep in a timer queue of Kettle ends
\* with the event of its own, not with another's.
TimesAreKept == TimeTypeOK /\ SleepTypeOK /\ TimeoutsAreOnTime /\ TimesAreExact /\ SleepersHaveTheirEvents
=============================================================================
