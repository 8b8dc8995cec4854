--------------------------- MODULE SharedPointer ---------------------------
(***************************************************************************)
(* shared_ptr_mt and shared_array_mt, which differ in the delete they use  *)
(* only.  A pointer has the value it shares and the reference count of     *)
(* that value, both on the heap, and a recursive Futex, which its copies   *)
(* and swaps lock.  Assignment and reset make a temporary, swap it with    *)
(* the pointer and destroy it.                                             *)
(*                                                                         *)
(* The shared pointers are used by every thread.  A thread may also have a *)
(* pointer of its own, which it constructs and destroys; that of thread t  *)
(* is called t, and its temporary <<t>>.                                   *)
(***************************************************************************)
EXTENDS Integers, FiniteSets

CONSTANTS
    Sharers,       \* The threads.
    Owners,        \* Bound: those that also have a pointer of their own.
    SharedSets,    \* The sets of pointers of which all threads use one.
    MaxPointers,   \* Bound: the pointers there are when a thread makes its own.
    MaxCounts,     \* Bound: the reference counts there are at a time.
    SwapsInOrder   \* Does nobody swap two shared pointers while another
                   \* swaps them the other way round?

SharedPtrs == UNION SharedSets

\* Threads, pointers and temporaries have different names, "none" is no thread.
ASSUME SharedPointerAssumption ==
    /\ IsFiniteSet(Sharers) /\ IsFiniteSet(SharedPtrs) /\ SharedSets # {} /\ Owners \subseteq Sharers
    /\ Sharers \cap SharedPtrs = {} /\ "none" \notin Sharers
    /\ {<<t>> : t \in Sharers} \cap (SharedPtrs \cup Sharers) = {}
    /\ MaxCounts \in Nat /\ MaxCounts >= Cardinality(SharedPtrs) /\ MaxPointers \in Nat
    /\ SwapsInOrder \in BOOLEAN

VARIABLES
    pointer,   \* mpValue and mpRefCount of each pointer there is.
    refCount,  \* The reference count of each value, 0 when it is free.
    values,    \* The values that are not deleted; value n was given with count n.
    mMutex,    \* The owner of each pointer's Futex, and its lock count.
    call,      \* The call each thread is in: its object and argument.
    at,        \* Where each thread is.
    held,      \* What each thread has in a local variable.
    sole       \* Has the thread seen that its own pointer is unique()?

sharedVars == <<pointer, refCount, values, mMutex, call, at, held, sole>>

Temp(t) == <<t>>
Pointers == SharedPtrs \cup Sharers \cup {Temp(t) : t \in Sharers}
Counts == 1 .. MaxCounts
Null == 0
NoPointer == [mpValue |-> Null, mpRefCount |-> 0]
Exists(p) == pointer[p].mpRefCount # 0
FreeCounts == {n \in Counts : refCount[n] = 0 /\ \A t \in Sharers : at[t] = "delete" => held[t].mpRefCount # n}
FirstFree == CHOOSE n \in FreeCounts : \A m \in FreeCounts : n <= m

Unlocked == [owner |-> "none", count |-> 0]
Steps == {"idle", "compare", "construct", "copyLock", "copyValue", "copyCount", "increment",
          "swapLock", "swapLockOther", "swapValue", "swapCount", "swapUnlock", "decrement", "delete"}
Calls == [name : {"none", "copy", "destroy", "assign", "reset", "swap"},
          this : Pointers, other : Pointers]
NoCall(t) == [name |-> "none", this |-> t, other |-> t]

SharedInit ==
    /\ \E S \in SharedSets :
         LET n == Cardinality(S)
             f == CHOOSE f \in [S -> 1 .. n] : \A p, q \in S : f[p] = f[q] => p = q
         IN  /\ pointer = [p \in Pointers |-> IF p \in S
                              THEN [mpValue |-> f[p], mpRefCount |-> f[p]] ELSE NoPointer]
             /\ refCount = [c \in Counts |-> IF c <= n THEN 1 ELSE 0]
             /\ values = 1 .. n
    /\ mMutex = [p \in Pointers |-> Unlocked]
    /\ call = [t \in Sharers |-> NoCall(t)]
    /\ at = [t \in Sharers |-> "idle"]
    /\ held = [t \in Sharers |-> NoPointer]
    /\ sole = [t \in Sharers |-> FALSE]

-----------------------------------------------------------------------------
(* Steps.  A call begins with its argument; its last step returns.  An     *)
(* unlock is one step with what goes before it.                            *)

Go(t, step) == at' = [at EXCEPT ![t] = step] /\ UNCHANGED <<call, sole>>
Begin(t, name, this, other, step) ==
    /\ at[t] = "idle"
    /\ call' = [call EXCEPT ![t] = [name |-> name, this |-> this, other |-> other]]
    /\ at' = [at EXCEPT ![t] = step]
    /\ sole' = [sole EXCEPT ![t] = FALSE]
    /\ UNCHANGED <<pointer, refCount, values, mMutex>>
Return(t) ==
    /\ at' = [at EXCEPT ![t] = "idle"]
    /\ call' = [call EXCEPT ![t] = NoCall(t)]
    /\ UNCHANGED sole
Forget(t) == held' = [held EXCEPT ![t] = NoPointer]

Lock(t, p) ==
    /\ mMutex[p].owner \in {"none", t}
    /\ mMutex' = [mMutex EXCEPT ![p] = [owner |-> t, count |-> @.count + 1]]
Unlock(t, P) == mMutex' = [p \in Pointers |->
    IF p \in P THEN Unlocked ELSE mMutex[p]]

-----------------------------------------------------------------------------
(* A pointer that takes a value, in step "construct": the count is 1.      *)
(* When there is no memory for the count, the value is deleted.            *)

Take(t, p) == \E v \in {Null, FirstFree} :
    /\ pointer' = [pointer EXCEPT ![p] = [mpValue |-> v, mpRefCount |-> FirstFree]]
    /\ refCount' = [refCount EXCEPT ![FirstFree] = 1]
    /\ values' = values \cup ({v} \ {Null})

MayConstruct(t) ==
    t \in Owners /\ ~Exists(t) /\ Cardinality({p \in SharedPtrs \cup Sharers : Exists(p)}) < MaxPointers

Construct(t) ==
    /\ at[t] = "idle" /\ MayConstruct(t) /\ FreeCounts # {}
    /\ Take(t, t)
    /\ UNCHANGED <<mMutex, call, at, held, sole>>

ConstructTemp(t) ==
    /\ at[t] = "construct"
    /\ \/ /\ FreeCounts # {} /\ Take(t, Temp(t))
          /\ Go(t, "swapLock") /\ UNCHANGED <<mMutex, held>>
       \/ Return(t) /\ UNCHANGED <<pointer, refCount, values, mMutex, held>>

(* A pointer that is a copy.                                               *)

Made(t) == IF call[t].name = "copy" THEN call[t].this ELSE Temp(t)
Source(t) == call[t].other

Copy(t, p) ==
    MayConstruct(t) /\ p # t /\ Exists(p) /\ Begin(t, "copy", t, p, "copyLock") /\ UNCHANGED held

CopyLockNot(t) ==          \* Mutant: the pointer that is copied is not locked.
    at[t] = "copyLock" /\ Go(t, "copyValue")
    /\ UNCHANGED <<pointer, refCount, values, mMutex, held>>
CopyLock(t) ==
    /\ at[t] = "copyLock" /\ Lock(t, Source(t)) /\ Go(t, "copyValue")
    /\ UNCHANGED <<pointer, refCount, values, held>>
CopyValue(t) ==
    /\ at[t] = "copyValue" /\ Go(t, "copyCount")
    /\ held' = [held EXCEPT ![t].mpValue = pointer[Source(t)].mpValue]
    /\ UNCHANGED <<pointer, refCount, values, mMutex>>
CopyCount(t) ==
    /\ at[t] = "copyCount" /\ Go(t, "increment")
    /\ held' = [held EXCEPT ![t].mpRefCount = pointer[Source(t)].mpRefCount]
    /\ UNCHANGED <<pointer, refCount, values, mMutex>>
Increment(t) ==
    /\ at[t] = "increment"
    /\ refCount' = [refCount EXCEPT ![held[t].mpRefCount] = @ + 1]
    /\ pointer' = [pointer EXCEPT ![Made(t)] = held[t]]
    /\ Unlock(t, {Source(t)})
    /\ IF call[t].name = "copy" THEN Return(t) ELSE Go(t, "swapLock")
    /\ Forget(t) /\ UNCHANGED values

-----------------------------------------------------------------------------
(* Destruction of a pointer, or of the temporary.                          *)

Dying(t) == IF call[t].name = "destroy" THEN call[t].this ELSE Temp(t)

Destroy(t) == Exists(t) /\ Begin(t, "destroy", t, t, "decrement") /\ UNCHANGED held

\* Locks, and leaves the lock to Delete.
Decrement(t) ==
    /\ at[t] = "decrement"
    /\ LET n == pointer[Dying(t)].mpRefCount IN
         /\ refCount' = [refCount EXCEPT ![n] = @ - 1]
         /\ IF refCount[n] = 1
              THEN /\ Lock(t, Dying(t)) /\ Go(t, "delete")
                   /\ held' = [held EXCEPT ![t] = pointer[Dying(t)]]
              ELSE Return(t) /\ UNCHANGED <<mMutex, held>>
    /\ pointer' = [pointer EXCEPT ![Dying(t)] = NoPointer]
    /\ UNCHANGED values
\* Deletes the value and the count.
Delete(t) ==
    /\ at[t] = "delete"
    /\ values' = values \ {held[t].mpValue}
    /\ Unlock(t, {Dying(t)}) /\ Return(t) /\ Forget(t)
    /\ UNCHANGED <<pointer, refCount>>

-----------------------------------------------------------------------------
(* Exchange of two pointers, the second locked within the first.           *)

First(t) == IF call[t].name = "swap" THEN call[t].this ELSE Temp(t)
Second(t) == IF call[t].name = "swap" THEN call[t].other ELSE call[t].this

Swap(t, p, q) ==
    /\ Exists(p) /\ Exists(q)
    /\ SwapsInOrder /\ {p, q} \subseteq SharedPtrs /\ p # q =>
         \A u \in Sharers : ~(call[u].name = "swap" /\ call[u].this = q /\ call[u].other = p)
    /\ Begin(t, "swap", p, q, "swapLock") /\ UNCHANGED held

SwapLock(t) ==
    /\ at[t] = "swapLock" /\ Lock(t, First(t)) /\ Go(t, "swapLockOther")
    /\ UNCHANGED <<pointer, refCount, values, held>>
SwapLockOther(t) ==
    /\ at[t] = "swapLockOther" /\ Lock(t, Second(t)) /\ Go(t, "swapValue")
    /\ UNCHANGED <<pointer, refCount, values, held>>
SwapValue(t) ==
    /\ at[t] = "swapValue" /\ Go(t, "swapCount")
    /\ pointer' = [pointer EXCEPT ![First(t)].mpValue = pointer[Second(t)].mpValue,
                                  ![Second(t)].mpValue = pointer[First(t)].mpValue]
    /\ UNCHANGED <<refCount, values, mMutex, held>>
SwapCount(t) ==
    /\ at[t] = "swapCount" /\ Go(t, "swapUnlock")
    /\ pointer' = [pointer EXCEPT ![First(t)].mpRefCount = pointer[Second(t)].mpRefCount,
                                  ![Second(t)].mpRefCount = pointer[First(t)].mpRefCount]
    /\ UNCHANGED <<refCount, values, mMutex, held>>
SwapUnlockOther(t) ==      \* Mutant: the first lock stays.
    /\ at[t] = "swapUnlock" /\ Unlock(t, {Second(t)})
    /\ IF call[t].name = "swap" THEN Return(t) ELSE Go(t, "decrement")
    /\ UNCHANGED <<pointer, refCount, values, held>>
SwapUnlock(t) ==
    /\ at[t] = "swapUnlock" /\ Unlock(t, {First(t), Second(t)})
    /\ IF call[t].name = "swap" THEN Return(t) ELSE Go(t, "decrement")
    /\ UNCHANGED <<pointer, refCount, values, held>>

-----------------------------------------------------------------------------
(* Assignment and reset first compare the values, without a lock; the      *)
(* value of a reset is new.                                                *)

Reads(t, p) == held' = [held EXCEPT ![t].mpValue = pointer[p].mpValue]
Assign(t, p, q) == Exists(p) /\ Exists(q) /\ Begin(t, "assign", p, q, "compare") /\ Reads(t, p)
Reset(t, p) == Exists(p) /\ Begin(t, "reset", p, p, "compare") /\ Reads(t, p)

Compare(t) ==
    /\ at[t] = "compare"
    /\ IF call[t].name = "assign"
         THEN IF pointer[call[t].other].mpValue = held[t].mpValue THEN Return(t) ELSE Go(t, "copyLock")
         ELSE Go(t, "construct") \/ (held[t].mpValue = Null /\ Return(t))
    /\ Forget(t)
    /\ UNCHANGED <<pointer, refCount, values, mMutex>>

-----------------------------------------------------------------------------
(* A thread asks whether its own pointer is unique.                        *)

unique(t) ==
    /\ at[t] = "idle" /\ Exists(t)
    /\ sole' = [sole EXCEPT ![t] = refCount[pointer[t].mpRefCount] = 1]
    /\ UNCHANGED <<pointer, refCount, values, mMutex, call, at, held>>

Usable(t) == SharedPtrs \cup {t}

SharedStep(t) ==
    \/ ConstructTemp(t) \/ CopyLock(t) \/ CopyValue(t) \/ CopyCount(t) \/ Increment(t)
    \/ Decrement(t) \/ Delete(t) \/ SwapLock(t) \/ SwapLockOther(t) \/ SwapValue(t)
    \/ SwapCount(t) \/ SwapUnlock(t) \/ Compare(t)

SharedChoice(t) ==
    \/ Construct(t) \/ Destroy(t) \/ unique(t)
    \/ \E p \in Usable(t) : Copy(t, p) \/ Reset(t, p) \/ \E q \in Usable(t) : Assign(t, p, q) \/ Swap(t, p, q)

SharedNext == \E t \in Sharers : SharedStep(t) \/ SharedChoice(t)

-----------------------------------------------------------------------------
SharedTypeOK ==
    /\ pointer \in [Pointers -> [mpValue : Counts \cup {Null}, mpRefCount : Counts \cup {0}]]
    /\ refCount \in [Counts -> 0 .. Cardinality(Pointers)]
    /\ values \subseteq Counts
    /\ mMutex \in [Pointers -> [owner : Sharers \cup {"none"}, count : 0 .. 2]]
    /\ call \in [Sharers -> Calls] /\ at \in [Sharers -> Steps]
    /\ held \in [Sharers -> [mpValue : Counts \cup {Null}, mpRefCount : Counts \cup {0}]]
    /\ sole \in [Sharers -> BOOLEAN]

\* Every reference count is the number of pointers that have it: none is missed
\* or counted twice when a pointer is copied while another thread swaps it,
\* and nobody counts on with a count that was freed after it was read.
RefCountsAreExact ==
    /\ \A n \in Counts : refCount[n] = Cardinality({p \in Pointers : pointer[p].mpRefCount = n})
    /\ \A t \in Sharers : at[t] = "increment" => refCount[held[t].mpRefCount] > 0

\* A value is deleted after its last pointer is gone, and nothing is left on
\* the heap: the values are those of the pointers, and what a destructor is
\* about to delete.
ValuesLiveWhileShared == values =
    ({pointer[p].mpValue : p \in Pointers} \cup
     {held[t].mpValue : t \in {u \in Sharers : at[u] = "delete"}}) \ {Null}

\* Who finds its own pointer unique may change the value in place: until it
\* makes another call no other pointer comes to share the value.
UniqueIsSole == \A t \in Sharers : sole[t] =>
    \A p \in Pointers \ {t} : pointer[p].mpRefCount # pointer[t].mpRefCount

\* The calls return: nobody waits for ever for a lock.
SharedCallsReturn == \A t \in Sharers : at[t] # "idle" ~> at[t] = "idle"
=============================================================================
