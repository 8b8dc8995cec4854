------------------------------ MODULE Atomics ------------------------------
(***************************************************************************)
(* AtomicInt<T> and the standalone atomic functions on every platform.     *)
(* A platform is a table: for each operation how the code does it, what it *)
(* stores and what it returns.  Platforms with equal tables are one        *)
(* initial state.                                                          *)
(*                                                                         *)
(* A word has two halves.  Where it does not fit a register (64 bit types  *)
(* on 32 bit processors), plain C++ loads and stores move half of it at a  *)
(* time; an instruction always moves the whole word.                       *)
(***************************************************************************)
EXTENDS Integers, TLC

CONSTANTS
    Half,           \* The number of values of half a word; a word has two halves.
    Threads,
    NoAnswer,
    Nobody,         \* No thread.
    Rivals,         \* Threads that call only the operations RivalOps; the others call
    RivalOps,       \* every operation.
    Operands,       \* What callers add or assign.
    Unreliable,     \* The methods whose result the caller ignores.
    AssignAlone     \* Whether nobody else uses an object that is assigned to.

-----------------------------------------------------------------------------
(***************************************************************************)
(* What the comments of eathread_atomic.h promise of one call made on the  *)
(* value v: the value after it, and what it returns.                       *)
(***************************************************************************)
Words == 0 .. Half * Half - 1
Wrap(n) == n % (Half * Half)

\* The bits of two words, pair by pair.  With Half = 2 each half is one bit.
Bits(Op(_, _), v, n) == Op(v \div Half, n \div Half) * Half + Op(v % Half, n % Half)
Or(v, n)  == LET op(a, b) == IF a + b > 0 THEN 1 ELSE 0 IN Bits(op, v, n)
And(v, n) == LET op(a, b) == a * b IN Bits(op, v, n)
Xor(v, n) == LET op(a, b) == (a + b) % 2 IN Bits(op, v, n)

ReturningNew == {"Increment", "Decrement", "Add", "AddAssign", "SubAssign", "Assign", "Copy", "Or", "And", "Xor"}

\* The value after call c, made when the value is v.  The operand of
\* Decrement and FetchSub is negative.
After(c, v) ==
    CASE c.op = "GetValue" -> v
      [] c.op \in {"SetValue", "Assign", "Copy", "FetchSwap"} -> c.n
      [] c.op \in {"SetValueConditional", "FetchSwapConditional"} -> IF v = c.condition THEN c.n ELSE v
      [] c.op \in {"Or", "FetchOr"} -> Or(v, c.n)
      [] c.op \in {"And", "FetchAnd"} -> And(v, c.n)
      [] c.op \in {"Xor", "FetchXor"} -> Xor(v, c.n)
      [] OTHER -> Wrap(v + c.n)

\* What the call returns; true is 1.
Promised(c, v) ==
    CASE c.op = "SetValueConditional" -> IF v = c.condition THEN 1 ELSE 0
      [] c.op \in ReturningNew -> After(c, v)
      [] OTHER -> v

-----------------------------------------------------------------------------
ASSUME AtomicsAssumption == Half = 2 /\ Operands \subseteq Words

VARIABLES
    table,          \* The platform.
    mValue,         \* The word in memory, as its halves.
    pc,             \* Where each thread is in its call.
    call,           \* The operation, its operand and its condition.
    local,          \* The halves that plain loads have read, or stores have still to write.
    seen,           \* The word that the owner of the lock, or an addition, found.
    result,         \* What the call returns.
    swapLock        \* Who holds the mutex of the emulated 64 bit atomics.

atomicVars == <<table, mValue, pc, call, local, seen, result, swapLock>>

Neither == [lo |-> Half, hi |-> Half]    \* No half of the word.
Split(v) == [lo |-> v % Half, hi |-> v \div Half]
Word(h) == h.hi * Half + h.lo
-----------------------------------------------------------------------------
(***************************************************************************)
(* The tables.  "halves" tells whether plain loads and stores are of half  *)
(* a word.  The methods:                                                   *)
(*   instruction   one indivisible instruction (a plain load is one too);  *)
(*   loop          a plain load, then compare and exchange until it works; *)
(*   locked        android_fake_atomic_*, under the mutex of the address;  *)
(*   lockedSet     the old value by a plain load, then locked;             *)
(*   lockedAdd     a plain load, locked compare and exchange until it      *)
(*                 works, then another plain load for the result;          *)
(*   addThenLoad   an instruction, then a load for the result;             *)
(*   assign        a plain store.                                          *)
(***************************************************************************)
Row(how, stores, gives) == [how |-> how, stores |-> stores, gives |-> gives]
One(stores, gives) == Row("instruction", stores, gives)
Loop(stores, gives) == Row("loop", stores, gives)

\* The operators of the class are made of its member functions, but for the
\* copy assignment, which stores what GetValue of the other object returned.
WithOperators(halves, rows) == [halves |-> halves, rows |-> rows @@
   [Assign |-> [rows.SetValue EXCEPT !.gives = "operand"],
    Copy |-> Row(IF halves THEN "assign" ELSE "instruction", "operand", "operand"),
    AddAssign |-> rows.Add, SubAssign |-> rows.Add,
    PostIncrement |-> [rows.Increment EXCEPT !.gives = IF @ = "new" THEN "new minus" ELSE "old"],
    PostDecrement |-> [rows.Decrement EXCEPT !.gives = IF @ = "new" THEN "new minus" ELSE "old"]]]

\* Increment and Decrement are Add of 1 and -1 in many places.
Members(get, set, conditional, add) ==
   [GetValue |-> get, SetValue |-> set, SetValueConditional |-> conditional,
    Increment |-> add, Decrement |-> add, Add |-> add]
Conditional == One("conditional", "equals")

\* int32_t with Visual C++ on x86.
X86Msvc32 == WithOperators(FALSE,
    [Members(One("same", "old"), One("operand", "old"), Conditional, One("sum", "new"))
        EXCEPT !.Add = One("sum", "old plus")])

\* int64_t with Visual C++ on x86: loops around cmpxchg8b, which compares
\* and exchanges the whole word whatever the load before it has torn.
X86Msvc64 == WithOperators(TRUE,
    Members(Loop("same", "old"), Loop("operand", "old"), Conditional, Loop("sum", "new")))

\* The builtins of GCC and Clang.
X86Builtins == WithOperators(FALSE,
    Members(One("sum", "new"), One("operand", "old"), Conditional, One("sum", "new")))

\* Older GCC: xaddl gives the old value; int64_t as with Visual C++.
X86Gcc32 == WithOperators(FALSE,
    Members(One("same", "old"), One("operand", "old"), Conditional, One("sum", "old plus")))
X86Gcc64 == WithOperators(TRUE,
    Members(Loop("same", "old"), Loop("operand", "old"), Conditional, Loop("sum", "new")))

\* Assembly of the Intel and Borland compilers.
X86Assembly == X86Gcc32

X8664Msvc == WithOperators(FALSE,
    [Members(One("sum", "old"), One("operand", "old"), Conditional, One("sum", "new"))
        EXCEPT !.Add = One("sum", "old plus")])
X8664Builtins == X86Builtins

\* The functions on __int128_t; a swap is FetchSwap, and SetValue returns nothing.
X8664Wide == [halves |-> FALSE, rows |->
    [GetValue |-> One("sum", "new"), Assign |-> One("operand", "operand"),
     SetValueConditional |-> Conditional,
     Increment |-> One("sum", "new"), Decrement |-> One("sum", "new"), Add |-> One("sum", "new"),
     Or |-> One("or", "new"), And |-> One("and", "new"), Xor |-> One("xor", "new"),
     FetchSwap |-> One("operand", "old")]]

GccBuiltins == X86Builtins

Apple32 == WithOperators(FALSE,
    Members(One("sum", "new"), Loop("operand", "old"), Conditional, One("sum", "new")))
\* AtomicAdd64 and the like are pointers to functions that are not in src/;
\* the class takes their result for the new, or for SetValue the old, value.
Apple64 == WithOperators(TRUE,
    Members(One("same", "old"), One("operand", "old"), Conditional, One("sum", "new")))

Android32 == WithOperators(FALSE,
    [Members(One("same", "old"), One("operand", "old"), Conditional, One("sum", "old plus"))
        EXCEPT !.Add = One("sum", "new")])
Android64 == WithOperators(TRUE,
    Members(Row("locked", "same", "old"), Row("lockedSet", "operand", "old"),
            Row("locked", "conditional", "equals"), Row("lockedAdd", "sum", "new")))
AndroidC11 == WithOperators(FALSE,
    Members(One("same", "old"), One("operand", "old"), Conditional, One("sum", "old plus")))

\* std::atomic in the class of EA_USE_CPP11_CONCURRENCY, whose += and -= load
\* the result, and in the class of internal/eathread_atomic.h.
Cpp11 == LET rows == Members(One("same", "old"), One("operand", "old"), Conditional, One("sum", "new"))
             sum == Row("addThenLoad", "sum", "new")
         IN [WithOperators(FALSE, rows) EXCEPT !.rows.AddAssign = sum, !.rows.SubAssign = sum]
StdAtomic == WithOperators(FALSE,
    [Members(One("same", "old"), One("operand", "old"), Conditional, One("sum", "new"))
        EXCEPT !.Add = One("sum", "old plus")])

\* The standalone functions; detail::AtomicGetValue adds 0 where a plain load
\* may be torn.
Standalone(get, add, step) == [halves |-> FALSE, rows |->
   [GetValue |-> get, SetValue |-> One("operand", "old"), SetValueConditional |-> Conditional,
    FetchIncrement |-> step, FetchDecrement |-> step, FetchAdd |-> add, FetchSub |-> add,
    FetchOr |-> One("or", "old"), FetchAnd |-> One("and", "old"), FetchXor |-> One("xor", "old"),
    FetchSwap |-> One("operand", "old"), FetchSwapConditional |-> One("conditional", "old")]]
StandaloneGcc == Standalone(One("sum", "old"), One("sum", "old"), One("sum", "old"))
StandaloneMsvc == Standalone(One("same", "old"), One("sum", "old"), One("sum", "new minus"))

Tables == {X86Msvc32, X86Msvc64, X86Builtins, X86Gcc32, X86Gcc64, X86Assembly, X8664Msvc, X8664Builtins,
           X8664Wide, GccBuiltins, Apple32, Apple64, Android32, Android64, AndroidC11, Cpp11, StdAtomic,
           StandaloneGcc, StandaloneMsvc}
-----------------------------------------------------------------------------
\* The operand of an operation: 1 or -1 for steps, 0 where nothing is added.
OperandsOf(op) ==
    CASE op = "GetValue" -> {0}
      [] op \in {"Increment", "PostIncrement", "FetchIncrement"} -> {1}
      [] op \in {"Decrement", "PostDecrement", "FetchDecrement"} -> {Wrap(-1)}
      [] op \in {"SubAssign", "FetchSub"} -> {Wrap(-n) : n \in Operands}
      [] OTHER -> Operands
\* Callers compare with 0, where every word begins.
CallsOf(ops) == UNION {{[op |-> op, n |-> n, condition |-> 0] : n \in OperandsOf(op)} : op \in ops}

CallsBy(t) == CallsOf(IF t \in Rivals THEN DOMAIN table.rows \cap RivalOps ELSE DOMAIN table.rows)

How(t) == table.rows[call[t].op]

\* What a method stores over the word v, and what it returns.
Stored(row, c, v) ==
    CASE row.stores = "same" -> v
      [] row.stores = "operand" -> c.n
      [] row.stores = "sum" -> Wrap(v + c.n)
      [] row.stores = "conditional" -> IF v = c.condition THEN c.n ELSE v
      [] row.stores = "or"  -> Or(v, c.n)
      [] row.stores = "and" -> And(v, c.n)
      [] row.stores = "xor" -> Xor(v, c.n)

Given(row, c, v, new) ==
    CASE row.gives = "old" -> v
      [] row.gives = "new" -> new
      [] row.gives = "old plus" -> Wrap(v + c.n)
      [] row.gives = "new minus" -> Wrap(new - c.n)
      [] row.gives = "operand" -> c.n
      [] row.gives = "equals" -> IF v = c.condition THEN 1 ELSE 0

AtomicInit ==
    /\ table \in Tables
    /\ mValue = Split(0)
    /\ pc = [t \in Threads |-> "idle"]
    /\ call = [t \in Threads |-> NoAnswer]
    /\ local = [t \in Threads |-> Neither]
    /\ seen = [t \in Threads |-> 0]
    /\ result = [t \in Threads |-> 0]
    /\ swapLock = Nobody

Goto(t, label) == pc' = [pc EXCEPT ![t] = label]
Keep(t, halves) == local' = [local EXCEPT ![t] = halves]
Answer(t, v, new) == result' = [result EXCEPT ![t] = Given(How(t), call[t], v, new)]
See(t, v) == seen' = [seen EXCEPT ![t] = v]
Loaded(t) == local[t].lo # Half /\ local[t].hi # Half

\* An object is assigned to when nobody else uses it.
Alone(t, row) == AssignAlone => \A u \in Threads \ {t} : pc[u] # "idle" =>
    row.how # "assign" /\ How(u).how # "assign"

\* A call of one instruction.
Instruction(t) == \E c \in CallsBy(t) :
    LET row == table.rows[c.op]  v == Word(mValue)  new == Stored(row, c, v) IN
    /\ pc[t] = "idle" /\ row.how = "instruction" /\ Alone(t, row)
    /\ call' = [call EXCEPT ![t] = c]
    /\ mValue' = Split(new)
    /\ result' = [result EXCEPT ![t] = Given(row, c, v, new)]
    /\ Goto(t, "done")
    /\ UNCHANGED <<table, local, seen, swapLock>>

\* A call of several steps begins.
Begin(t) == \E c \in CallsBy(t) : LET row == table.rows[c.op] IN
    /\ pc[t] = "idle" /\ row.how # "instruction" /\ Alone(t, row)
    /\ call' = [call EXCEPT ![t] = c]
    /\ Goto(t, CASE row.how \in {"locked", "addThenLoad"} -> "swap"
                 [] row.how = "assign" -> "store"
                 [] OTHER -> "load")
    /\ IF row.how = "assign"
       THEN See(t, Word(mValue)) /\ Keep(t, Split(c.n)) /\ result' = [result EXCEPT ![t] = c.n]
       ELSE UNCHANGED <<seen, local, result>>
    /\ UNCHANGED <<table, mValue, swapLock>>

\* A plain load; its halves in either order.
Load(t) ==
    /\ pc[t] \in {"load", "reload"} /\ ~Loaded(t)
    /\ \/ ~table.halves /\ Keep(t, mValue)
       \/ \E half \in {"lo", "hi"} : /\ table.halves /\ local[t][half] = Half
                                     /\ local' = [local EXCEPT ![t][half] = mValue[half]]
    /\ UNCHANGED <<table, mValue, pc, call, seen, result, swapLock>>

\* Mutants of CompareExchange: it stores without the comparison, or a loop
\* that failed does not load again.
CompareExchangeBlind(t) == LET old == Word(local[t])  new == Stored(How(t), call[t], old) IN
    /\ pc[t] = "load" /\ Loaded(t) /\ How(t).how = "loop"
    /\ mValue' = Split(new) /\ Answer(t, old, new) /\ Goto(t, "done") /\ Keep(t, Neither)
    /\ UNCHANGED <<table, call, seen, swapLock>>
CompareExchangeStubborn(t) == LET old == Word(local[t])  new == Stored(How(t), call[t], old) IN
    /\ pc[t] = "load" /\ Loaded(t) /\ How(t).how = "loop" /\ Word(mValue) = old
    /\ mValue' = Split(new) /\ Answer(t, old, new) /\ Goto(t, "done") /\ Keep(t, Neither)
    /\ UNCHANGED <<table, call, seen, swapLock>>

\* What a loop loaded is compared and exchanged, in one instruction; if
\* another value is there the loop loads again.
CompareExchange(t) == LET old == Word(local[t])  new == Stored(How(t), call[t], old) IN
    /\ pc[t] = "load" /\ Loaded(t) /\ How(t).how = "loop"
    /\ IF Word(mValue) = old
       THEN mValue' = Split(new) /\ Answer(t, old, new) /\ Goto(t, "done")
       ELSE UNCHANGED <<mValue, result, pc>>
    /\ Keep(t, Neither)
    /\ UNCHANGED <<table, call, seen, swapLock>>

\* std::atomic's own += or -=, whose result the class does not use.
AddFirst(t) ==
    /\ pc[t] = "swap" /\ How(t).how = "addThenLoad"
    /\ mValue' = Split(Stored(How(t), call[t], Word(mValue)))
    /\ See(t, Word(mValue))
    /\ Goto(t, "reload")
    /\ UNCHANGED <<table, call, local, result, swapLock>>

\* android_fake_atomic_*: nobody who has to lock changes the word that the
\* owner of the mutex finds.  A swap stores, a compare and exchange stores if
\* the comparison holds, a read does not store.
Lock(t) ==
    LET row == How(t)  c == call[t]  v == Word(mValue)
        failed == row.how = "lockedAdd" /\ v # Word(local[t])
        stores == row.how = "lockedSet" \/ (row.how = "lockedAdd" /\ ~failed)
                  \/ (row.stores = "conditional" /\ v = c.condition)
    IN
    /\ \/ pc[t] = "swap" /\ row.how = "locked"
       \/ pc[t] = "load" /\ Loaded(t) /\ row.how \in {"lockedSet", "lockedAdd"}
    /\ swapLock = Nobody /\ swapLock' = t
    /\ See(t, v)
    /\ Answer(t, IF row.how = "lockedSet" THEN Word(local[t]) ELSE v, v)
    /\ Keep(t, IF stores THEN Split(Stored(row, c, v)) ELSE Neither)
    /\ Goto(t, IF failed THEN "retry" ELSE IF stores THEN "store" ELSE "unlock")
    /\ UNCHANGED <<table, mValue, call>>

\* A plain store of a word that takes two.
StoreHalf(t) == \E half \in {"lo", "hi"} :
    /\ pc[t] = "store" /\ local[t][half] # Half
    /\ mValue' = [mValue EXCEPT ![half] = local[t][half]]
    /\ local' = [local EXCEPT ![t][half] = Half]
    /\ IF local'[t] = Neither THEN Goto(t, IF How(t).how = "assign" THEN "done" ELSE "unlock")
       ELSE UNCHANGED pc
    /\ UNCHANGED <<table, call, seen, result, swapLock>>

Unlock(t) ==
    /\ pc[t] \in {"unlock", "retry"}
    /\ swapLock' = Nobody
    /\ Goto(t, IF pc[t] = "retry" THEN "load" ELSE IF How(t).how = "lockedAdd" THEN "reload" ELSE "done")
    /\ UNCHANGED <<table, mValue, call, local, seen, result>>

\* The result is what the word is by now.
Reloaded(t) ==
    /\ pc[t] = "reload" /\ Loaded(t)
    /\ Answer(t, seen[t], Word(local[t]))
    /\ Keep(t, Neither)
    /\ Goto(t, "done")
    /\ UNCHANGED <<table, mValue, call, seen, swapLock>>

Return(t) ==
    /\ pc[t] = "done"
    /\ Goto(t, "idle")
    /\ call' = [call EXCEPT ![t] = NoAnswer]
    /\ See(t, 0)
    /\ result' = [result EXCEPT ![t] = 0]
    /\ UNCHANGED <<table, mValue, local, swapLock>>

AtomicStep(t) ==
    \/ Load(t) \/ CompareExchange(t) \/ AddFirst(t) \/ Lock(t) \/ StoreHalf(t) \/ Unlock(t)
    \/ Reloaded(t) \/ Return(t)

AtomicNext == \E t \in Threads : Instruction(t) \/ Begin(t) \/ AtomicStep(t)
-----------------------------------------------------------------------------
Bit == 0 .. Half - 1
AtomicTypeOK ==
    /\ table \in Tables
    /\ mValue \in [{"lo", "hi"} -> Bit]
    /\ pc \in [Threads -> {"idle", "load", "swap", "store", "unlock", "retry", "reload", "done"}]
    /\ local \in [Threads -> [{"lo", "hi"} -> Bit \cup {Half}]]
    /\ seen \in [Threads -> Words]
    /\ result \in [Threads -> Words]
    /\ swapLock \in Threads \cup {Nobody}

\* The word changes when the last half of a store is there.
TheWord == IF \E t \in Threads : pc[t] = "store"
           THEN seen[CHOOSE t \in Threads : pc[t] = "store"]
           ELSE Word(mValue)

PromisedResult(t) == Promised(call[t], seen[t])

Cell == INSTANCE AtomicCell WITH
    Calls <- UNION {CallsOf(DOMAIN a.rows) : a \in Tables},
    value <- TheWord,
    answer <- [t \in Threads |->
        IF pc[t] \notin {"unlock", "reload", "done"} THEN NoAnswer
        ELSE <<call[t], IF pc[t] # "done" \/ How(t).how \in Unreliable THEN PromisedResult(t)
                                                                      ELSE result[t]>>]

\* No addition, exchange or bit is lost, and no half of one value is seen with
\* half of another: on every platform a call is as good as one instruction.
ImplementsAtomicCell == []AtomicTypeOK /\ Cell!Spec

\* The loops of compare and exchange are lock free: while threads are in them,
\* one of them gets through.
SomeoneGetsThrough ==
    (\E t \in Threads : pc[t] \notin {"idle", "done"}) ~> (\E t \in Threads : pc[t] = "done")

-----------------------------------------------------------------------------
AtomicSpec == AtomicInit /\ [][AtomicNext]_atomicVars

\* The scheduler runs the threads.
FairSpec == AtomicSpec /\ \A t \in Threads : WF_atomicVars(AtomicStep(t))
=============================================================================
