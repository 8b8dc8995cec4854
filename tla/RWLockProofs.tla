---------------------------- MODULE RWLockProofs ----------------------------
(***************************************************************************)
(* Proofs about the six locks for readers and writers, for every set of    *)
(* threads and every number of recursive read locks: the lock's own state  *)
(* says who has it, and each implements ReadWriteLock.                     *)
(***************************************************************************)
EXTENDS MCReadWriteLocks, FiniteSetTheorems, TLAPS

OneWriter == Cardinality(Writers) <= 1
WritersExcludeReaders == Writers # {} => Readers = {}
InsideHoldsNothing == \A t \in Threads : pc[t] # "idle" => ~Holds(t)
ReadsOnce == \A t \in Threads : reads[t] <= 1

SpinLockInv == S!TypeOK /\ S!WordIsExact /\ Readers = {} /\ InsideHoldsNothing

-----------------------------------------------------------------------------
(* Counting.                                                               *)

\* Two sets that differ in x at most.
LEMMA CountOneElement ==
    ASSUME NEW A, NEW B, NEW x, IsFiniteSet(A), \A y : y # x => (y \in A <=> y \in B)
    PROVE  /\ IsFiniteSet(B) /\ Cardinality(A) \in Nat /\ Cardinality(B) \in Nat
           /\ Cardinality(B) = Cardinality(A) + (IF x \in B THEN 1 ELSE 0) - (IF x \in A THEN 1 ELSE 0)
           /\ x \in A => Cardinality(A) > 0
           /\ x \in B => Cardinality(B) > 0
<1>1. B = IF x \in B THEN A \cup {x} ELSE A \ {x}
  OBVIOUS
<1>2. /\ IsFiniteSet(A \cup {x})
      /\ Cardinality(A \cup {x}) = IF x \in A THEN Cardinality(A) ELSE Cardinality(A) + 1
  BY FS_AddElement
<1>3. /\ IsFiniteSet(A \ {x})
      /\ Cardinality(A \ {x}) = IF x \in A THEN Cardinality(A) - 1 ELSE Cardinality(A)
  BY FS_RemoveElement
<1>4. IsFiniteSet(B) /\ Cardinality(A) \in Nat /\ Cardinality(B) \in Nat
  BY <1>1, <1>2, <1>3, FS_CardinalityType
<1>5. (x \in A => Cardinality(A) # 0) /\ (x \in B => Cardinality(B) # 0)
  BY <1>4, FS_EmptySet
<1> QED
  BY <1>1, <1>2, <1>3, <1>4, <1>5

LEMMA SizeOfRange ==
    ASSUME NEW n \in Nat
    PROVE  IsFiniteSet(1 .. n) /\ Cardinality(1 .. n) = n
<1>1. IsFiniteSet(1 .. n) /\ Cardinality(1 .. n) = IF 1 > n THEN 0 ELSE n - 1 + 1
  BY FS_Interval
<1>2. (IF 1 > n THEN 0 ELSE n - 1 + 1) = n
  OBVIOUS
<1> QED
  BY <1>1, <1>2

LEMMA PartOfThreads ==
    ASSUME NEW A, A \subseteq Threads
    PROVE  /\ IsFiniteSet(A) /\ Cardinality(A) \in Nat /\ Cardinality(A) <= Cardinality(Threads)
           /\ Cardinality(Threads) \in Nat
           /\ Cardinality(A) = 0 <=> A = {}
<1>1. IsFiniteSet(A) /\ Cardinality(A) <= Cardinality(Threads)
  BY FS_Subset, LockStateAssumption
<1> QED
  BY <1>1, FS_CardinalityType, FS_EmptySet, LockStateAssumption

LEMMA ThreadCount == Cardinality(Threads) \in Nat
BY PartOfThreads

\* When thread t alone moves, the number of threads at a set of labels changes by
\* what becomes of t; when it alone takes or undoes a lock, so do those that hold one.
LEMMA CountAt ==
    ASSUME NEW t \in Threads, \A u \in Threads \ {t} : pc'[u] = pc[u], NEW L
    PROVE  /\ Cardinality(At(L)') = Cardinality(At(L))
                  + (IF pc'[t] \in L THEN 1 ELSE 0) - (IF pc[t] \in L THEN 1 ELSE 0)
           /\ Cardinality(At(L)) \in Nat
           /\ pc[t] \in L => Cardinality(At(L)) > 0
<1>1. (t \in At(L) <=> pc[t] \in L) /\ (t \in At(L)' <=> pc'[t] \in L)
  BY DEF At
<1>2. \A y : y # t => (y \in At(L) <=> y \in At(L)')
  BY DEF At
<1>3. IsFiniteSet(At(L))
  BY PartOfThreads DEF At
<1> QED
  BY <1>1, <1>2, <1>3, CountOneElement

LEMMA CountHolders ==
    ASSUME NEW t \in Threads, \A u \in Threads \ {t} : reads'[u] = reads[u] /\ writes'[u] = writes[u]
    PROVE  /\ Cardinality(Readers') = Cardinality(Readers)
                 + (IF reads'[t] > 0 THEN 1 ELSE 0) - (IF reads[t] > 0 THEN 1 ELSE 0)
           /\ Cardinality(Writers') = Cardinality(Writers)
                 + (IF writes'[t] > 0 THEN 1 ELSE 0) - (IF writes[t] > 0 THEN 1 ELSE 0)
           /\ reads[t] > 0 => Cardinality(Readers) > 0
           /\ writes[t] > 0 => Cardinality(Writers) > 0
           /\ Cardinality(Readers) \in Nat /\ Cardinality(Writers) \in Nat
<1>0. IsFiniteSet(Readers) /\ IsFiniteSet(Writers)
  BY PartOfThreads DEF Readers, Writers
<1>1. (t \in Readers <=> reads[t] > 0) /\ (t \in Readers' <=> reads'[t] > 0)
  BY DEF Readers
<1>2. (t \in Writers <=> writes[t] > 0) /\ (t \in Writers' <=> writes'[t] > 0)
  BY DEF Writers
<1>3. \A y : y # t => (y \in Readers <=> y \in Readers') /\ (y \in Writers <=> y \in Writers')
  BY DEF Readers, Writers
<1>4. /\ Cardinality(Readers') = Cardinality(Readers)
             + (IF t \in Readers' THEN 1 ELSE 0) - (IF t \in Readers THEN 1 ELSE 0)
      /\ t \in Readers => Cardinality(Readers) > 0
      /\ Cardinality(Readers) \in Nat
  BY <1>3, <1>0, CountOneElement
<1>5. /\ Cardinality(Writers') = Cardinality(Writers)
             + (IF t \in Writers' THEN 1 ELSE 0) - (IF t \in Writers THEN 1 ELSE 0)
      /\ t \in Writers => Cardinality(Writers) > 0
      /\ Cardinality(Writers) \in Nat
  BY <1>3, <1>0, CountOneElement
<1> QED
  BY <1>1, <1>2, <1>4, <1>5

LEMMA LocksAreFinite ==
    ASSUME reads \in [Threads -> 0 .. MaxReads]
    PROVE  /\ IsFiniteSet(ReadLocks) /\ Cardinality(ReadLocks) \in Nat
           /\ Cardinality(ReadLocks) = 0 <=> Readers = {}
<1>0. IsFiniteSet(1 .. MaxReads)
  BY LockStateAssumption, FS_Interval
<1>1. IsFiniteSet(Threads \X (1 .. MaxReads))
  BY <1>0, LockStateAssumption, FS_Product
<1>2. IsFiniteSet(ReadLocks) /\ Cardinality(ReadLocks) \in Nat
  BY <1>1, FS_Subset, FS_CardinalityType DEF ReadLocks
<1>3. Cardinality(ReadLocks) = 0 <=> ReadLocks = {}
  BY <1>2, FS_EmptySet
<1>4. ASSUME NEW t \in Threads, reads[t] > 0 PROVE <<t, 1>> \in ReadLocks
  BY <1>4, LockStateAssumption DEF ReadLocks
<1>5. ASSUME NEW t \in Threads, NEW n \in 1 .. MaxReads, <<t, n>> \in ReadLocks PROVE reads[t] > 0
  BY <1>5 DEF ReadLocks
<1>6. ReadLocks = {} <=> \A t \in Threads : ~(reads[t] > 0)
  BY <1>4, <1>5 DEF ReadLocks
<1> QED
  BY <1>2, <1>3, <1>6 DEF Readers

\* When thread t takes one more read lock, or undoes one.
LEMMA CountLocks ==
    ASSUME reads \in [Threads -> 0 .. MaxReads], NEW t \in Threads, reads' \in [Threads -> 0 .. MaxReads],
           \A u \in Threads \ {t} : reads'[u] = reads[u]
    PROVE  /\ reads'[t] = reads[t] + 1 => Cardinality(ReadLocks') = Cardinality(ReadLocks) + 1
           /\ reads'[t] = reads[t] - 1 => Cardinality(ReadLocks') = Cardinality(ReadLocks) - 1
<1> DEFINE lock == <<t, IF reads'[t] > reads[t] THEN reads'[t] ELSE reads[t]>>
<1>1. CASE reads'[t] \in {reads[t] + 1, reads[t] - 1}
  <2>1. lock \in ReadLocks' <=> reads'[t] > reads[t]
    BY <1>1, LockStateAssumption DEF ReadLocks
  <2>2. lock \in ReadLocks <=> ~(reads'[t] > reads[t])
    BY <1>1, LockStateAssumption DEF ReadLocks
  <2>3. ASSUME NEW y, y # lock PROVE y \in ReadLocks <=> y \in ReadLocks'
    BY <1>1, <2>3 DEF ReadLocks
  <2>4. Cardinality(ReadLocks') = Cardinality(ReadLocks)
            + (IF lock \in ReadLocks' THEN 1 ELSE 0) - (IF lock \in ReadLocks THEN 1 ELSE 0)
    BY <2>3, LocksAreFinite, CountOneElement
  <2> QED
    BY <1>1, <2>1, <2>2, <2>4, LocksAreFinite
<1> QED
  BY <1>1
-----------------------------------------------------------------------------
(* What taking and undoing a lock does to the threads that hold it, and    *)
(* which step of the abstract lock it is.                                  *)

HoldersTypeOK == reads \in [Threads -> 0 .. MaxReads] /\ writes \in [Threads -> 0 .. 1]

LEMMA AfterMove ==
    ASSUME UNCHANGED <<reads, writes>>
    PROVE  Readers' = Readers /\ Writers' = Writers /\ ReadLocks' = ReadLocks
BY DEF Readers, Writers, ReadLocks

LEMMA AfterGetRead ==
    ASSUME HoldersTypeOK, NEW t \in Threads, reads[t] < MaxReads, Writers = {}, GetRead(t)
    PROVE  /\ HoldersTypeOK' /\ Abstract!AcquireRead(t)
           /\ Writers' = {} /\ Readers' = Readers \cup {t}
           /\ Cardinality(ReadLocks') = Cardinality(ReadLocks) + 1
           /\ Cardinality(ReadLocks) \in Nat
           /\ Cardinality(Readers') = Cardinality(Readers) + (IF reads[t] = 0 THEN 1 ELSE 0)
           /\ Cardinality(Readers) \in Nat
<1> USE DEF HoldersTypeOK, GetRead
<1>1. /\ HoldersTypeOK' /\ reads'[t] = reads[t] + 1
      /\ reads[t] + 1 \in 0 .. MaxReads /\ \A u \in Threads \ {t} : reads'[u] = reads[u]
  BY LockStateAssumption
<1>2. \A u \in Threads : writes[u] = 0
  BY DEF Writers
<1>3. Writers' = {} /\ Readers' = Readers \cup {t}
  BY DEF Writers, Readers
<1>4. Abstract!AcquireRead(t)
  BY <1>2 DEF Abstract!AcquireRead
<1>5. Cardinality(ReadLocks') = Cardinality(ReadLocks) + 1 /\ Cardinality(ReadLocks) \in Nat
  BY <1>1, CountLocks, LocksAreFinite
<1>6. /\ Cardinality(Readers') = Cardinality(Readers) + (IF reads[t] = 0 THEN 1 ELSE 0)
      /\ Cardinality(Readers) \in Nat
  BY <1>1, CountHolders
<1> QED
  BY <1>1, <1>3, <1>4, <1>5, <1>6

LEMMA AfterGetWrite ==
    ASSUME HoldersTypeOK, NEW t \in Threads, Readers = {}, Writers = {}, GetWrite(t)
    PROVE  /\ HoldersTypeOK' /\ Abstract!AcquireWrite(t)
           /\ Writers' = {t} /\ Readers' = {}
           /\ Cardinality(Writers) = 0 /\ Cardinality(Writers') = 1
<1> USE DEF HoldersTypeOK, GetWrite
<1>1. \A u \in Threads : reads[u] = 0 /\ writes[u] = 0
  BY DEF Readers, Writers
<1>2. Writers' = {t} /\ Readers' = {}
  BY DEF Writers, Readers
<1>3. Abstract!AcquireWrite(t)
  BY <1>1 DEF Abstract!AcquireWrite
<1>4. Cardinality(Writers) = 0 /\ Cardinality(Writers') = 1
  BY <1>2, FS_EmptySet, FS_Singleton
<1> QED
  BY <1>2, <1>3, <1>4

LEMMA AfterDropRead ==
    ASSUME HoldersTypeOK, NEW t \in Threads, DropRead(t)
    PROVE  /\ HoldersTypeOK' /\ Abstract!ReleaseRead(t)
           /\ Writers' = Writers /\ Readers' \subseteq Readers /\ t \in Readers
           /\ Cardinality(ReadLocks') = Cardinality(ReadLocks) - 1
           /\ Cardinality(ReadLocks) \in Nat \ {0}
           /\ Cardinality(Readers') = Cardinality(Readers) - (IF reads[t] = 1 THEN 1 ELSE 0)
           /\ Cardinality(Readers) \in Nat \ {0}
<1> USE DEF HoldersTypeOK, DropRead
<1>1. /\ HoldersTypeOK' /\ reads'[t] = reads[t] - 1 /\ reads[t] > 0
      /\ reads[t] - 1 \in 0 .. MaxReads /\ \A u \in Threads \ {t} : reads'[u] = reads[u]
  BY LockStateAssumption
<1>2. Writers' = Writers /\ Readers' \subseteq Readers /\ t \in Readers
  BY DEF Writers, Readers
<1>3. Abstract!ReleaseRead(t)
  BY DEF Abstract!ReleaseRead
<1>4. Cardinality(ReadLocks') = Cardinality(ReadLocks) - 1 /\ Cardinality(ReadLocks) \in Nat \ {0}
  BY <1>1, <1>2, CountLocks, LocksAreFinite
<1>5. /\ Cardinality(Readers') = Cardinality(Readers) - (IF reads[t] = 1 THEN 1 ELSE 0)
      /\ Cardinality(Readers) \in Nat \ {0}
  BY <1>1, CountHolders
<1> QED
  BY <1>1, <1>2, <1>3, <1>4, <1>5

LEMMA AfterDropWrite ==
    ASSUME HoldersTypeOK, NEW t \in Threads, OneWriter, WritersExcludeReaders, DropWrite(t)
    PROVE  /\ HoldersTypeOK' /\ Abstract!ReleaseWrite(t)
           /\ Writers = {t} /\ Writers' = {} /\ Readers = {} /\ Readers' = {} /\ ReadLocks' = ReadLocks
           /\ Cardinality(Writers) = 1 /\ Cardinality(Writers') = 0
<1> USE DEF HoldersTypeOK, DropWrite
<1>1. writes[t] = 1 /\ writes'[t] = 0 /\ HoldersTypeOK'
  OBVIOUS
<1>2. Cardinality(Writers') = Cardinality(Writers) - 1 /\ Cardinality(Writers) \in Nat
  BY <1>1, CountHolders
<1>3. Cardinality(Writers') \in Nat /\ (Cardinality(Writers') = 0 => Writers' = {})
  BY PartOfThreads DEF Writers
<1>4. Cardinality(Writers) = 1 /\ Cardinality(Writers') = 0 /\ Writers' = {}
  BY <1>2, <1>3 DEF OneWriter
<1>5. Writers = {t} /\ Readers = {} /\ Readers' = {} /\ ReadLocks' = ReadLocks
  BY <1>1, <1>4 DEF Writers, Readers, WritersExcludeReaders, ReadLocks
<1>6. Abstract!ReleaseWrite(t)
  BY <1>1 DEF Abstract!ReleaseWrite
<1> QED
  BY <1>1, <1>4, <1>5, <1>6
-----------------------------------------------------------------------------
(* SpinLock.                                                               *)

\* The instance of the state of LockState is that state.
LEMMA SSame ==
    /\ \A A : S!Cardinality(A) = Cardinality(A)
    /\ \A t, label : S!Goto(t, label) <=> Goto(t, label)
    /\ \A t, label : S!Move(t, label) <=> Move(t, label)
    /\ \A t : S!Holds(t) <=> Holds(t)
    /\ S!Readers = Readers /\ S!Readers' = Readers'
    /\ S!Writers = Writers /\ S!Writers' = Writers'
    /\ \A t : S!MayLock(t) <=> MayLock(t)
    /\ \A t : S!GetWrite(t) <=> GetWrite(t)
    /\ \A t : S!DropWrite(t) <=> DropWrite(t)
    /\ \A loaded : S!InitUsers(loaded) <=> InitUsers(loaded)
    /\ \A labels : (S!UsersTypeOK(labels) <=> UsersTypeOK(labels)) /\ (S!UsersTypeOK(labels)' <=> UsersTypeOK(labels)')
BY DEF S!Cardinality, Cardinality, S!IsFiniteSet, IsFiniteSet, S!DropWrite, DropWrite, S!GetWrite, GetWrite, S!Goto, Goto, S!Holds, Holds, S!InitUsers, InitUsers, S!MayLock, MayLock, S!Move, Move, S!Readers, Readers, S!UsersTypeOK, UsersTypeOK, S!Writers, Writers

LEMMA SpinLockInit == S!Init => SpinLockInv
<1> SUFFICES ASSUME S!Init PROVE SpinLockInv
  OBVIOUS
<1> USE SSame DEF S!Init, InitUsers
<1>1. Writers = {} /\ Readers = {}
  BY DEF Writers, Readers
<1>2. S!TypeOK
  BY LockStateAssumption DEF S!TypeOK, UsersTypeOK, S!Labels
<1>3. S!WordIsExact
  BY <1>1, FS_EmptySet DEF S!WordIsExact
<1>4. InsideHoldsNothing
  BY DEF InsideHoldsNothing
<1> QED
  BY <1>1, <1>2, <1>3, <1>4 DEF SpinLockInv

LEMMA SpinLockStep ==
    ASSUME SpinLockInv, S!Next
    PROVE  SpinLockInv' /\ [Abstract!Next]_<<reads, writes>>
<1> USE SSame DEF SpinLockInv, S!TypeOK, UsersTypeOK, S!Labels, InsideHoldsNothing, HoldersTypeOK, S!WordIsExact
<1>1. PICK t \in Threads : S!TryLock(t) \/ S!LockFails(t) \/ S!Poll(t) \/ S!Unlock(t)
  BY DEF S!Next, S!Call
<1>2. CASE S!LockFails(t) \/ S!Poll(t)
  <2>1. UNCHANGED <<word, sema, reads, writes>> /\ \E label \in {"poll", "again"} : Goto(t, label)
    BY <1>2 DEF S!LockFails, S!Poll, Move
  <2>2. ~Holds(t)
    BY <1>2 DEF S!LockFails, S!Poll, MayLock
  <2> QED
    BY <2>1, <2>2, AfterMove DEF Goto, Holds
<1>3. CASE S!TryLock(t)
  <2>1. Writers = {} /\ word' = 1 /\ GetWrite(t) /\ sema' = sema
    BY <1>3, PartOfThreads DEF S!TryLock, Writers
  <2>2. HoldersTypeOK' /\ Abstract!AcquireWrite(t) /\ Readers' = {} /\ Writers' = {t} /\ Cardinality(Writers') = 1
    BY <2>1, AfterGetWrite
  <2> QED
    BY <2>1, <2>2 DEF GetWrite, Goto, Abstract!Next, Holds, Writers
<1>4. CASE S!Unlock(t)
  <2>1. OneWriter /\ WritersExcludeReaders /\ word' = 0 /\ DropWrite(t) /\ UNCHANGED <<sema, pc>>
    BY <1>4 DEF S!Unlock, OneWriter, WritersExcludeReaders
  <2>2. /\ HoldersTypeOK' /\ Abstract!ReleaseWrite(t) /\ Readers' = {} /\ Cardinality(Writers') = 0
        /\ Writers' = {}
    BY <2>1, AfterDropWrite
  <2> QED
    BY <2>1, <2>2 DEF Abstract!Next, Holds, Writers, Readers
<1> QED
  BY <1>1, <1>2, <1>3, <1>4
-----------------------------------------------------------------------------
(* RWSpinLock.                                                             *)

RWSpinLockInv ==
    /\ TypeOK /\ WordIsExact /\ OneWriter /\ WritersExcludeReaders
    /\ \A t \in Threads : pc[t] \in {"readBack", "readTryBack", "readPoll", "readAgain"} =>
            writes[t] = 0 /\ reads[t] < MaxReads

\* What readers have taken from the word, and writers, in units of kValueUnlocked.
ReadBacks == {"readBack", "readTryBack"}
WriteBacks == {"writeBack", "writeTryBack"}
OwedByReaders == Cardinality(At(ReadBacks))
OwedByWriters == Cardinality(At(WriteBacks))
USE DEF ReadBacks, WriteBacks, OwedByReaders, OwedByWriters, Owing
Taken == Cardinality(ReadLocks) + OwedByReaders
TakenWhole == Cardinality(Writers) + OwedByWriters
Left(r, w) == ValueUnlocked - r - ValueUnlocked * w

\* The arithmetic of the AtomicInt32.
LEMMA Remainder ==
    ASSUME NEW m \in Nat \ {0}, NEW q \in Int, NEW r \in 0 .. m - 1
    PROVE  (q * m + r) % m = r
OBVIOUS

LEMMA WrapAdds ==
    ASSUME NEW n \in Int, NEW k \in Int
    PROVE  Wrap(n) \in 0 .. WordModulus - 1 /\ Wrap(Wrap(n) + k) = Wrap(n + k)
<1>0. WordModulus \in Nat \ {0}
  BY WordAssumption, PartOfThreads, LockStateAssumption
<1>1. PICK q \in Int, r \in 0 .. WordModulus - 1 : n = q * WordModulus + r /\ n % WordModulus = r
  BY <1>0
<1>2. PICK p \in Int, s \in 0 .. WordModulus - 1 :
          r + k = p * WordModulus + s /\ (r + k) % WordModulus = s
  BY <1>0
<1>3. n + k = (q + p) * WordModulus + s /\ q + p \in Int
  BY <1>0, <1>1, <1>2
<1>4. (n + k) % WordModulus = s
  BY <1>0, <1>3, Remainder
<1> QED
  BY <1>1, <1>2, <1>4 DEF Wrap

\* A word that lacks less than kValueUnlocked for readers tells who has the lock.
LEMMA WordTells ==
    ASSUME NEW r \in Nat, NEW w \in Nat, r < ValueUnlocked, w <= Cardinality(Threads) + 1
    PROVE  /\ Wrap(Left(r, w) - 1) < ValueUnlocked <=> w = 0
           /\ Wrap(Left(r, w) - ValueUnlocked) = 0 <=> r = 0 /\ w = 0
<1> DEFINE Mod == WordModulus  C == Cardinality(Threads)  V == ValueUnlocked
<1>0. V \in Nat \ {0} /\ C \in Nat /\ Mod \in Nat \ {0} /\ Mod > 2 * V * (C + 1)
  BY WordAssumption, PartOfThreads, LockStateAssumption
<1> DEFINE m == V * w
<1>1. m \in Nat /\ (w = 0 => m = 0) /\ (w > 0 => m >= V) /\ m <= V * (C + 1) /\ Mod > 2 * (V * (C + 1))
  BY <1>0
<1>2. \A n \in Int : -Mod < n /\ n < Mod => n % Mod = IF n >= 0 THEN n ELSE n + Mod
  <2>1. ASSUME NEW n \in Int, n >= 0, n < Mod PROVE n % Mod = n
    BY <1>0, <2>1
  <2>2. ASSUME NEW n \in Int, -Mod < n, n < 0 PROVE n % Mod = n + Mod
    <3>1. n = (-1) * Mod + (n + Mod) /\ n + Mod \in 0 .. Mod - 1
      BY <1>0, <2>2
    <3> QED
      BY <1>0, <3>1, Remainder
  <2> QED
    BY <2>1, <2>2, <1>0
<1> HIDE DEF Mod, C, m
<1>3. Left(r, w) = V - r - m
  BY DEF Left, m
<1>4. V * (C + 1) >= V
  BY <1>0
<1>5. -Mod < V - r - m - 1 /\ V - r - m - 1 < Mod /\ -Mod < -r - m /\ -r - m < Mod
  BY <1>0, <1>1, <1>4
<1>6. Wrap(Left(r, w) - 1) = (V - r - m - 1) % Mod /\ Wrap(Left(r, w) - V) = (-r - m) % Mod
  BY <1>0, <1>1, <1>3 DEF Wrap, Mod
<1>7. (V - r - m - 1) % Mod < V <=> w = 0
  BY <1>0, <1>1, <1>2, <1>4, <1>5
<1>8. (-r - m) % Mod = 0 <=> r = 0 /\ w = 0
  BY <1>0, <1>1, <1>2, <1>5
<1> QED
  BY <1>6, <1>7, <1>8

\* Every reader owes less than kValueUnlocked, all together.
LEMMA TakenIsBounded ==
    ASSUME RWSpinLockInv
    PROVE  /\ Taken \in Nat /\ TakenWhole \in Nat
           /\ Taken < ValueUnlocked /\ TakenWhole <= Cardinality(Threads) + 1
           /\ Taken = 0 => Readers = {}
           /\ TakenWhole = 0 => Writers = {}
<1> DEFINE back == At(ReadBacks)
           owed == back \X {MaxReads}
<1> USE DEF RWSpinLockInv, TypeOK, UsersTypeOK
<1>1. IsFiniteSet(back) /\ Cardinality(back) \in Nat /\ back \subseteq Threads
  BY PartOfThreads DEF At
<1>2. IsFiniteSet(owed) /\ Cardinality(owed) = Cardinality(back)
  <2>1. IsFiniteSet({MaxReads}) /\ Cardinality({MaxReads}) = 1
    BY FS_Singleton
  <2> QED
    BY <1>1, <2>1, FS_Product
<1>3. IsFiniteSet(ReadLocks) /\ Cardinality(ReadLocks) \in Nat /\ (Cardinality(ReadLocks) = 0 => Readers = {})
  BY LocksAreFinite
<1>4. ReadLocks \cap owed = {}
  BY LockStateAssumption DEF ReadLocks, At
<1>5. Cardinality(ReadLocks \cup owed) = Cardinality(ReadLocks) + Cardinality(owed)
  <2>1. Cardinality(ReadLocks \cap owed) = 0
    BY <1>4, FS_EmptySet
  <2>2. Cardinality(ReadLocks \cup owed)
            = Cardinality(ReadLocks) + Cardinality(owed) - Cardinality(ReadLocks \cap owed)
    BY <1>2, <1>3, FS_Union
  <2> HIDE DEF owed
  <2> QED
    BY <1>1, <1>2, <1>3, <2>1, <2>2
<1>6. ReadLocks \cup owed \subseteq Threads \X (1 .. MaxReads)
  BY <1>1, LockStateAssumption DEF ReadLocks
<1>7. /\ IsFiniteSet(Threads \X (1 .. MaxReads))
      /\ Cardinality(Threads \X (1 .. MaxReads)) = Cardinality(Threads) * MaxReads
  <2>1. IsFiniteSet(1 .. MaxReads) /\ Cardinality(1 .. MaxReads) = MaxReads
    BY ONLY SizeOfRange, LockStateAssumption
  <2>2. IsFiniteSet(Threads)
    BY LockStateAssumption
  <2> QED
    BY ONLY <2>1, <2>2, FS_Product
<1>8. Cardinality(ReadLocks) + Cardinality(back) <= Cardinality(Threads) * MaxReads
  BY <1>2, <1>5, <1>6, <1>7, FS_Subset
<1>9. Taken < ValueUnlocked
  BY <1>1, <1>3, <1>8, WordAssumption, LockStateAssumption, PartOfThreads DEF Taken, Owing
<1>10. /\ Cardinality(Writers) \in Nat /\ Cardinality(Writers) <= 1 /\ (Cardinality(Writers) = 0 => Writers = {})
       /\ OwedByWriters \in Nat
       /\ OwedByWriters <= Cardinality(Threads)
       /\ Cardinality(Threads) \in Nat
  BY PartOfThreads DEF At, Owing, Writers, OneWriter
<1> QED
  BY <1>1, <1>3, <1>9, <1>10 DEF Taken, TakenWhole, Owing

\* What the word becomes by an addition, and what the thread learns from it.
LEMMA WordMoves ==
    ASSUME RWSpinLockInv
    PROVE  /\ word = Wrap(Left(Taken, TakenWhole))
           /\ Wrap(word - 1) = Wrap(Left(Taken + 1, TakenWhole))
           /\ Wrap(word + 1) = Wrap(Left(Taken - 1, TakenWhole))
           /\ Wrap(word - ValueUnlocked) = Wrap(Left(Taken, TakenWhole + 1))
           /\ Wrap(word + ValueUnlocked) = Wrap(Left(Taken, TakenWhole - 1))
           /\ Wrap(word - 1) < ValueUnlocked <=> TakenWhole = 0
           /\ Wrap(word - ValueUnlocked) = 0 <=> Taken = 0 /\ TakenWhole = 0
           /\ \A n \in Int : Wrap(word + n) \in 0 .. WordModulus - 1
<1>1. Taken \in Nat /\ TakenWhole \in Nat /\ ValueUnlocked \in Nat
  BY TakenIsBounded, WordAssumption
<1>2. Left(Taken, TakenWhole) \in Int
  BY <1>1 DEF Left
<1>3. word = Wrap(Left(Taken, TakenWhole))
  BY DEF RWSpinLockInv, WordIsExact, Left, Taken, TakenWhole
<1>4. \A n \in Int : /\ Wrap(word + n) = Wrap(Left(Taken, TakenWhole) + n)
                     /\ Wrap(word + n) \in 0 .. WordModulus - 1
  <2>1. word \in Int
    BY <1>2, <1>3, WrapAdds
  <2>2. ASSUME NEW n \in Int
        PROVE  Wrap(word + n) = Wrap(Left(Taken, TakenWhole) + n) /\ Wrap(word + n) \in 0 .. WordModulus - 1
    <3>1. Wrap(Wrap(Left(Taken, TakenWhole)) + n) = Wrap(Left(Taken, TakenWhole) + n)
      BY <1>2, WrapAdds
    <3>2. word + n \in Int
      BY <2>1
    <3>3. Wrap(word + n) \in 0 .. WordModulus - 1
      BY <3>2, WrapAdds
    <3> QED
      BY <1>3, <3>1, <3>3
  <2> QED
    BY <2>2
<1>5. /\ Left(Taken, TakenWhole) + (-1) = Left(Taken + 1, TakenWhole)
      /\ Left(Taken, TakenWhole) + 1 = Left(Taken - 1, TakenWhole)
      /\ Left(Taken, TakenWhole) + (-ValueUnlocked) = Left(Taken, TakenWhole + 1)
      /\ Left(Taken, TakenWhole) + ValueUnlocked = Left(Taken, TakenWhole - 1)
  BY <1>1 DEF Left
<1>6. word \in Int /\ word - 1 = word + (-1) /\ word - ValueUnlocked = word + (-ValueUnlocked)
  BY <1>1 DEF RWSpinLockInv, TypeOK
<1>7. /\ Left(Taken, TakenWhole) + (-1) = Left(Taken, TakenWhole) - 1
      /\ Left(Taken, TakenWhole) + (-ValueUnlocked) = Left(Taken, TakenWhole) - ValueUnlocked
  BY <1>1, <1>2
<1>8. /\ Wrap(Left(Taken, TakenWhole) - 1) < ValueUnlocked <=> TakenWhole = 0
      /\ Wrap(Left(Taken, TakenWhole) - ValueUnlocked) = 0 <=> Taken = 0 /\ TakenWhole = 0
  BY TakenIsBounded, WordTells
<1> QED
  BY <1>1, <1>3, <1>4, <1>5, <1>6, <1>7, <1>8

LEMMA RWSpinLockInit == Init => RWSpinLockInv
<1> SUFFICES ASSUME Init PROVE RWSpinLockInv
  OBVIOUS
<1> USE DEF Init, InitUsers
<1>1. Writers = {} /\ Readers = {} /\ At(ReadBacks) = {} /\ At(WriteBacks) = {}
  BY DEF Writers, Readers, At
<1>2. ReadLocks = {}
  BY LockStateAssumption DEF ReadLocks
<1>3. TypeOK
  BY LockStateAssumption, WordAssumption, PartOfThreads DEF TypeOK, UsersTypeOK, Labels
<1>4. WordIsExact
  <2>1. /\ Cardinality(ReadLocks) = 0 /\ OwedByReaders = 0
        /\ Cardinality(Writers) = 0 /\ OwedByWriters = 0
    BY <1>1, <1>2, FS_EmptySet DEF Owing
  <2>2. ValueUnlocked \in 0 .. WordModulus - 1 /\ WordModulus \in Nat \ {0}
    BY <1>3, WordAssumption DEF TypeOK
  <2>3. word = 0 * WordModulus + ValueUnlocked /\ word % WordModulus = ValueUnlocked
    BY <2>2, Remainder
  <2>4. ValueUnlocked - (0 + 0) - ValueUnlocked * (0 + 0) = word
    BY <2>2
  <2> QED
    BY <2>1, <2>3, <2>4 DEF WordIsExact, Wrap
<1>5. OneWriter /\ WritersExcludeReaders
  BY <1>1, FS_EmptySet DEF OneWriter, WritersExcludeReaders
<1> QED
  BY <1>3, <1>4, <1>5 DEF RWSpinLockInv

\* What must be shown of a step in which thread t alone moves.
LEMMA RWSpinLockKeeps ==
    ASSUME RWSpinLockInv, NEW t \in Threads, NEW label \in Labels,
           pc' = [pc EXCEPT ![t] = label], sema' = sema, HoldersTypeOK',
           \A u \in Threads \ {t} : reads'[u] = reads[u] /\ writes'[u] = writes[u],
           label \in {"readBack", "readTryBack", "readPoll", "readAgain"} => writes'[t] = 0 /\ reads'[t] < MaxReads,
           word' \in 0 .. WordModulus - 1, word' = Wrap(Left(Taken', TakenWhole')),
           OneWriter', WritersExcludeReaders'
    PROVE  RWSpinLockInv'
<1> USE DEF RWSpinLockInv, TypeOK, UsersTypeOK, HoldersTypeOK
<1>1. TypeOK'
  OBVIOUS
<1>2. WordIsExact'
  BY DEF WordIsExact, Left, Taken, TakenWhole
<1>3. ASSUME NEW u \in Threads, pc'[u] \in {"readBack", "readTryBack", "readPoll", "readAgain"}
      PROVE  writes'[u] = 0 /\ reads'[u] < MaxReads
  BY <1>3
<1> QED
  BY <1>1, <1>2, <1>3

\* How the amounts that failed attempts owe change.
LEMMA OwingMoves ==
    ASSUME NEW t \in Threads, \A u \in Threads \ {t} : pc'[u] = pc[u]
    PROVE  /\ OwedByReaders' = OwedByReaders
                  + (IF pc'[t] \in ReadBacks THEN 1 ELSE 0) - (IF pc[t] \in ReadBacks THEN 1 ELSE 0)
           /\ OwedByWriters' = OwedByWriters
                  + (IF pc'[t] \in WriteBacks THEN 1 ELSE 0) - (IF pc[t] \in WriteBacks THEN 1 ELSE 0)
           /\ OwedByReaders \in Nat /\ OwedByWriters \in Nat
           /\ (pc[t] \in ReadBacks => OwedByReaders > 0)
           /\ (pc[t] \in WriteBacks => OwedByWriters > 0)
<1>2. OwedByReaders' = Cardinality(At(ReadBacks)') /\ OwedByWriters' = Cardinality(At(WriteBacks)')
  BY DEF Owing
<1> QED
  BY <1>2, CountAt DEF Owing

HIDE DEF ReadBacks, WriteBacks, OwedByReaders, OwedByWriters, Owing

LEMMA RWTakeRead ==
    ASSUME RWSpinLockInv, NEW t \in Threads, NEW back \in ReadBacks, TakeRead(t, back),
           writes[t] = 0, reads[t] < MaxReads, pc[t] \in {"idle", "readAgain"}
    PROVE  RWSpinLockInv' /\ [Abstract!Next]_<<reads, writes>>
<1> USE DEF TakeRead
<1>0. /\ word' = Wrap(Left(Taken + 1, TakenWhole)) /\ word' \in 0 .. WordModulus - 1
      /\ word' < ValueUnlocked <=> TakenWhole = 0
      /\ Taken \in Nat /\ TakenWhole \in Nat
      /\ TakenWhole = 0 => Writers = {}
  <2>1. Wrap(word + (-1)) \in 0 .. WordModulus - 1 /\ word + (-1) = word - 1
    BY WordMoves DEF RWSpinLockInv, TypeOK
  <2> QED
    BY <2>1, WordMoves, TakenIsBounded
<1>1. CASE word' < ValueUnlocked
  <2>1. GetRead(t) /\ Writers = {} /\ HoldersTypeOK /\ sema' = sema /\ TakenWhole = 0
    BY <1>0, <1>1 DEF RWSpinLockInv, TypeOK, UsersTypeOK, HoldersTypeOK
  <2>2. /\ HoldersTypeOK' /\ Abstract!AcquireRead(t) /\ Writers' = {}
        /\ Cardinality(ReadLocks') = Cardinality(ReadLocks) + 1 /\ Cardinality(ReadLocks) \in Nat
    BY <2>1, AfterGetRead
  <2>3. pc' = [pc EXCEPT ![t] = "idle"] /\ \A u \in Threads \ {t} : reads'[u] = reads[u] /\ writes'[u] = writes[u]
    BY <2>1 DEF GetRead, Goto, HoldersTypeOK
  <2>4. /\ OwedByReaders' = OwedByReaders
        /\ OwedByWriters' = OwedByWriters
        /\ OwedByReaders \in Nat /\ OwedByWriters \in Nat
    <3>1. "idle" \notin ReadBacks \cup WriteBacks /\ pc[t] \notin ReadBacks \cup WriteBacks
      BY DEF ReadBacks, WriteBacks
    <3>2. pc'[t] = "idle" /\ \A u \in Threads \ {t} : pc'[u] = pc[u]
      BY <2>3 DEF RWSpinLockInv, TypeOK, UsersTypeOK
    <3> QED
      BY <3>1, <3>2, OwingMoves
  <2>5. Taken' = Taken + 1 /\ TakenWhole' = TakenWhole
    BY <2>1, <2>2, <2>4 DEF Taken, TakenWhole
  <2>6. OneWriter' /\ WritersExcludeReaders'
    BY <2>2, FS_EmptySet DEF OneWriter, WritersExcludeReaders
  <2>7. RWSpinLockInv'
    BY <1>0, <2>1, <2>2, <2>3, <2>5, <2>6, RWSpinLockKeeps DEF Labels
  <2> QED
    BY <2>2, <2>7 DEF Abstract!Next
<1>2. CASE ~(word' < ValueUnlocked)
  <2>1. pc' = [pc EXCEPT ![t] = back] /\ UNCHANGED <<reads, writes, sema>>
    BY <1>2 DEF Goto
  <2>2. OwedByReaders' = OwedByReaders + 1
        /\ OwedByWriters' = OwedByWriters
        /\ OwedByReaders \in Nat /\ OwedByWriters \in Nat
    <3>1. back \in ReadBacks \ WriteBacks /\ pc[t] \notin ReadBacks \cup WriteBacks
      BY DEF ReadBacks, WriteBacks
    <3>2. pc'[t] = back /\ \A u \in Threads \ {t} : pc'[u] = pc[u]
      BY <2>1 DEF RWSpinLockInv, TypeOK, UsersTypeOK
    <3> QED
      BY <3>1, <3>2, OwingMoves
  <2>3. Cardinality(ReadLocks) \in Nat /\ ReadLocks' = ReadLocks /\ Writers' = Writers /\ Readers' = Readers
    BY <2>1, AfterMove, LocksAreFinite DEF RWSpinLockInv, TypeOK, UsersTypeOK
  <2>4. Taken' = Taken + 1 /\ TakenWhole' = TakenWhole
    BY <2>2, <2>3 DEF Taken, TakenWhole
  <2>5. OneWriter' /\ WritersExcludeReaders'
    BY <2>3 DEF OneWriter, WritersExcludeReaders, RWSpinLockInv
  <2>6. RWSpinLockInv'
    BY <1>0, <2>1, <2>4, <2>5, RWSpinLockKeeps DEF Labels, RWSpinLockInv, TypeOK, UsersTypeOK, HoldersTypeOK, ReadBacks
  <2> QED
    BY <2>1, <2>6
<1> QED
  BY <1>1, <1>2

\* A step that takes or undoes no lock.
LEMMA RWSpinLockMoves ==
    ASSUME RWSpinLockInv, NEW t \in Threads, NEW label \in Labels,
           Goto(t, label), UNCHANGED <<sema, reads, writes>>,
           label \in {"readBack", "readTryBack", "readPoll", "readAgain"} => writes[t] = 0 /\ reads[t] < MaxReads
    PROVE  /\ Taken' = Taken + (IF label \in ReadBacks THEN 1 ELSE 0) - (IF pc[t] \in ReadBacks THEN 1 ELSE 0)
           /\ TakenWhole' = TakenWhole + (IF label \in WriteBacks THEN 1 ELSE 0) - (IF pc[t] \in WriteBacks THEN 1 ELSE 0)
           /\ Taken \in Nat /\ TakenWhole \in Nat
           /\ word' \in 0 .. WordModulus - 1 /\ word' = Wrap(Left(Taken', TakenWhole')) => RWSpinLockInv'
<1>1. pc'[t] = label /\ pc' = [pc EXCEPT ![t] = label] /\ \A u \in Threads \ {t} : pc'[u] = pc[u]
  BY DEF Goto, RWSpinLockInv, TypeOK, UsersTypeOK
<1>2. Cardinality(ReadLocks) \in Nat /\ Cardinality(Writers) \in Nat
  BY LocksAreFinite, PartOfThreads DEF RWSpinLockInv, TypeOK, UsersTypeOK, Writers
<1>3. ReadLocks' = ReadLocks /\ Writers' = Writers /\ Readers' = Readers
  BY AfterMove
<1>4. /\ OwedByReaders' = OwedByReaders
            + (IF label \in ReadBacks THEN 1 ELSE 0) - (IF pc[t] \in ReadBacks THEN 1 ELSE 0)
      /\ OwedByWriters' = OwedByWriters
            + (IF label \in WriteBacks THEN 1 ELSE 0) - (IF pc[t] \in WriteBacks THEN 1 ELSE 0)
      /\ OwedByReaders \in Nat /\ OwedByWriters \in Nat
  BY <1>1, OwingMoves
<1>5. /\ Taken' = Taken + (IF label \in ReadBacks THEN 1 ELSE 0) - (IF pc[t] \in ReadBacks THEN 1 ELSE 0)
      /\ TakenWhole' = TakenWhole + (IF label \in WriteBacks THEN 1 ELSE 0) - (IF pc[t] \in WriteBacks THEN 1 ELSE 0)
      /\ Taken \in Nat /\ TakenWhole \in Nat
  BY <1>2, <1>3, <1>4 DEF Taken, TakenWhole
<1>6. OneWriter' /\ WritersExcludeReaders' /\ HoldersTypeOK'
  BY <1>3 DEF OneWriter, WritersExcludeReaders, HoldersTypeOK, RWSpinLockInv, TypeOK, UsersTypeOK
<1>7. word' \in 0 .. WordModulus - 1 /\ word' = Wrap(Left(Taken', TakenWhole')) => RWSpinLockInv'
  BY <1>1, <1>6, RWSpinLockKeeps
<1> QED
  BY <1>5, <1>7

LEMMA RWTakeWrite ==
    ASSUME RWSpinLockInv, NEW t \in Threads, NEW back \in {"writeBack", "writeTryBack"}, TakeWrite(t, back),
           pc[t] \in {"idle", "writeAgain"}
    PROVE  RWSpinLockInv' /\ [Abstract!Next]_<<reads, writes>>
<1> USE DEF TakeWrite
<1>0. /\ word' = Wrap(Left(Taken, TakenWhole + 1)) /\ word' \in 0 .. WordModulus - 1
      /\ word' = 0 <=> Taken = 0 /\ TakenWhole = 0
      /\ Taken \in Nat /\ TakenWhole \in Nat
      /\ Taken = 0 => Readers = {}
      /\ TakenWhole = 0 => Writers = {}
  <2>1. Wrap(word + (-ValueUnlocked)) \in 0 .. WordModulus - 1 /\ word + (-ValueUnlocked) = word - ValueUnlocked
    BY WordMoves, WordAssumption DEF RWSpinLockInv, TypeOK
  <2> QED
    BY <2>1, WordMoves, TakenIsBounded
<1>1. back \in WriteBacks \ ReadBacks /\ "idle" \notin ReadBacks \cup WriteBacks
      /\ pc[t] \notin ReadBacks \cup WriteBacks /\ back \in Labels
  BY DEF ReadBacks, WriteBacks, Labels
<1>2. CASE word' = 0
  <2>1. GetWrite(t) /\ Writers = {} /\ Readers = {} /\ HoldersTypeOK /\ sema' = sema
    BY <1>0, <1>2 DEF RWSpinLockInv, TypeOK, UsersTypeOK, HoldersTypeOK
  <2>2. /\ HoldersTypeOK' /\ Abstract!AcquireWrite(t) /\ Writers' = {t} /\ Readers' = {}
        /\ Cardinality(Writers) = 0 /\ Cardinality(Writers') = 1
    BY <2>1, AfterGetWrite
  <2>3. /\ pc' = [pc EXCEPT ![t] = "idle"] /\ \A u \in Threads \ {t} : reads'[u] = reads[u] /\ writes'[u] = writes[u]
        /\ ReadLocks' = ReadLocks
    BY <2>1 DEF GetWrite, Goto, HoldersTypeOK, ReadLocks
  <2>4. OwedByReaders' = OwedByReaders /\ OwedByWriters' = OwedByWriters
        /\ OwedByReaders \in Nat /\ OwedByWriters \in Nat
    <3>1. pc'[t] = "idle" /\ \A u \in Threads \ {t} : pc'[u] = pc[u]
      BY <2>3 DEF RWSpinLockInv, TypeOK, UsersTypeOK
    <3> QED
      BY <1>1, <3>1, OwingMoves
  <2>5. Taken' = Taken /\ TakenWhole' = TakenWhole + 1
    BY <2>2, <2>3, <2>4 DEF Taken, TakenWhole
  <2>6. OneWriter' /\ WritersExcludeReaders'
    BY <2>2 DEF OneWriter, WritersExcludeReaders
  <2>7. RWSpinLockInv'
    BY <1>0, <2>1, <2>2, <2>3, <2>5, <2>6, RWSpinLockKeeps DEF Labels
  <2> QED
    BY <2>2, <2>7 DEF Abstract!Next
<1>3. CASE ~(word' = 0)
  <2>1. Goto(t, back) /\ UNCHANGED <<reads, writes, sema>>
    BY <1>3
  <2>2. Taken' = Taken /\ TakenWhole' = TakenWhole + 1
        /\ (word' \in 0 .. WordModulus - 1 /\ word' = Wrap(Left(Taken', TakenWhole')) => RWSpinLockInv')
    BY <1>1, <2>1, RWSpinLockMoves
  <2> QED
    BY <1>0, <2>1, <2>2
<1> QED
  BY <1>2, <1>3

LEMMA RWPutBack ==
    ASSUME RWSpinLockInv, NEW t \in Threads, ReadFails(t) \/ WriteFails(t)
    PROVE  RWSpinLockInv' /\ UNCHANGED <<reads, writes>>
<1>0. PICK n \in Int, label \in {"readPoll", "idle", "writePoll"} :
        /\ PutBack(t, n, label)
        /\ \/ n = 1 /\ pc[t] \in ReadBacks /\ label # "writePoll"
           \/ n = ValueUnlocked /\ pc[t] \in WriteBacks /\ label # "readPoll"
  BY WordAssumption DEF ReadFails, WriteFails, ReadBacks, WriteBacks
<1>1. Goto(t, label) /\ UNCHANGED <<sema, reads, writes>> /\ word' = Wrap(word + n)
  BY <1>0 DEF PutBack
<1>2. word' \in 0 .. WordModulus - 1 /\ ReadBacks \cap WriteBacks = {} /\ label \notin ReadBacks \cup WriteBacks
      /\ label \in Labels
  BY <1>1, WordMoves DEF ReadBacks, WriteBacks, Labels
<1>3. label \in {"readBack", "readTryBack", "readPoll", "readAgain"} => writes[t] = 0 /\ reads[t] < MaxReads
  BY <1>0 DEF RWSpinLockInv, ReadBacks
<1>4. /\ Taken' = Taken - (IF pc[t] \in ReadBacks THEN 1 ELSE 0)
      /\ TakenWhole' = TakenWhole - (IF pc[t] \in WriteBacks THEN 1 ELSE 0)
      /\ Taken \in Nat /\ TakenWhole \in Nat
      /\ word' \in 0 .. WordModulus - 1 /\ word' = Wrap(Left(Taken', TakenWhole')) => RWSpinLockInv'
  BY <1>1, <1>2, <1>3, RWSpinLockMoves
<1>5. CASE pc[t] \in ReadBacks /\ n = 1
  <2>1. Taken' = Taken - 1 /\ TakenWhole' = TakenWhole
    BY <1>2, <1>4, <1>5
  <2>2. word' = Wrap(Left(Taken', TakenWhole'))
    BY <1>1, <1>5, <2>1, WordMoves
  <2> QED
    BY <1>1, <1>2, <1>4, <2>2
<1>6. CASE pc[t] \in WriteBacks /\ n = ValueUnlocked
  <2>1. Taken' = Taken /\ TakenWhole' = TakenWhole - 1
    BY <1>2, <1>4, <1>6
  <2>2. word' = Wrap(Left(Taken', TakenWhole'))
    BY <1>1, <1>6, <2>1, WordMoves
  <2> QED
    BY <1>1, <1>2, <1>4, <2>2
<1> QED
  BY <1>0, <1>5, <1>6

LEMMA RWPoll ==
    ASSUME RWSpinLockInv, NEW t \in Threads, ReadPoll(t) \/ WritePoll(t)
    PROVE  RWSpinLockInv' /\ UNCHANGED <<reads, writes>>
<1>0. PICK label \in {"readAgain", "writeAgain"} : Move(t, label) /\ (label = "readAgain" <=> pc[t] = "readPoll")
        /\ pc[t] \in {"readPoll", "writePoll"}
  BY DEF ReadPoll, WritePoll
<1>1. label \notin ReadBacks \cup WriteBacks /\ pc[t] \notin ReadBacks \cup WriteBacks /\ label \in Labels
  BY <1>0 DEF ReadBacks, WriteBacks, Labels
<1>2. Goto(t, label) /\ UNCHANGED <<sema, reads, writes, word>>
  BY <1>0 DEF Move
<1>3. label \in {"readBack", "readTryBack", "readPoll", "readAgain"} => writes[t] = 0 /\ reads[t] < MaxReads
  BY <1>0 DEF RWSpinLockInv
<1>4. Taken' = Taken /\ TakenWhole' = TakenWhole
      /\ (word' \in 0 .. WordModulus - 1 /\ word' = Wrap(Left(Taken', TakenWhole')) => RWSpinLockInv')
  BY <1>1, <1>2, <1>3, RWSpinLockMoves
<1>5. word = Wrap(Left(Taken, TakenWhole)) /\ word \in 0 .. WordModulus - 1
  BY WordMoves DEF RWSpinLockInv, TypeOK
<1> QED
  BY <1>2, <1>4, <1>5

LEMMA RWSpinUnlock ==
    ASSUME RWSpinLockInv, NEW t \in Threads, Unlock(t)
    PROVE  RWSpinLockInv' /\ [Abstract!Next]_<<reads, writes>>
<1>0. HoldersTypeOK /\ OneWriter /\ WritersExcludeReaders /\ pc[t] = "idle" /\ UNCHANGED <<sema, pc>>
  BY DEF RWSpinLockInv, TypeOK, UsersTypeOK, HoldersTypeOK, Unlock, ReadUnlock, WriteUnlock
<1>1. pc' = [pc EXCEPT ![t] = "idle"] /\ "idle" \in Labels
  BY <1>0 DEF RWSpinLockInv, TypeOK, UsersTypeOK, Labels
<1>2. OwedByReaders' = OwedByReaders /\ OwedByWriters' = OwedByWriters
      /\ OwedByReaders \in Nat /\ OwedByWriters \in Nat
  BY <1>0, OwingMoves
<1>3. \A n \in {1, ValueUnlocked} : Wrap(word + n) \in 0 .. WordModulus - 1
  BY WordMoves, WordAssumption
<1>4. CASE ReadUnlock(t)
  <2>1. DropRead(t) /\ word' = Wrap(word + 1)
    BY <1>4 DEF ReadUnlock
  <2>2. /\ HoldersTypeOK' /\ Abstract!ReleaseRead(t) /\ Writers' = Writers /\ Readers' \subseteq Readers
        /\ Cardinality(ReadLocks') = Cardinality(ReadLocks) - 1 /\ Cardinality(ReadLocks) \in Nat
    BY <1>0, <2>1, AfterDropRead
  <2>3. Taken' = Taken - 1 /\ TakenWhole' = TakenWhole
    BY <1>2, <2>2 DEF Taken, TakenWhole
  <2>4. word' = Wrap(Left(Taken', TakenWhole')) /\ word' \in 0 .. WordModulus - 1
    BY <1>3, <2>1, <2>3, WordMoves
  <2>5. OneWriter' /\ WritersExcludeReaders'
    BY <1>0, <2>2 DEF OneWriter, WritersExcludeReaders
  <2>6. \A u \in Threads \ {t} : reads'[u] = reads[u] /\ writes'[u] = writes[u]
    BY <1>0, <2>1 DEF DropRead, HoldersTypeOK
  <2>7. RWSpinLockInv'
    BY <1>0, <1>1, <2>2, <2>4, <2>5, <2>6, RWSpinLockKeeps
  <2> QED
    BY <2>2, <2>7 DEF Abstract!Next
<1>5. CASE WriteUnlock(t)
  <2>1. DropWrite(t) /\ word' = Wrap(word + ValueUnlocked)
    BY <1>5 DEF WriteUnlock
  <2>2. /\ HoldersTypeOK' /\ Abstract!ReleaseWrite(t) /\ Writers' = {} /\ Readers' = {}
        /\ ReadLocks' = ReadLocks /\ Cardinality(Writers) = 1 /\ Cardinality(Writers') = 0
    BY <1>0, <2>1, AfterDropWrite
  <2>3. Taken' = Taken /\ TakenWhole' = TakenWhole - 1
    BY <1>2, <2>2 DEF Taken, TakenWhole
  <2>4. word' = Wrap(Left(Taken', TakenWhole')) /\ word' \in 0 .. WordModulus - 1
    BY <1>3, <2>1, <2>3, WordMoves
  <2>5. OneWriter' /\ WritersExcludeReaders'
    BY <2>2 DEF OneWriter, WritersExcludeReaders
  <2>6. \A u \in Threads \ {t} : reads'[u] = reads[u] /\ writes'[u] = writes[u]
    BY <1>0, <2>1 DEF DropWrite, HoldersTypeOK
  <2>7. RWSpinLockInv'
    BY <1>0, <1>1, <2>2, <2>4, <2>5, <2>6, RWSpinLockKeeps
  <2> QED
    BY <2>2, <2>7 DEF Abstract!Next
<1> QED
  BY <1>4, <1>5 DEF Unlock

LEMMA RWSpinLockStep ==
    ASSUME RWSpinLockInv, Next
    PROVE  RWSpinLockInv' /\ [Abstract!Next]_<<reads, writes>>
<1>1. PICK t \in Threads : Call(t) \/ Unlock(t) \/ ReadFails(t) \/ ReadPoll(t) \/ WriteFails(t) \/ WritePoll(t)
  BY DEF Next
<1>2. CASE ReadLock(t)
  <2>1. writes[t] = 0 /\ reads[t] < MaxReads
    BY <1>2 DEF ReadLock, MayReadAgain, RWSpinLockInv
  <2> QED
    BY <1>2, <2>1, RWTakeRead DEF ReadLock, MayReadAgain, ReadBacks
<1>3. CASE ReadTryLock(t)
  BY <1>3, RWTakeRead DEF ReadTryLock, MayReadAgain, ReadBacks
<1>4. CASE WriteLock(t)
  BY <1>4, RWTakeWrite DEF WriteLock, MayLock
<1>5. CASE WriteTryLock(t)
  BY <1>5, RWTakeWrite DEF WriteTryLock
<1>6. CASE Unlock(t)
  BY <1>6, RWSpinUnlock
<1>7. CASE ReadFails(t) \/ WriteFails(t)
  BY <1>7, RWPutBack
<1>8. CASE ReadPoll(t) \/ WritePoll(t)
  BY <1>8, RWPoll
<1> QED
  BY <1>1, <1>2, <1>3, <1>4, <1>5, <1>6, <1>7, <1>8 DEF Call, TryCall
-----------------------------------------------------------------------------
(* RWSpinLockW.                                                            *)

LEMMA WSame ==
    /\ \A A : W!Cardinality(A) = Cardinality(A)
    /\ \A t, label : W!Goto(t, label) <=> Goto(t, label)
    /\ \A t, label : W!Move(t, label) <=> Move(t, label)
    /\ \A L : W!At(L) = At(L) /\ W!At(L)' = At(L)'
    /\ \A t : W!Holds(t) <=> Holds(t)
    /\ W!Readers = Readers /\ W!Readers' = Readers'
    /\ W!Writers = Writers /\ W!Writers' = Writers'
    /\ \A t : W!MayLock(t) <=> MayLock(t)
    /\ \A t : W!GetRead(t) <=> GetRead(t)
    /\ \A t : W!GetWrite(t) <=> GetWrite(t)
    /\ \A t : W!DropRead(t) <=> DropRead(t)
    /\ \A t : W!DropWrite(t) <=> DropWrite(t)
    /\ \A loaded : W!InitUsers(loaded) <=> InitUsers(loaded)
    /\ \A labels : (W!UsersTypeOK(labels) <=> UsersTypeOK(labels)) /\ (W!UsersTypeOK(labels)' <=> UsersTypeOK(labels)')
BY DEF W!At, At, W!Cardinality, Cardinality, W!DropRead, DropRead, W!DropWrite, DropWrite,
   W!GetRead, GetRead, W!GetWrite, GetWrite, W!Goto, Goto, W!Holds, Holds, W!InitUsers, InitUsers,
   W!IsFiniteSet, IsFiniteSet, W!MayLock, MayLock, W!Move, Move, W!Readers, Readers, W!UsersTypeOK,
   UsersTypeOK, W!Writers, Writers

\* A thread that tries to take the lock has seen it free, whatever it is now.
RWSpinLockWInv ==
    /\ W!TypeOK /\ W!WordIsExact /\ OneWriter /\ WritersExcludeReaders /\ InsideHoldsNothing
    /\ ReadsOnce
    /\ \A t \in Threads : pc[t] \in {"readCas", "readTry"} => W!WriteFree(seen[t])
    /\ \A t \in Threads : pc[t] \in {"writeCas", "writeTry"} => W!Free(seen[t])

Spinning == At({"writeSpin"})

LEMMA RWSpinLockWInit == W!Init => RWSpinLockWInv
<1> SUFFICES ASSUME W!Init PROVE RWSpinLockWInv
  OBVIOUS
<1> USE WSame DEF W!Init, InitUsers
<1>1. Writers = {} /\ Readers = {} /\ At({"writeSpin"}) = {} /\ Cardinality({}) = 0
  BY FS_EmptySet DEF Writers, Readers, At
<1>2. W!TypeOK
  <2>1. W!Unlocked \in W!Words /\ 0 \in 0 .. MaxReads
    BY LockStateAssumption, ThreadCount DEF W!Words, W!Unlocked
  <2> QED
    BY <2>1 DEF W!TypeOK, UsersTypeOK, W!Labels
<1>3. W!WordIsExact
  BY <1>1 DEF W!WordIsExact, W!Unlocked
<1>4. OneWriter /\ WritersExcludeReaders /\ InsideHoldsNothing /\ ReadsOnce
  BY <1>1 DEF OneWriter, WritersExcludeReaders, InsideHoldsNothing, ReadsOnce
<1> QED
  BY <1>2, <1>3, <1>4 DEF RWSpinLockWInv

\* What must be shown of a step in which thread t alone moves.
LEMMA RWSpinLockWKeeps ==
    ASSUME RWSpinLockWInv, NEW t \in Threads, NEW label \in W!Labels, NEW loaded \in W!Words,
           pc' = [pc EXCEPT ![t] = label], seen' = [seen EXCEPT ![t] = loaded], sema' = sema,
           HoldersTypeOK', OneWriter', WritersExcludeReaders',
           \A u \in Threads \ {t} : reads'[u] = reads[u] /\ writes'[u] = writes[u],
           reads'[t] <= 1, label # "idle" => reads'[t] = 0 /\ writes'[t] = 0,
           label \in {"readCas", "readTry"} => W!WriteFree(loaded),
           label \in {"writeCas", "writeTry"} => W!Free(loaded),
           word' = [writer |-> word'.writer, waiting |-> word'.waiting, readers |-> word'.readers],
           word'.writer \in BOOLEAN, word'.writer <=> Writers' # {},
           word'.readers = Cardinality(Readers'), word'.waiting = Cardinality(Spinning')
    PROVE  RWSpinLockWInv'
<1> USE WSame DEF RWSpinLockWInv
<1>1. /\ Cardinality(Readers') \in 0 .. Cardinality(Threads)
      /\ Cardinality(Spinning') \in 0 .. Cardinality(Threads)
  <2>1. Readers' \subseteq Threads /\ Spinning' \subseteq Threads
    BY DEF Readers, Spinning, At
  <2> QED
    BY <2>1, PartOfThreads
<1>2. word' \in W!Words
  BY <1>1 DEF W!Words
<1>3. W!TypeOK'
  BY <1>2 DEF W!TypeOK, UsersTypeOK, HoldersTypeOK
<1>4. W!WordIsExact'
  BY DEF W!WordIsExact, Spinning
<1>5. \A u \in Threads : /\ pc'[u] = (IF u = t THEN label ELSE pc[u])
                         /\ seen'[u] = (IF u = t THEN loaded ELSE seen[u])
  BY DEF W!TypeOK, UsersTypeOK
<1>6. InsideHoldsNothing' /\ ReadsOnce'
  BY <1>5 DEF InsideHoldsNothing, ReadsOnce, Holds
<1>7. /\ \A u \in Threads : pc'[u] \in {"readCas", "readTry"} => W!WriteFree(seen'[u])
      /\ \A u \in Threads : pc'[u] \in {"writeCas", "writeTry"} => W!Free(seen'[u])
  BY <1>5
<1>8. /\ \A u \in Threads : pc[u]' \in {"readCas", "readTry"} => W!WriteFree(seen[u])'
      /\ \A u \in Threads : pc[u]' \in {"writeCas", "writeTry"} => W!Free(seen[u])'
  BY <1>7 DEF W!WriteFree, W!Free
<1> QED
  BY <1>3, <1>4, <1>6, <1>8

\* How the number of writers that wait changes.
LEMMA SpinningMoves ==
    ASSUME NEW t \in Threads, \A u \in Threads \ {t} : pc'[u] = pc[u]
    PROVE  /\ Cardinality(Spinning') = Cardinality(Spinning)
                  + (IF pc'[t] = "writeSpin" THEN 1 ELSE 0) - (IF pc[t] = "writeSpin" THEN 1 ELSE 0)
           /\ Cardinality(Spinning) \in Nat
           /\ pc[t] = "writeSpin" => Cardinality(Spinning) > 0
<1>1. /\ Cardinality(At({"writeSpin"})') = Cardinality(At({"writeSpin"}))
            + (IF pc'[t] \in {"writeSpin"} THEN 1 ELSE 0) - (IF pc[t] \in {"writeSpin"} THEN 1 ELSE 0)
      /\ Cardinality(At({"writeSpin"})) \in Nat
      /\ pc[t] \in {"writeSpin"} => Cardinality(At({"writeSpin"})) > 0
  BY CountAt
<1>2. Spinning = At({"writeSpin"}) /\ Spinning' = At({"writeSpin"})'
  BY DEF Spinning
<1> QED
  BY <1>1, <1>2

LEMMA RWSpinLockWShape ==
    ASSUME RWSpinLockWInv
    PROVE  /\ word \in W!Words /\ HoldersTypeOK /\ pc \in [Threads -> W!Labels] /\ seen \in [Threads -> W!Words]
           /\ word = [writer |-> word.writer, waiting |-> word.waiting, readers |-> word.readers]
           /\ word.writer \in BOOLEAN /\ word.waiting \in Nat /\ word.readers \in Nat
           /\ word.readers = Cardinality(Readers) /\ word.waiting = Cardinality(Spinning)
           /\ word.writer <=> Writers # {}
           /\ word.readers = 0 => Readers = {}
           /\ W!Unlocked \in W!Words
<1>1. W!Unlocked \in W!Words
  BY ThreadCount, WSame DEF W!Words, W!Unlocked
<1>2. Cardinality(Threads) \in Nat /\ (Cardinality(Readers) = 0 => Readers = {})
  BY PartOfThreads DEF Readers
<1> QED
  BY <1>1, <1>2, WSame DEF RWSpinLockWInv, W!TypeOK, W!Words, UsersTypeOK, HoldersTypeOK, W!WordIsExact, Spinning

\* A step that takes or undoes no lock, and at most counts a writer that waits.
LEMMA RWSpinLockWMoves ==
    ASSUME RWSpinLockWInv, NEW t \in Threads, NEW label \in W!Labels, NEW loaded \in W!Words,
           Goto(t, label), seen' = [seen EXCEPT ![t] = loaded], UNCHANGED <<sema, reads, writes>>,
           pc[t] # "idle" \/ ~Holds(t), pc[t] # "writeSpin" \/ label = "writeSpin",
           label \in {"readCas", "readTry"} => W!WriteFree(loaded),
           label \in {"writeCas", "writeTry"} => W!Free(loaded),
           word' = [word EXCEPT !.waiting = @ + (IF label = "writeSpin" /\ pc[t] # label THEN 1 ELSE 0)]
    PROVE  RWSpinLockWInv'
<1>1. pc' = [pc EXCEPT ![t] = label] /\ pc'[t] = label /\ \A u \in Threads \ {t} : pc'[u] = pc[u]
  BY RWSpinLockWShape DEF Goto
<1>2. Readers' = Readers /\ Writers' = Writers /\ ReadLocks' = ReadLocks
  BY AfterMove
<1>3. OneWriter' /\ WritersExcludeReaders' /\ HoldersTypeOK'
  BY <1>2, RWSpinLockWShape DEF OneWriter, WritersExcludeReaders, RWSpinLockWInv, HoldersTypeOK
<1>4. Cardinality(Spinning') = Cardinality(Spinning) + (IF label = "writeSpin" /\ pc[t] # label THEN 1 ELSE 0)
  BY <1>1, SpinningMoves
<1>5. /\ word' = [writer |-> word'.writer, waiting |-> word'.waiting, readers |-> word'.readers]
      /\ word'.writer \in BOOLEAN /\ (word'.writer <=> Writers' # {})
      /\ word'.readers = Cardinality(Readers') /\ word'.waiting = Cardinality(Spinning')
  BY <1>2, <1>4, RWSpinLockWShape
<1>6. reads'[t] = 0 /\ writes'[t] = 0
  BY RWSpinLockWShape DEF RWSpinLockWInv, InsideHoldsNothing, Holds, HoldersTypeOK
<1>7. \A u \in Threads \ {t} : reads'[u] = reads[u] /\ writes'[u] = writes[u]
  OBVIOUS
<1>8. sema' = sema /\ reads'[t] <= 1 /\ (label # "idle" => reads'[t] = 0 /\ writes'[t] = 0)
  BY <1>6
<1> QED
  BY <1>1, <1>3, <1>5, <1>7, <1>8, RWSpinLockWKeeps, Zenon

LEMMA WEnterRead ==
    ASSUME RWSpinLockWInv, NEW t \in Threads, pc[t] \notin {"idle", "writeSpin"}, ~seen[t].writer, W!EnterRead(t)
    PROVE  RWSpinLockWInv' /\ [Abstract!Next]_<<reads, writes>>
<1>0. word = seen[t] /\ word' = [word EXCEPT !.readers = @ + 1] /\ GetRead(t) /\ sema' = sema
      /\ seen' = [seen EXCEPT ![t] = W!Unlocked]
  BY WSame DEF W!EnterRead, W!Forget
<1>1. Writers = {} /\ reads[t] = 0 /\ reads[t] < MaxReads
  BY <1>0, RWSpinLockWShape, LockStateAssumption DEF RWSpinLockWInv, InsideHoldsNothing, Holds, HoldersTypeOK
<1>2. /\ HoldersTypeOK' /\ Abstract!AcquireRead(t) /\ Writers' = {}
      /\ Cardinality(Readers') = Cardinality(Readers) + 1
  BY <1>0, <1>1, AfterGetRead, RWSpinLockWShape
<1>3. /\ pc' = [pc EXCEPT ![t] = "idle"] /\ pc'[t] = "idle" /\ \A u \in Threads \ {t} : pc'[u] = pc[u]
      /\ \A u \in Threads \ {t} : reads'[u] = reads[u] /\ writes'[u] = writes[u]
      /\ reads'[t] <= 1
  BY <1>0, <1>1, RWSpinLockWShape DEF GetRead, Goto, HoldersTypeOK
<1>4. Cardinality(Spinning') = Cardinality(Spinning)
  BY <1>3, SpinningMoves
<1>5. /\ word' = [writer |-> word'.writer, waiting |-> word'.waiting, readers |-> word'.readers]
      /\ word'.writer \in BOOLEAN /\ (word'.writer <=> Writers' # {})
      /\ word'.readers = Cardinality(Readers') /\ word'.waiting = Cardinality(Spinning')
  BY <1>0, <1>1, <1>2, <1>4, RWSpinLockWShape
<1>6. OneWriter' /\ WritersExcludeReaders'
  BY <1>2, FS_EmptySet DEF OneWriter, WritersExcludeReaders
<1>7. "idle" \in W!Labels /\ W!Unlocked \in W!Words
  BY RWSpinLockWShape DEF W!Labels
<1>8. RWSpinLockWInv'
  BY <1>0, <1>2, <1>3, <1>5, <1>6, <1>7, RWSpinLockWKeeps, Zenon
<1> QED
  BY <1>2, <1>8 DEF Abstract!Next

LEMMA WEnterWrite ==
    ASSUME RWSpinLockWInv, NEW t \in Threads, pc[t] # "idle", W!Free(seen[t]), W!EnterWrite(t, IF pc[t] = "writeSpin" THEN 1 ELSE 0)
    PROVE  RWSpinLockWInv' /\ [Abstract!Next]_<<reads, writes>>
<1>0. word = seen[t] /\ GetWrite(t) /\ sema' = sema /\ seen' = [seen EXCEPT ![t] = W!Unlocked]
      /\ word' = [word EXCEPT !.writer = TRUE, !.waiting = @ - IF pc[t] = "writeSpin" THEN 1 ELSE 0]
  BY WSame DEF W!EnterWrite, W!Forget
<1>1. Writers = {} /\ Readers = {} /\ reads[t] = 0 /\ word.readers = 0
  BY <1>0, RWSpinLockWShape DEF RWSpinLockWInv, InsideHoldsNothing, Holds, HoldersTypeOK, W!Free
<1>2. /\ HoldersTypeOK' /\ Abstract!AcquireWrite(t) /\ Writers' = {t} /\ Readers' = {}
      /\ Cardinality(Writers') = 1
  BY <1>0, <1>1, AfterGetWrite, RWSpinLockWShape
<1>3. /\ pc' = [pc EXCEPT ![t] = "idle"] /\ pc'[t] = "idle" /\ \A u \in Threads \ {t} : pc'[u] = pc[u]
      /\ \A u \in Threads \ {t} : reads'[u] = reads[u] /\ writes'[u] = writes[u]
      /\ reads'[t] <= 1
  BY <1>0, <1>1, RWSpinLockWShape DEF GetWrite, Goto, HoldersTypeOK
<1>4. Cardinality(Spinning') = Cardinality(Spinning) - (IF pc[t] = "writeSpin" THEN 1 ELSE 0)
  BY <1>3, SpinningMoves
<1>5. /\ word' = [writer |-> word'.writer, waiting |-> word'.waiting, readers |-> word'.readers]
      /\ word'.writer \in BOOLEAN /\ (word'.writer <=> Writers' # {})
      /\ word'.readers = Cardinality(Readers') /\ word'.waiting = Cardinality(Spinning')
  BY <1>0, <1>1, <1>2, <1>4, RWSpinLockWShape, FS_EmptySet
<1>6. OneWriter' /\ WritersExcludeReaders'
  BY <1>2 DEF OneWriter, WritersExcludeReaders
<1>7. "idle" \in W!Labels /\ W!Unlocked \in W!Words
  BY RWSpinLockWShape DEF W!Labels
<1>8. RWSpinLockWInv'
  BY <1>0, <1>2, <1>3, <1>5, <1>6, <1>7, RWSpinLockWKeeps, Zenon
<1> QED
  BY <1>2, <1>8 DEF Abstract!Next

LEMMA WUnlocks ==
    ASSUME RWSpinLockWInv, NEW t \in Threads, W!Unlock(t)
    PROVE  RWSpinLockWInv' /\ [Abstract!Next]_<<reads, writes>>
<1>0. pc[t] = "idle" /\ UNCHANGED <<sema, seen, pc>> /\ OneWriter /\ WritersExcludeReaders
  BY DEF W!Unlock, W!ReadUnlock, W!WriteUnlock, RWSpinLockWInv
<1>1. /\ pc' = [pc EXCEPT ![t] = "idle"] /\ seen' = [seen EXCEPT ![t] = seen[t]] /\ seen[t] \in W!Words
      /\ Spinning' = Spinning /\ "idle" \in W!Labels /\ sema' = sema
  BY <1>0, RWSpinLockWShape DEF Spinning, At, W!Labels
<1>2. CASE W!ReadUnlock(t)
  <2>1. DropRead(t) /\ word' = [word EXCEPT !.readers = @ - 1]
    BY <1>2, WSame DEF W!ReadUnlock
  <2>2. reads[t] = 1
    BY <2>1, RWSpinLockWShape DEF RWSpinLockWInv, ReadsOnce, DropRead, HoldersTypeOK
  <2>3. /\ HoldersTypeOK' /\ Abstract!ReleaseRead(t) /\ Writers' = Writers /\ Readers' \subseteq Readers /\ t \in Readers
        /\ Cardinality(Readers') = Cardinality(Readers) - 1
    BY <2>1, <2>2, AfterDropRead, RWSpinLockWShape
  <2>4. OneWriter' /\ WritersExcludeReaders'
    BY <1>0, <2>3 DEF OneWriter, WritersExcludeReaders
  <2>5. /\ word' = [writer |-> word'.writer, waiting |-> word'.waiting, readers |-> word'.readers]
        /\ word'.writer \in BOOLEAN /\ (word'.writer <=> Writers' # {})
        /\ word'.readers = Cardinality(Readers') /\ word'.waiting = Cardinality(Spinning')
    BY <1>1, <2>1, <2>3, RWSpinLockWShape
  <2>6. (\A u \in Threads \ {t} : reads'[u] = reads[u] /\ writes'[u] = writes[u]) /\ reads'[t] <= 1
    BY <2>1, <2>2, RWSpinLockWShape DEF DropRead, HoldersTypeOK
  <2>7. RWSpinLockWInv'
    BY <1>1, <2>3, <2>4, <2>5, <2>6, RWSpinLockWKeeps, Zenon
  <2> QED
    BY <2>3, <2>7 DEF Abstract!Next
<1>3. CASE W!WriteUnlock(t)
  <2>1. DropWrite(t) /\ word' = [word EXCEPT !.writer = FALSE]
    BY <1>3, WSame DEF W!WriteUnlock
  <2>3. /\ HoldersTypeOK' /\ Abstract!ReleaseWrite(t) /\ Writers' = {} /\ Readers' = {} /\ Readers = {}
        /\ Cardinality(Writers') = 0
    BY <1>0, <2>1, AfterDropWrite, RWSpinLockWShape
  <2>4. OneWriter' /\ WritersExcludeReaders'
    BY <1>0, <2>3 DEF OneWriter, WritersExcludeReaders
  <2>5. /\ word' = [writer |-> word'.writer, waiting |-> word'.waiting, readers |-> word'.readers]
        /\ word'.writer \in BOOLEAN /\ (word'.writer <=> Writers' # {})
        /\ word'.readers = Cardinality(Readers') /\ word'.waiting = Cardinality(Spinning')
    BY <1>1, <2>1, <2>3, RWSpinLockWShape
  <2>6. (\A u \in Threads \ {t} : reads'[u] = reads[u] /\ writes'[u] = writes[u]) /\ reads'[t] <= 1
    BY <2>1, RWSpinLockWShape DEF DropWrite, HoldersTypeOK, RWSpinLockWInv, ReadsOnce
  <2>7. RWSpinLockWInv'
    BY <1>1, <2>3, <2>4, <2>5, <2>6, RWSpinLockWKeeps, Zenon
  <2> QED
    BY <2>3, <2>7 DEF Abstract!Next
<1> QED
  BY <1>2, <1>3 DEF W!Unlock

LEMMA RWSpinLockWStep ==
    ASSUME RWSpinLockWInv, W!Next
    PROVE  RWSpinLockWInv' /\ [Abstract!Next]_<<reads, writes>>
<1>1. PICK t \in Threads : W!Step(t) \/ W!Call(t) \/ W!Unlock(t)
  BY DEF W!Next
<1> DEFINE Tries == pc[t] \in {"readCas", "readEnter", "readTry"} /\ W!EnterRead(t) /\ ~seen[t].writer
           Writes == /\ pc[t] \in {"writeCas", "writeTry", "writeSpin"} /\ W!Free(seen[t])
                     /\ W!EnterWrite(t, IF pc[t] = "writeSpin" THEN 1 ELSE 0)
           Goes(label, loaded) ==
               /\ Goto(t, label) /\ seen' = [seen EXCEPT ![t] = loaded] /\ UNCHANGED <<sema, reads, writes>>
               /\ pc[t] # "idle" \/ ~Holds(t)
               /\ pc[t] # "writeSpin" \/ label = "writeSpin"
               /\ label \in {"readCas", "readTry"} => W!WriteFree(loaded)
               /\ label \in {"writeCas", "writeTry"} => W!Free(loaded)
               /\ word' = [word EXCEPT !.waiting = @ + (IF label = "writeSpin" /\ pc[t] # label THEN 1 ELSE 0)]
<1>2. CASE Tries
  BY <1>2, WEnterRead
<1>3. CASE Writes
  BY <1>3, WEnterWrite
<1>4. ASSUME NEW label \in W!Labels, NEW loaded \in W!Words, Goes(label, loaded)
      PROVE  RWSpinLockWInv' /\ [Abstract!Next]_<<reads, writes>>
  <2>1. RWSpinLockWInv'
    BY <1>4, RWSpinLockWMoves
  <2> QED
    BY <1>4, <2>1
<1>5. seen[t] \in W!Words /\ word \in W!Words /\ W!Unlocked \in W!Words /\ seen \in [Threads -> W!Words]
      /\ word = [word EXCEPT !.waiting = @ + 0] /\ seen = [seen EXCEPT ![t] = seen[t]]
  <2>1. word.waiting \in Nat /\ word \in W!Words
    BY RWSpinLockWShape
  <2>2. word = [word EXCEPT !.waiting = @ + 0]
    BY <2>1 DEF W!Words
  <2> QED
    BY <2>1, <2>2, RWSpinLockWShape
<1>6. ASSUME NEW label \in W!Labels \ {"writeSpin"}, W!Load(t, label), W!UnchangedLock,
             pc[t] # "writeSpin", pc[t] # "idle" \/ MayLock(t),
             label \in {"readCas", "readTry"} => W!WriteFree(word),
             label \in {"writeCas", "writeTry"} => W!Free(word)
      PROVE  Goes(label, word)
  BY <1>5, <1>6, WSame DEF W!Load, W!UnchangedLock, MayLock
<1>7. ASSUME NEW label \in W!Labels \ {"readCas", "readTry", "writeCas", "writeTry", "writeSpin"},
             Move(t, label), pc[t] \notin {"idle", "writeSpin"}
      PROVE  Goes(label, seen[t])
  BY <1>5, <1>7 DEF Move
<1>8. CASE W!ReadLock(t)
  <2>1. PICK label \in {"readCas", "readSpin"} : W!Load(t, label) /\ (label = "readCas" => W!WriteFree(word))
    BY <1>8 DEF W!ReadLock
  <2> QED
    BY <1>4, <1>5, <1>6, <1>8, <2>1, WSame DEF W!ReadLock, W!Labels, MayLock
<1>9. CASE W!WriteLock(t)
  <2>1. PICK label \in {"writeCas", "writePost"} : W!Load(t, label) /\ (label = "writeCas" => W!Free(word))
    BY <1>9 DEF W!WriteLock
  <2> QED
    BY <1>4, <1>5, <1>6, <1>9, <2>1, WSame DEF W!WriteLock, W!Labels, MayLock
<1>10. CASE W!TryCall(t)
  BY <1>4, <1>5, <1>6, <1>10, WSame DEF W!TryCall, W!ReadTryLock, W!WriteTryLock, W!Labels, MayLock
<1>11. CASE W!ReadCas(t)
  BY <1>2, <1>4, <1>5, <1>7, <1>11, WSame DEF W!ReadCas, W!Labels, RWSpinLockWInv, W!WriteFree
<1>12. CASE W!ReadSpin(t) \/ W!ReadEnter(t)
  BY <1>2, <1>4, <1>5, <1>6, <1>12 DEF W!ReadSpin, W!ReadEnter, W!Labels
<1>13. CASE W!TryEnds(t)
  <2>1. CASE pc[t] = "readTry" /\ W!EnterRead(t)
    BY <1>2, <2>1 DEF RWSpinLockWInv, W!WriteFree
  <2>2. CASE pc[t] = "writeTry" /\ W!EnterWrite(t, 0)
    BY <1>3, <2>2 DEF RWSpinLockWInv
  <2>3. CASE pc[t] \in {"readTry", "writeTry"} /\ W!Goto(t, "idle") /\ W!Forget(t) /\ W!UnchangedLock
    <3>1. Goes("idle", W!Unlocked)
      BY <1>5, <2>3, WSame DEF W!Forget, W!UnchangedLock
    <3> QED
      BY <1>4, <1>5, <3>1 DEF W!Labels
  <2> QED
    BY <1>13, <2>1, <2>2, <2>3 DEF W!TryEnds
<1>14. CASE W!WriteCas(t)
  BY <1>3, <1>4, <1>5, <1>7, <1>14, WSame DEF W!WriteCas, W!Labels, RWSpinLockWInv
<1>15. CASE W!WritePost(t)
  <2>1. Goes("writeSpin", seen[t])
    BY <1>5, <1>15, WSame DEF W!WritePost
  <2> QED
    BY <1>4, <1>5, <2>1 DEF W!Labels
<1>16. CASE W!WriteSpin(t)
  <2>1. CASE W!Free(seen[t]) /\ W!EnterWrite(t, 1)
    BY <1>3, <1>16, <2>1 DEF W!WriteSpin
  <2>2. CASE W!Load(t, "writeSpin") /\ W!UnchangedLock
    <3>1. Goes("writeSpin", word)
      BY <1>5, <1>16, <2>2, WSame DEF W!WriteSpin, W!Load, W!UnchangedLock
    <3> QED
      BY <1>4, <1>5, <3>1 DEF W!Labels
  <2> QED
    BY <1>16, <2>1, <2>2 DEF W!WriteSpin
<1>17. CASE W!Unlock(t)
  BY <1>17, WUnlocks
<1> QED
  BY <1>1, <1>8, <1>9, <1>10, <1>11, <1>12, <1>13, <1>14, <1>15, <1>16, <1>17 DEF W!Step, W!Call
-----------------------------------------------------------------------------
(* RWSemaLock.                                                             *)

LEMMA QSame ==
    /\ \A A : Q!Cardinality(A) = Cardinality(A)
    /\ \A t, label : Q!Goto(t, label) <=> Goto(t, label)
    /\ \A L : Q!At(L) = At(L) /\ Q!At(L)' = At(L)'
    /\ \A t : Q!Holds(t) <=> Holds(t)
    /\ Q!Readers = Readers /\ Q!Readers' = Readers'
    /\ Q!Writers = Writers /\ Q!Writers' = Writers'
    /\ \A t : Q!MayLock(t) <=> MayLock(t)
    /\ \A t : Q!GetRead(t) <=> GetRead(t)
    /\ \A t : Q!GetWrite(t) <=> GetWrite(t)
    /\ \A t : Q!DropRead(t) <=> DropRead(t)
    /\ \A t : Q!DropWrite(t) <=> DropWrite(t)
    /\ \A loaded : Q!InitUsers(loaded) <=> InitUsers(loaded)
    /\ \A labels : (Q!UsersTypeOK(labels) <=> UsersTypeOK(labels)) /\ (Q!UsersTypeOK(labels)' <=> UsersTypeOK(labels)')
BY DEF Q!At, At, Q!Cardinality, Cardinality, Q!DropRead, DropRead, Q!DropWrite, DropWrite,
   Q!GetRead, GetRead, Q!GetWrite, GetWrite, Q!Goto, Goto, Q!Holds, Holds, Q!InitUsers, InitUsers,
   Q!IsFiniteSet, IsFiniteSet, Q!MayLock, MayLock, Q!Readers, Readers, Q!UsersTypeOK, UsersTypeOK,
   Q!Writers, Writers

RWSemaLockInv ==
    /\ Q!TypeOK /\ Q!WordIsExact /\ InsideHoldsNothing /\ ReadsOnce
    /\ \A t \in Threads : seen[t] <= Cardinality(Threads)

\* The counts are those of threads, so that the signed fields hold them.
FewThreads == Cardinality(Threads) < 512

ReadWaiters == At({"readWait"})
WriteWaiters == At({"writeWait"})
WritePosters == At({"postWrite"})

\* The pairs of one thread, k of them, are counted beside those of the others.
LEMMA CountPairs ==
    ASSUME NEW t \in Threads, NEW k \in Nat, NEW A, NEW Rest, IsFiniteSet(Rest),
           \A x \in Rest : x[1] # t, A = Rest \cup ({t} \X (1 .. k))
    PROVE  Cardinality(A) = Cardinality(Rest) + k
<1>1. IsFiniteSet(1 .. k) /\ Cardinality(1 .. k) = k /\ IsFiniteSet({t}) /\ Cardinality({t}) = 1
  BY SizeOfRange, FS_Singleton
<1> DEFINE B == {t} \X (1 .. k)
<1>2. IsFiniteSet(B) /\ Cardinality(B) = 1 * k
  BY <1>1, FS_Product
<1>3. Rest \cap B = {}
  OBVIOUS
<1>4. Cardinality(Rest \cap B) = 0
  BY <1>3, FS_EmptySet
<1> HIDE DEF B
<1>5. Cardinality(Rest \cup B) = Cardinality(Rest) + Cardinality(B) - Cardinality(Rest \cap B)
  BY <1>2, FS_Union
<1>6. Cardinality(Rest) \in Nat
  BY FS_CardinalityType
<1> QED
  BY <1>2, <1>4, <1>5, <1>6 DEF B

\* How the number of readers that are let in but not posted changes with thread t.
Unposted(t) == IF pc[t] = "postRead" THEN seen[t] ELSE 0

LEMMA PendingMoves ==
    ASSUME NEW t \in Threads, \A u \in Threads \ {t} : pc'[u] = pc[u] /\ seen'[u] = seen[u],
           Unposted(t) \in 0 .. Cardinality(Threads), Unposted(t)' \in 0 .. Cardinality(Threads)
    PROVE  /\ Cardinality(Q!Pending') = Cardinality(Q!Pending) + Unposted(t)' - Unposted(t)
           /\ Cardinality(Q!Pending) \in Nat /\ Cardinality(Q!Pending) >= Unposted(t)
<1> DEFINE C == Cardinality(Threads)
           Pairs == Threads \X (1 .. C)
           Rest == {p \in Pairs : p[1] # t /\ pc[p[1]] = "postRead" /\ p[2] <= seen[p[1]]}
<1>0. C \in Nat
  BY ThreadCount
<1>1. Q!Pending = {p \in Pairs : pc[p[1]] = "postRead" /\ p[2] <= seen[p[1]]}
  <2>1. Q!Pending = {p \in At({"postRead"}) \X (1 .. C) : p[2] <= seen[p[1]]}
    BY QSame DEF Q!Pending
  <2> QED
    BY <2>1 DEF At
<1>2. Q!Pending' = {p \in Pairs : pc'[p[1]] = "postRead" /\ p[2] <= seen'[p[1]]}
  <2>1. Q!Pending' = {p \in At({"postRead"})' \X (1 .. C) : p[2] <= seen'[p[1]]}
    BY QSame DEF Q!Pending
  <2> QED
    BY <2>1 DEF At
<1>3. IsFiniteSet(Rest)
  <2>1. IsFiniteSet(Pairs)
    BY <1>0, LockStateAssumption, SizeOfRange, FS_Product
  <2> QED
    BY <2>1, FS_Subset
<1> HIDE DEF C
<1>4. Q!Pending = Rest \cup ({t} \X (1 .. Unposted(t)))
  BY <1>0, <1>1 DEF Unposted, C
<1>5. Q!Pending' = Rest \cup ({t} \X (1 .. Unposted(t)'))
  BY <1>0, <1>2 DEF Unposted, C
<1>6. \A x \in Rest : x[1] # t
  OBVIOUS
<1> HIDE DEF Rest
<1>7. Unposted(t) \in Nat /\ Unposted(t)' \in Nat
  BY <1>0 DEF C
<1>8. Cardinality(Q!Pending) = Cardinality(Rest) + Unposted(t)
  BY <1>3, <1>4, <1>6, <1>7, CountPairs
<1>9. Cardinality(Q!Pending') = Cardinality(Rest) + Unposted(t)'
  BY <1>3, <1>5, <1>6, <1>7, CountPairs
<1>10. Cardinality(Rest) \in Nat
  BY <1>3, FS_CardinalityType
<1> QED
  BY <1>7, <1>8, <1>9, <1>10

LEMMA RWSemaLockInit == FewThreads /\ Q!Init => RWSemaLockInv
<1> SUFFICES ASSUME FewThreads, Q!Init PROVE RWSemaLockInv
  OBVIOUS
<1> USE QSame DEF Q!Init, InitUsers
<1>1. /\ Writers = {} /\ Readers = {} /\ At({"readWait"}) = {} /\ At({"writeWait"}) = {}
      /\ At({"postWrite"}) = {} /\ At({"postRead"}) = {} /\ Cardinality({}) = 0
  BY FS_EmptySet DEF Writers, Readers, At
<1>2. Q!Pending = {}
  BY <1>1 DEF Q!Pending
<1>3. Q!TypeOK
  <2>1. 0 \in 0 .. MaxReads
    BY LockStateAssumption
  <2> QED
    BY <2>1 DEF Q!TypeOK, UsersTypeOK, Q!Labels, Q!FieldModulus
<1>4. Q!WordIsExact
  BY <1>1, <1>2 DEF Q!WordIsExact
<1>5. \A t \in Threads : seen[t] <= Cardinality(Threads)
  BY ThreadCount
<1>6. InsideHoldsNothing /\ ReadsOnce
  BY DEF InsideHoldsNothing, ReadsOnce
<1> QED
  BY <1>3, <1>4, <1>5, <1>6 DEF RWSemaLockInv

\* What the invariant says in numbers.
LEMMA RWSemaLockShape ==
    ASSUME FewThreads, RWSemaLockInv
    PROVE  /\ HoldersTypeOK /\ pc \in [Threads -> Q!Labels] /\ Cardinality(Threads) \in Nat
           /\ seen \in [Threads -> 0 .. Cardinality(Threads)]
           /\ word = [readers |-> word.readers, waitToRead |-> word.waitToRead, writers |-> word.writers]
           /\ word.readers \in Nat /\ word.waitToRead \in Nat /\ word.writers \in Nat
           /\ sema = [read |-> sema.read, write |-> sema.write] /\ sema.read \in Nat /\ sema.write \in Nat
           /\ word.readers + word.waitToRead = Cardinality(Readers) + Cardinality(ReadWaiters)
           /\ word.readers = Cardinality(Readers) + sema.read + Cardinality(Q!Pending)
           /\ word.writers = Cardinality(Writers) + Cardinality(WriteWaiters)
           /\ Cardinality(Writers) + sema.write + Cardinality(WritePosters)
                  = IF word.writers > 0 /\ word.readers = 0 THEN 1 ELSE 0
           /\ word.readers + word.waitToRead <= Cardinality(Threads) /\ word.writers <= Cardinality(Threads)
           /\ Cardinality(Readers) \in Nat /\ Cardinality(Writers) \in Nat /\ Cardinality(Q!Pending) \in Nat
           /\ Cardinality(ReadWaiters) \in Nat /\ Cardinality(WriteWaiters) \in Nat
           /\ Cardinality(WritePosters) \in Nat
           /\ Cardinality(Readers) = 0 => Readers = {}
           /\ Cardinality(Writers) = 0 => Writers = {}
           /\ OneWriter /\ WritersExcludeReaders
<1> USE QSame DEF RWSemaLockInv
<1>1. /\ HoldersTypeOK /\ pc \in [Threads -> Q!Labels]
      /\ sema = [read |-> sema.read, write |-> sema.write] /\ sema.read \in Nat /\ sema.write \in Nat
  BY DEF Q!TypeOK, UsersTypeOK, HoldersTypeOK
<1>2. /\ word = [readers |-> word.readers, waitToRead |-> word.waitToRead, writers |-> word.writers]
      /\ word.readers \in Nat /\ word.waitToRead \in Nat /\ word.writers \in Nat
  <2>1. word \in [readers : 0 .. 1023, waitToRead : 0 .. 1023, writers : 0 .. 1023]
    BY DEF Q!TypeOK, Q!FieldModulus
  <2>2. word = [readers |-> word.readers, waitToRead |-> word.waitToRead, writers |-> word.writers]
    BY ONLY <2>1
  <2>3. word.readers \in Nat
    BY ONLY <2>1
  <2>4. word.waitToRead \in Nat
    BY ONLY <2>1
  <2>5. word.writers \in Nat
    BY ONLY <2>1
  <2> QED
    BY ONLY <2>2, <2>3, <2>4, <2>5
<1>3. seen \in [Threads -> 0 .. Cardinality(Threads)] /\ Cardinality(Threads) \in Nat
  <2>1. seen \in [Threads -> 0 .. 1023] /\ \A t \in Threads : seen[t] <= Cardinality(Threads)
    BY DEF Q!TypeOK, Q!FieldModulus
  <2> QED
    BY ONLY <2>1, ThreadCount
<1>4. /\ word.readers + word.waitToRead = Cardinality(Readers) + Cardinality(ReadWaiters)
      /\ word.readers = Cardinality(Readers) + sema.read + Cardinality(Q!Pending)
      /\ word.writers = Cardinality(Writers) + Cardinality(WriteWaiters)
      /\ Cardinality(Writers) + sema.write + Cardinality(WritePosters)
             = IF word.writers > 0 /\ word.readers = 0 THEN 1 ELSE 0
  BY DEF Q!WordIsExact, ReadWaiters, WriteWaiters, WritePosters
<1>5. /\ Readers \subseteq Threads /\ Writers \subseteq Threads /\ ReadWaiters \subseteq Threads
      /\ WriteWaiters \subseteq Threads /\ WritePosters \subseteq Threads
      /\ Readers \cap ReadWaiters = {} /\ Writers \cap WriteWaiters = {}
  BY <1>1 DEF Readers, Writers, ReadWaiters, WriteWaiters, WritePosters, At, InsideHoldsNothing, Holds
<1>6. /\ Cardinality(Readers) \in Nat /\ Cardinality(Writers) \in Nat
      /\ Cardinality(ReadWaiters) \in Nat /\ Cardinality(WriteWaiters) \in Nat
      /\ Cardinality(WritePosters) \in Nat
      /\ Cardinality(Readers) = 0 => Readers = {}
      /\ Cardinality(Writers) = 0 => Writers = {}
      /\ IsFiniteSet(Readers) /\ IsFiniteSet(Writers) /\ IsFiniteSet(ReadWaiters) /\ IsFiniteSet(WriteWaiters)
  BY <1>5, PartOfThreads
<1>7. \A A, B : IsFiniteSet(A) /\ IsFiniteSet(B) /\ A \subseteq Threads /\ B \subseteq Threads /\ A \cap B = {}
                  => Cardinality(A) + Cardinality(B) <= Cardinality(Threads)
  <2> SUFFICES ASSUME NEW A, NEW B, IsFiniteSet(A), IsFiniteSet(B), A \subseteq Threads, B \subseteq Threads,
                      A \cap B = {}
               PROVE  Cardinality(A) + Cardinality(B) <= Cardinality(Threads)
    OBVIOUS
  <2>1. Cardinality(A \cup B) = Cardinality(A) + Cardinality(B) - Cardinality(A \cap B)
    BY FS_Union
  <2>2. Cardinality(A \cap B) = 0
    BY FS_EmptySet
  <2>3. A \cup B \subseteq Threads
    OBVIOUS
  <2>4. Cardinality(A \cup B) <= Cardinality(Threads)
    BY <2>3, PartOfThreads
  <2>5. Cardinality(A) \in Nat /\ Cardinality(B) \in Nat
    BY PartOfThreads
  <2> QED
    BY <2>1, <2>2, <2>4, <2>5
<1>8. /\ Cardinality(Readers) + Cardinality(ReadWaiters) <= Cardinality(Threads)
      /\ Cardinality(Writers) + Cardinality(WriteWaiters) <= Cardinality(Threads)
  BY <1>5, <1>6, <1>7
<1>9. Cardinality(Q!Pending) \in Nat
  <2>1. IsFiniteSet(Threads \X (1 .. Cardinality(Threads)))
    BY <1>3, LockStateAssumption, SizeOfRange, FS_Product
  <2>2. Q!Pending \subseteq Threads \X (1 .. Cardinality(Threads))
    BY DEF Q!Pending, At
  <2> QED
    BY <2>1, <2>2, FS_Subset, FS_CardinalityType
<1>10. OneWriter /\ WritersExcludeReaders
  BY <1>1, <1>4, <1>6, <1>9 DEF OneWriter, WritersExcludeReaders
<1> QED
  BY <1>1, <1>2, <1>3, <1>4, <1>6, <1>8, <1>9, <1>10

\* The invariant in terms of the fields and of the semaphores' counts.
Balance(r, q, w, a, b) ==
    /\ word = [readers |-> r, waitToRead |-> q, writers |-> w]
    /\ sema = [read |-> a, write |-> b]
    /\ r + q = Cardinality(Readers) + Cardinality(ReadWaiters)
    /\ r = Cardinality(Readers) + a + Cardinality(Q!Pending)
    /\ w = Cardinality(Writers) + Cardinality(WriteWaiters)
    /\ Cardinality(Writers) + b + Cardinality(WritePosters) = IF w > 0 /\ r = 0 THEN 1 ELSE 0

\* What must be shown of a step in which thread t alone moves.
LEMMA RWSemaLockKeeps ==
    ASSUME FewThreads, RWSemaLockInv, NEW t \in Threads, NEW label \in Q!Labels, NEW n \in 0 .. Cardinality(Threads),
           pc' = [pc EXCEPT ![t] = label], seen' = [seen EXCEPT ![t] = n],
           HoldersTypeOK',
           \A u \in Threads \ {t} : reads'[u] = reads[u] /\ writes'[u] = writes[u],
           reads'[t] <= 1, label # "idle" => reads'[t] = 0 /\ writes'[t] = 0,
           NEW r \in Nat, NEW q \in Nat, NEW w \in Nat, NEW a \in Nat, NEW b \in Nat, Balance(r, q, w, a, b)'
    PROVE  RWSemaLockInv'
<1> USE QSame DEF Balance
<1>1. /\ pc \in [Threads -> Q!Labels] /\ seen \in [Threads -> 0 .. Cardinality(Threads)]
      /\ Cardinality(Threads) \in Nat
  BY RWSemaLockShape
<1>2. /\ Readers' \subseteq Threads /\ ReadWaiters' \subseteq Threads
      /\ Writers' \subseteq Threads /\ WriteWaiters' \subseteq Threads
  BY DEF Readers, Writers, ReadWaiters, WriteWaiters, At
<1>3. /\ Cardinality(Readers') <= Cardinality(Threads) /\ Cardinality(ReadWaiters') <= Cardinality(Threads)
      /\ Cardinality(Writers') <= Cardinality(Threads) /\ Cardinality(WriteWaiters') <= Cardinality(Threads)
      /\ Cardinality(Readers') \in Nat /\ Cardinality(ReadWaiters') \in Nat
      /\ Cardinality(Writers') \in Nat /\ Cardinality(WriteWaiters') \in Nat
  BY <1>2, PartOfThreads
<1>4. r \in 0 .. 1023 /\ q \in 0 .. 1023 /\ w \in 0 .. 1023
  <2>1. /\ r + q <= Cardinality(Threads) + Cardinality(Threads)
        /\ w <= Cardinality(Threads) + Cardinality(Threads)
        /\ Cardinality(Threads) < 512
    BY <1>1, <1>3 DEF FewThreads
  <2> QED
    BY ONLY <1>1, <2>1, r \in Nat, q \in Nat, w \in Nat
<1>5. word' \in [readers : 0 .. Q!FieldModulus - 1, waitToRead : 0 .. Q!FieldModulus - 1, writers : 0 .. Q!FieldModulus - 1]
  BY <1>4 DEF Q!FieldModulus
<1>6. \A u \in Threads : pc'[u] = (IF u = t THEN label ELSE pc[u]) /\ seen'[u] = (IF u = t THEN n ELSE seen[u])
  BY <1>1
<1>7. /\ seen' \in [Threads -> 0 .. Cardinality(Threads)] /\ pc' \in [Threads -> Q!Labels]
      /\ \A u \in Threads : seen'[u] <= Cardinality(Threads)
  BY <1>1
<1>8. seen' \in [Threads -> 0 .. Q!FieldModulus - 1]
  <2>1. Cardinality(Threads) < 512 /\ Q!FieldModulus = 1024
    BY DEF FewThreads, Q!FieldModulus
  <2> QED
    BY ONLY <1>1, <1>7, <2>1
<1>9. Q!TypeOK'
  BY <1>5, <1>7, <1>8 DEF Q!TypeOK, UsersTypeOK, HoldersTypeOK
<1>10. Q!WordIsExact'
  BY DEF Q!WordIsExact, ReadWaiters, WriteWaiters, WritePosters
<1>11. InsideHoldsNothing' /\ ReadsOnce'
  BY <1>6 DEF InsideHoldsNothing, ReadsOnce, Holds, RWSemaLockInv
<1>12. \A u \in Threads : seen[u]' <= Cardinality(Threads)
  BY <1>7
<1> QED
  BY <1>9, <1>10, <1>11, <1>12 DEF RWSemaLockInv

\* How the threads at the labels that count move.
Moved(t, label, n) ==
    /\ Cardinality(ReadWaiters') = Cardinality(ReadWaiters)
          + (IF label = "readWait" THEN 1 ELSE 0) - (IF pc[t] = "readWait" THEN 1 ELSE 0)
    /\ Cardinality(WriteWaiters') = Cardinality(WriteWaiters)
          + (IF label = "writeWait" THEN 1 ELSE 0) - (IF pc[t] = "writeWait" THEN 1 ELSE 0)
    /\ Cardinality(WritePosters') = Cardinality(WritePosters)
          + (IF label = "postWrite" THEN 1 ELSE 0) - (IF pc[t] = "postWrite" THEN 1 ELSE 0)
    /\ Cardinality(Q!Pending') = Cardinality(Q!Pending)
          + (IF label = "postRead" THEN n ELSE 0) - (IF pc[t] = "postRead" THEN seen[t] ELSE 0)

LEMMA WaitersMove ==
    ASSUME FewThreads, RWSemaLockInv, NEW t \in Threads, NEW label \in Q!Labels, NEW n \in 0 .. Cardinality(Threads),
           pc' = [pc EXCEPT ![t] = label], seen' = [seen EXCEPT ![t] = n]
    PROVE  Moved(t, label, n)
<1>1. /\ pc'[t] = label /\ seen'[t] = n /\ \A u \in Threads \ {t} : pc'[u] = pc[u] /\ seen'[u] = seen[u]
      /\ seen[t] \in 0 .. Cardinality(Threads)
      /\ \A u \in Threads \ {t} : pc'[u] = pc[u]
  BY RWSemaLockShape
<1>2. /\ Cardinality(ReadWaiters') = Cardinality(ReadWaiters)
            + (IF pc'[t] \in {"readWait"} THEN 1 ELSE 0) - (IF pc[t] \in {"readWait"} THEN 1 ELSE 0)
      /\ Cardinality(WriteWaiters') = Cardinality(WriteWaiters)
            + (IF pc'[t] \in {"writeWait"} THEN 1 ELSE 0) - (IF pc[t] \in {"writeWait"} THEN 1 ELSE 0)
      /\ Cardinality(WritePosters') = Cardinality(WritePosters)
            + (IF pc'[t] \in {"postWrite"} THEN 1 ELSE 0) - (IF pc[t] \in {"postWrite"} THEN 1 ELSE 0)
  BY <1>1, CountAt DEF ReadWaiters, WriteWaiters, WritePosters
<1>3. /\ Unposted(t) = (IF pc[t] = "postRead" THEN seen[t] ELSE 0)
      /\ Unposted(t)' = (IF label = "postRead" THEN n ELSE 0)
      /\ Unposted(t) \in 0 .. Cardinality(Threads) /\ Unposted(t)' \in 0 .. Cardinality(Threads)
  BY <1>1, ThreadCount DEF Unposted
<1>4. Cardinality(Q!Pending') = Cardinality(Q!Pending) + Unposted(t)' - Unposted(t)
  BY <1>1, <1>3, PendingMoves
<1> QED
  BY <1>1, <1>2, <1>3, <1>4 DEF Moved

\* The signed fields hold the numbers.
Fit(r, q, w) ==
    /\ Q!Field(r) = r /\ Q!Field(w) = w /\ q <= Cardinality(Threads)
    /\ Q!More(r) = r + 1 /\ Q!More(q) = q + 1 /\ Q!More(w) = w + 1
    /\ r > 0 => Q!Less(r) = r - 1
    /\ w > 0 => Q!Less(w) = w - 1

Sizes ==
    /\ Cardinality(Readers) \in Nat /\ Cardinality(Writers) \in Nat /\ Cardinality(Q!Pending) \in Nat
    /\ Cardinality(ReadWaiters) \in Nat /\ Cardinality(WriteWaiters) \in Nat
    /\ Cardinality(WritePosters) \in Nat
    /\ Cardinality(Readers) = 0 => Readers = {}
    /\ Cardinality(Writers) = 0 => Writers = {}

LEMMA FieldsCount ==
    ASSUME NEW n \in Nat, n < 512
    PROVE  Q!Field(n) = n /\ Q!More(n) = n + 1 /\ (n > 0 => Q!Less(n) = n - 1)
<1>1. Q!Field(n) = n
  BY DEF Q!Field, Q!FieldModulus
<1>2. (n + 1) % 1024 = n + 1 /\ (n > 0 => (n - 1) % 1024 = n - 1)
  OBVIOUS
<1> QED
  BY <1>1, <1>2 DEF Q!More, Q!Less, Q!FieldModulus

LEMMA RWSemaLockCounts ==
    ASSUME FewThreads, RWSemaLockInv
    PROVE  Sizes /\ \E r, q, w, a, b \in Nat : Balance(r, q, w, a, b) /\ Fit(r, q, w)
<1>1. Sizes
  BY RWSemaLockShape DEF Sizes
<1>2. PICK r, q, w, a, b \in Nat :
        /\ word = [readers |-> r, waitToRead |-> q, writers |-> w]
        /\ r = word.readers /\ q = word.waitToRead /\ w = word.writers
        /\ sema = [read |-> a, write |-> b] /\ a = sema.read /\ b = sema.write
  BY RWSemaLockShape, Zenon
<1>3. /\ r + q = Cardinality(Readers) + Cardinality(ReadWaiters)
      /\ r = Cardinality(Readers) + a + Cardinality(Q!Pending)
      /\ w = Cardinality(Writers) + Cardinality(WriteWaiters)
      /\ Cardinality(Writers) + b + Cardinality(WritePosters) = IF w > 0 /\ r = 0 THEN 1 ELSE 0
      /\ r + q <= Cardinality(Threads) /\ w <= Cardinality(Threads) /\ Cardinality(Threads) \in Nat
  BY <1>2, RWSemaLockShape
<1>4. r < 512 /\ q < 512 /\ w < 512 /\ q <= Cardinality(Threads)
  BY <1>3 DEF FewThreads
<1>5. Balance(r, q, w, a, b)
  BY <1>2, <1>3 DEF Balance
<1>6. Fit(r, q, w)
  BY <1>4, FieldsCount DEF Fit
<1> QED
  BY <1>1, <1>5, <1>6

\* A step that takes a read lock: with the word, or with what a writer posted.
LEMMA QTakesRead ==
    ASSUME FewThreads, RWSemaLockInv, NEW t \in Threads, Q!ReadTryLock(t) \/ Q!ReadWait(t)
    PROVE  RWSemaLockInv' /\ [Abstract!Next]_<<reads, writes>>
<1>0. PICK r, q, w, a, b \in Nat : Balance(r, q, w, a, b) /\ Fit(r, q, w)
  BY RWSemaLockCounts
<1>1. Sizes /\ HoldersTypeOK /\ ~Holds(t) /\ GetRead(t) /\ seen' = seen
      /\ seen \in [Threads -> 0 .. Cardinality(Threads)] /\ "idle" \in Q!Labels
      /\ pc \in [Threads -> Q!Labels] /\ pc[t] \in {"idle", "readWait"}
  BY RWSemaLockCounts, RWSemaLockShape, QSame
     DEF Q!ReadTryLock, Q!ReadWait, Q!Labels, RWSemaLockInv, InsideHoldsNothing, MayLock
<1>2. Cardinality(Writers) = 0
  <2>1. CASE Q!ReadTryLock(t)
    <3>1. w = 0
      BY <1>0, <2>1 DEF Q!ReadTryLock, Balance, Fit
    <3> QED
      BY <1>0, <1>1, <3>1 DEF Sizes, Balance
  <2>2. CASE Q!ReadWait(t)
    <3>1. a > 0
      BY <1>0, <2>2 DEF Q!ReadWait, Balance
    <3> QED
      BY <1>0, <1>1, <3>1 DEF Sizes, Balance
  <2> QED
    BY <1>1, <2>1, <2>2
<1>3. Writers = {} /\ reads[t] = 0 /\ reads[t] < MaxReads /\ reads'[t] <= 1
  BY <1>1, <1>2, LockStateAssumption DEF Sizes, Holds, HoldersTypeOK, GetRead
<1>4. /\ HoldersTypeOK' /\ Abstract!AcquireRead(t) /\ Writers' = Writers
      /\ Cardinality(Readers') = Cardinality(Readers) + 1
  BY <1>1, <1>3, AfterGetRead
<1>5. /\ pc' = [pc EXCEPT ![t] = "idle"] /\ seen' = [seen EXCEPT ![t] = seen[t]]
      /\ seen[t] \in 0 .. Cardinality(Threads)
      /\ \A u \in Threads \ {t} : reads'[u] = reads[u] /\ writes'[u] = writes[u]
  BY <1>1 DEF GetRead, Goto, HoldersTypeOK
<1>6. /\ Cardinality(ReadWaiters') = Cardinality(ReadWaiters) - (IF pc[t] = "readWait" THEN 1 ELSE 0)
      /\ Cardinality(WriteWaiters') = Cardinality(WriteWaiters)
      /\ Cardinality(WritePosters') = Cardinality(WritePosters)
      /\ Cardinality(Q!Pending') = Cardinality(Q!Pending)
  <2>1. Moved(t, "idle", seen[t])
    BY <1>1, <1>5, WaitersMove
  <2> QED
    BY <1>1, <2>1 DEF Moved, Sizes
<1>7. \E r2, a2 \in Nat : Balance(r2, q, w, a2, b)'
  <2>1. CASE Q!ReadTryLock(t)
    <3>1. word' = [readers |-> r + 1, waitToRead |-> q, writers |-> w] /\ sema' = [read |-> a, write |-> b]
          /\ pc[t] = "idle" /\ w = 0
      BY <1>0, <2>1, QSame DEF Q!ReadTryLock, MayLock, Balance, Fit
    <3>2. Balance(r + 1, q, w, a, b)'
      <4>1. /\ (r + 1) + q = Cardinality(Readers') + Cardinality(ReadWaiters')
            /\ w = Cardinality(Writers') + Cardinality(WriteWaiters')
        BY <1>0, <1>1, <1>4, <1>6, <3>1 DEF Balance, Sizes
      <4>2. (r + 1) = Cardinality(Readers') + a + Cardinality(Q!Pending')
        BY <1>0, <1>1, <1>4, <1>6, <3>1 DEF Balance, Sizes
      <4>3. Cardinality(Writers) + b + Cardinality(WritePosters) = 0
        BY <1>0, <3>1 DEF Balance
      <4>4. Cardinality(Writers') + b + Cardinality(WritePosters') = 0
        BY <1>4, <1>6, <4>3
      <4> QED
        BY <3>1, <4>1, <4>2, <4>4 DEF Balance
    <3> QED
      BY <3>2
  <2>2. CASE Q!ReadWait(t)
    <3>1. word' = [readers |-> r, waitToRead |-> q, writers |-> w] /\ sema' = [read |-> a - 1, write |-> b]
          /\ a > 0 /\ pc[t] = "readWait"
      BY <1>0, <2>2 DEF Q!ReadWait, Balance
    <3>2. Balance(r, q, w, a - 1, b)'
      <4>1. /\ r + q = Cardinality(Readers') + Cardinality(ReadWaiters')
            /\ w = Cardinality(Writers') + Cardinality(WriteWaiters')
        BY <1>0, <1>1, <1>4, <1>6, <3>1 DEF Balance, Sizes
      <4>2. r = Cardinality(Readers') + (a - 1) + Cardinality(Q!Pending')
        BY <1>0, <1>1, <1>4, <1>6, <3>1 DEF Balance, Sizes
      <4>3. Cardinality(Writers') + b + Cardinality(WritePosters') = IF w > 0 /\ r = 0 THEN 1 ELSE 0
        BY <1>0, <1>1, <1>2, <1>4, <1>6, <3>1 DEF Balance, Sizes
      <4> QED
        BY <3>1, <4>1, <4>2, <4>3 DEF Balance
    <3>3. a - 1 \in Nat
      BY <3>1
    <3> QED
      BY <3>2, <3>3
  <2> QED
    BY <2>1, <2>2
<1>8. PICK r2, a2 \in Nat : Balance(r2, q, w, a2, b)'
  BY <1>7
<1>9. RWSemaLockInv'
  BY <1>1, <1>3, <1>4, <1>5, <1>8, RWSemaLockKeeps
<1> QED
  BY <1>4, <1>9 DEF Abstract!Next

\* A step in which thread t counts itself as one that waits.
LEMMA QWaits ==
    ASSUME FewThreads, RWSemaLockInv, NEW t \in Threads,
           Q!ReadLockWaits(t) \/ (Q!WriteLock(t) /\ Q!Busy)
    PROVE  RWSemaLockInv' /\ UNCHANGED <<reads, writes>>
<1>0. PICK r, q, w, a, b \in Nat : Balance(r, q, w, a, b) /\ Fit(r, q, w)
  BY RWSemaLockCounts
<1>1. PICK label \in {"readWait", "writeWait"} :
        /\ label = "readWait" <=> Q!ReadLockWaits(t)
        /\ Goto(t, label) /\ UNCHANGED <<reads, writes, sema, seen>> /\ MayLock(t)
        /\ word' = [readers |-> r, waitToRead |-> IF label = "readWait" THEN q + 1 ELSE q,
                    writers |-> IF label = "writeWait" THEN w + 1 ELSE w]
        /\ label = "writeWait" => r > 0 \/ w > 0
        /\ label = "readWait" => w > 0
  <2>1. CASE Q!ReadLockWaits(t)
    BY <1>0, <2>1, QSame DEF Q!ReadLockWaits, Balance, Fit
  <2>2. CASE Q!WriteLock(t) /\ Q!Busy /\ ~Q!ReadLockWaits(t)
    BY <1>0, <2>2, QSame DEF Q!WriteLock, Q!Busy, Balance, Fit
  <2> QED
    BY <2>1, <2>2
<1>2. /\ Sizes /\ HoldersTypeOK /\ label \in Q!Labels
      /\ seen \in [Threads -> 0 .. Cardinality(Threads)] /\ pc \in [Threads -> Q!Labels] /\ pc[t] = "idle"
      /\ reads'[t] = 0 /\ writes'[t] = 0 /\ reads'[t] <= 1
  BY <1>1, RWSemaLockCounts, RWSemaLockShape DEF Q!Labels, MayLock, Holds, HoldersTypeOK
<1>3. /\ pc' = [pc EXCEPT ![t] = label] /\ seen' = [seen EXCEPT ![t] = seen[t]]
      /\ seen[t] \in 0 .. Cardinality(Threads) /\ HoldersTypeOK'
      /\ \A u \in Threads \ {t} : reads'[u] = reads[u] /\ writes'[u] = writes[u]
  BY <1>1, <1>2 DEF Goto, HoldersTypeOK
<1>4. /\ Cardinality(ReadWaiters') = Cardinality(ReadWaiters) + (IF label = "readWait" THEN 1 ELSE 0)
      /\ Cardinality(WriteWaiters') = Cardinality(WriteWaiters) + (IF label = "writeWait" THEN 1 ELSE 0)
      /\ Cardinality(WritePosters') = Cardinality(WritePosters)
      /\ Cardinality(Q!Pending') = Cardinality(Q!Pending)
  <2>1. Moved(t, label, seen[t])
    BY <1>2, <1>3, WaitersMove
  <2> QED
    BY <1>1, <1>2, <2>1 DEF Moved, Sizes
<1>5. Readers' = Readers /\ Writers' = Writers /\ sema' = sema
  BY <1>1, AfterMove
<1>6. \E q2, w2 \in Nat : Balance(r, q2, w2, a, b)'
  <2>1. CASE label = "readWait"
    <3>1. Balance(r, q + 1, w, a, b)'
      BY <1>0, <1>1, <1>2, <1>4, <1>5, <2>1 DEF Balance, Sizes
    <3> QED
      BY <3>1
  <2>2. CASE label = "writeWait"
    <3>1. Balance(r, q, w + 1, a, b)'
      BY <1>0, <1>1, <1>2, <1>4, <1>5, <2>2 DEF Balance, Sizes
    <3> QED
      BY <3>1
  <2> QED
    BY <2>1, <2>2
<1>7. PICK q2, w2 \in Nat : Balance(r, q2, w2, a, b)'
  BY <1>6
<1>8. RWSemaLockInv'
  BY <1>2, <1>3, <1>7, RWSemaLockKeeps
<1> QED
  BY <1>1, <1>8

\* A step that takes the write lock: with the word, or after a post.
LEMMA QTakesWrite ==
    ASSUME FewThreads, RWSemaLockInv, NEW t \in Threads,
           (Q!WriteLock(t) /\ ~Q!Busy) \/ Q!WriteTryLock(t) \/ Q!WriteWait(t)
    PROVE  RWSemaLockInv' /\ [Abstract!Next]_<<reads, writes>>
<1>0. PICK r, q, w, a, b \in Nat : Balance(r, q, w, a, b) /\ Fit(r, q, w)
  BY RWSemaLockCounts
<1>1. Sizes /\ HoldersTypeOK /\ ~Holds(t) /\ GetWrite(t) /\ seen' = seen
      /\ seen \in [Threads -> 0 .. Cardinality(Threads)] /\ "idle" \in Q!Labels
      /\ pc \in [Threads -> Q!Labels] /\ pc[t] \in {"idle", "writeWait"}
  BY RWSemaLockCounts, RWSemaLockShape, QSame
     DEF Q!WriteLock, Q!WriteTryLock, Q!WriteWait, Q!Labels, RWSemaLockInv, InsideHoldsNothing, MayLock
<1>2. r = 0 /\ Cardinality(Readers) = 0 /\ Cardinality(Writers) = 0
  <2>1. CASE ~Q!Busy
    <3>1. r = 0 /\ w = 0
      BY <1>0, <2>1 DEF Q!Busy, Balance, Fit
    <3>2. 0 = Cardinality(Readers) + a + Cardinality(Q!Pending) /\ 0 = Cardinality(Writers) + Cardinality(WriteWaiters)
      BY <1>0, <3>1 DEF Balance
    <3>3. Cardinality(Readers) = 0
      <4>1. Cardinality(Readers) \in Nat /\ Cardinality(Q!Pending) \in Nat
        BY <1>1 DEF Sizes
      <4>2. \A x, y, z \in Nat : 0 = x + y + z => x = 0
        OBVIOUS
      <4> QED
        BY <1>0, <3>2, <4>1, <4>2
    <3>4. Cardinality(Writers) = 0
      BY <1>1, <3>2 DEF Sizes
    <3> QED
      BY <3>1, <3>3, <3>4
  <2>2. CASE Q!WriteWait(t)
    <3>1. b > 0
      BY <1>0, <2>2 DEF Q!WriteWait, Balance
    <3>2. r = 0 /\ Cardinality(Writers) + b + Cardinality(WritePosters) = 1
      BY <1>0, <1>1, <3>1 DEF Sizes, Balance
    <3> QED
      BY <1>0, <1>1, <3>1, <3>2 DEF Sizes, Balance
  <2> QED
    BY <2>1, <2>2 DEF Q!WriteTryLock
<1>3. Writers = {} /\ Readers = {} /\ reads'[t] <= 1
  BY <1>1, <1>2 DEF Sizes, Holds, HoldersTypeOK, GetWrite
<1>4. /\ HoldersTypeOK' /\ Abstract!AcquireWrite(t) /\ Readers' = Readers
      /\ Cardinality(Writers') = 1
  BY <1>1, <1>3, AfterGetWrite
<1>5. /\ pc' = [pc EXCEPT ![t] = "idle"] /\ seen' = [seen EXCEPT ![t] = seen[t]]
      /\ seen[t] \in 0 .. Cardinality(Threads)
      /\ \A u \in Threads \ {t} : reads'[u] = reads[u] /\ writes'[u] = writes[u]
  BY <1>1 DEF GetWrite, Goto, HoldersTypeOK
<1>6. /\ Cardinality(ReadWaiters') = Cardinality(ReadWaiters)
      /\ Cardinality(WriteWaiters') = Cardinality(WriteWaiters) - (IF pc[t] = "writeWait" THEN 1 ELSE 0)
      /\ Cardinality(WritePosters') = Cardinality(WritePosters)
      /\ Cardinality(Q!Pending') = Cardinality(Q!Pending)
  <2>1. Moved(t, "idle", seen[t])
    BY <1>1, <1>5, WaitersMove
  <2> QED
    BY <1>1, <2>1 DEF Moved, Sizes
<1>7. \E w2, b2 \in Nat : Balance(r, q, w2, a, b2)'
  <2>0. /\ r + q = Cardinality(Readers') + Cardinality(ReadWaiters')
        /\ r = Cardinality(Readers') + a + Cardinality(Q!Pending')
    BY <1>0, <1>4, <1>6 DEF Balance
  <2>1. CASE ~Q!WriteWait(t)
    <3>1. word' = [readers |-> r, waitToRead |-> q, writers |-> w + 1] /\ sema' = [read |-> a, write |-> b]
          /\ pc[t] = "idle" /\ w = 0
      BY <1>0, <2>1, QSame DEF Q!WriteLock, Q!WriteTryLock, Q!Busy, MayLock, Balance, Fit
    <3>2. w + 1 = Cardinality(Writers') + Cardinality(WriteWaiters')
      BY <1>0, <1>1, <1>2, <1>4, <1>6, <3>1 DEF Balance, Sizes
    <3>3. Cardinality(Writers) + b + Cardinality(WritePosters) = 0
      BY <1>0, <3>1 DEF Balance
    <3>4. Cardinality(Writers') + b + Cardinality(WritePosters') = 1
      BY <1>0, <1>1, <1>2, <1>4, <1>6, <3>3 DEF Sizes
    <3>5. Balance(r, q, w + 1, a, b)'
      BY <1>0, <1>2, <2>0, <3>1, <3>2, <3>4 DEF Balance
    <3> QED
      BY <3>5
  <2>2. CASE Q!WriteWait(t)
    <3>1. word' = [readers |-> r, waitToRead |-> q, writers |-> w] /\ sema' = [read |-> a, write |-> b - 1]
          /\ b > 0 /\ pc[t] = "writeWait"
      BY <1>0, <2>2 DEF Q!WriteWait, Balance
    <3>2. w = Cardinality(Writers') + Cardinality(WriteWaiters')
      BY <1>0, <1>1, <1>2, <1>4, <1>6, <3>1 DEF Balance, Sizes
    <3>3. Cardinality(Writers) + b + Cardinality(WritePosters) = 1 /\ w > 0
      BY <1>0, <1>1, <3>1 DEF Balance, Sizes
    <3>4. Cardinality(Writers') + (b - 1) + Cardinality(WritePosters') = 1
      BY <1>0, <1>1, <1>2, <1>4, <1>6, <3>3 DEF Sizes
    <3>5. Balance(r, q, w, a, b - 1)'
      BY <1>0, <1>2, <2>0, <3>1, <3>2, <3>3, <3>4 DEF Balance
    <3>6. b - 1 \in Nat
      BY <3>1
    <3> QED
      BY <3>5, <3>6
  <2> QED
    BY <2>1, <2>2
<1>8. PICK w2, b2 \in Nat : Balance(r, q, w2, a, b2)'
  BY <1>7
<1>9. RWSemaLockInv'
  BY <1>1, <1>3, <1>4, <1>5, <1>8, RWSemaLockKeeps
<1> QED
  BY <1>4, <1>9 DEF Abstract!Next

\* The last reader posts to a writer that waits.
LEMMA QUnlocksRead ==
    ASSUME FewThreads, RWSemaLockInv, NEW t \in Threads, Q!ReadUnlock(t)
    PROVE  RWSemaLockInv' /\ [Abstract!Next]_<<reads, writes>>
<1>0. PICK r, q, w, a, b \in Nat : Balance(r, q, w, a, b) /\ Fit(r, q, w)
  BY RWSemaLockCounts
<1> DEFINE label == IF r = 1 /\ w > 0 THEN "postWrite" ELSE "idle"
<1>1. Sizes /\ HoldersTypeOK /\ DropRead(t) /\ seen' = seen
      /\ seen \in [Threads -> 0 .. Cardinality(Threads)] /\ label \in Q!Labels
      /\ pc \in [Threads -> Q!Labels] /\ pc[t] = "idle"
  BY RWSemaLockCounts, RWSemaLockShape, QSame DEF Q!ReadUnlock, Q!Labels
<1>2. reads[t] = 1 /\ reads'[t] = 0 /\ writes'[t] = writes[t]
  BY <1>1 DEF RWSemaLockInv, ReadsOnce, DropRead, HoldersTypeOK
<1>3. /\ HoldersTypeOK' /\ Abstract!ReleaseRead(t) /\ Writers' = Writers
      /\ Cardinality(Readers') = Cardinality(Readers) - 1 /\ Cardinality(Readers) > 0
  BY <1>1, <1>2, AfterDropRead
<1>4. r > 0
  BY <1>0, <1>1, <1>3 DEF Balance, Sizes
<1>5. /\ Goto(t, label) /\ word' = [readers |-> r - 1, waitToRead |-> q, writers |-> w]
      /\ sema' = [read |-> a, write |-> b]
  BY <1>0, <1>4, QSame DEF Q!ReadUnlock, Balance, Fit
<1>6. Cardinality(Writers) + b + Cardinality(WritePosters) = 0 /\ Cardinality(Writers) = 0
  BY <1>0, <1>1, <1>4 DEF Balance, Sizes
<1>7. writes'[t] = 0
  <2>1. Writers = {}
    BY <1>1, <1>6 DEF Sizes
  <2> QED
    BY <1>1, <1>2, <2>1 DEF Writers, HoldersTypeOK
<1> HIDE DEF label
<1>8. /\ pc' = [pc EXCEPT ![t] = label] /\ seen' = [seen EXCEPT ![t] = seen[t]]
      /\ seen[t] \in 0 .. Cardinality(Threads) /\ reads'[t] <= 1
      /\ \A u \in Threads \ {t} : reads'[u] = reads[u] /\ writes'[u] = writes[u]
  BY <1>1, <1>2, <1>5 DEF DropRead, Goto, HoldersTypeOK
<1>9. /\ Cardinality(ReadWaiters') = Cardinality(ReadWaiters)
      /\ Cardinality(WriteWaiters') = Cardinality(WriteWaiters)
      /\ Cardinality(WritePosters') = Cardinality(WritePosters) + (IF r = 1 /\ w > 0 THEN 1 ELSE 0)
      /\ Cardinality(Q!Pending') = Cardinality(Q!Pending)
  <2>1. Moved(t, label, seen[t])
    BY <1>1, <1>8, WaitersMove
  <2>2. label \in {"postWrite", "idle"} /\ (label = "postWrite" <=> r = 1 /\ w > 0)
    BY DEF label
  <2> QED
    BY <1>1, <2>1, <2>2 DEF Moved, Sizes
<1>10. Balance(r - 1, q, w, a, b)'
  <2>1. (r - 1) + q = Cardinality(Readers') + Cardinality(ReadWaiters')
    <3>1. r + q = Cardinality(Readers) + Cardinality(ReadWaiters)
      BY <1>0 DEF Balance
    <3> QED
      BY <1>0, <1>1, <1>3, <1>9, <3>1 DEF Sizes
  <2>2. r - 1 = Cardinality(Readers') + a + Cardinality(Q!Pending')
    BY <1>0, <1>1, <1>3, <1>9 DEF Balance, Sizes
  <2>3. w = Cardinality(Writers') + Cardinality(WriteWaiters')
    BY <1>0, <1>3, <1>9 DEF Balance
  <2>4. Cardinality(Writers') + b + Cardinality(WritePosters') = IF w > 0 /\ r - 1 = 0 THEN 1 ELSE 0
    <3>1. Cardinality(Writers') = 0 /\ b = 0 /\ Cardinality(WritePosters) = 0
      BY <1>0, <1>1, <1>3, <1>6 DEF Sizes
    <3> QED
      BY <1>0, <1>4, <1>9, <3>1
  <2> QED
    BY <1>5, <2>1, <2>2, <2>3, <2>4 DEF Balance
<1>11. r - 1 \in Nat
  BY <1>4
<1>12. RWSemaLockInv'
  BY <1>0, <1>1, <1>2, <1>3, <1>7, <1>8, <1>10, <1>11, RWSemaLockKeeps
<1> QED
  BY <1>3, <1>12 DEF Abstract!Next

\* The writer lets the readers in that wait, or else posts to the next writer.
LEMMA QUnlocksWrite ==
    ASSUME FewThreads, RWSemaLockInv, NEW t \in Threads, Q!WriteUnlock(t)
    PROVE  RWSemaLockInv' /\ [Abstract!Next]_<<reads, writes>>
<1>0. PICK r, q, w, a, b \in Nat : Balance(r, q, w, a, b) /\ Fit(r, q, w)
  BY RWSemaLockCounts
<1>1. Sizes /\ HoldersTypeOK /\ DropWrite(t) /\ sema' = sema /\ OneWriter /\ WritersExcludeReaders
      /\ seen \in [Threads -> 0 .. Cardinality(Threads)] /\ Cardinality(Threads) \in Nat
      /\ pc \in [Threads -> Q!Labels] /\ pc[t] = "idle"
  BY RWSemaLockCounts, RWSemaLockShape, QSame DEF Q!WriteUnlock
<1>2. /\ HoldersTypeOK' /\ Abstract!ReleaseWrite(t) /\ Readers = {} /\ Readers' = {}
      /\ Cardinality(Writers) = 1 /\ Cardinality(Writers') = 0
      /\ reads'[t] = 0 /\ writes'[t] = 0 /\ reads'[t] <= 1
      /\ \A u \in Threads \ {t} : reads'[u] = reads[u] /\ writes'[u] = writes[u]
  <2>1. /\ HoldersTypeOK' /\ Abstract!ReleaseWrite(t) /\ Readers = {} /\ Readers' = {}
        /\ Cardinality(Writers) = 1 /\ Cardinality(Writers') = 0
    BY <1>1, AfterDropWrite
  <2>2. /\ reads'[t] = 0 /\ writes'[t] = 0
        /\ \A u \in Threads \ {t} : reads'[u] = reads[u] /\ writes'[u] = writes[u]
    BY <1>1, <2>1 DEF DropWrite, Readers, HoldersTypeOK
  <2> QED
    BY <2>1, <2>2
<1>3. Cardinality(Readers) = 0 /\ Cardinality(Readers') = 0
  BY <1>2, FS_EmptySet
<1>4. Cardinality(Writers) + b + Cardinality(WritePosters) = IF w > 0 /\ r = 0 THEN 1 ELSE 0
  BY <1>0 DEF Balance
<1>5. w > 0 /\ r = 0 /\ b = 0 /\ Cardinality(WritePosters) = 0
  BY <1>0, <1>1, <1>2, <1>4 DEF Sizes
<1>6. /\ q = Cardinality(ReadWaiters)
      /\ 0 = a + Cardinality(Q!Pending)
      /\ w = 1 + Cardinality(WriteWaiters)
  <2>1. /\ 0 + q = 0 + Cardinality(ReadWaiters)
        /\ 0 = 0 + a + Cardinality(Q!Pending)
        /\ w = 1 + Cardinality(WriteWaiters)
    BY <1>0, <1>2, <1>3, <1>5 DEF Balance
  <2> QED
    BY <1>0, <1>1, <2>1 DEF Sizes
<1>7. a = 0 /\ Cardinality(Q!Pending) = 0
  BY <1>0, <1>1, <1>6 DEF Sizes
<1> DEFINE label == IF q # 0 THEN "postRead" ELSE IF w > 1 THEN "postWrite" ELSE "idle"
           n == IF q # 0 THEN q ELSE seen[t]
<1>8. /\ Goto(t, label) /\ seen' = [seen EXCEPT ![t] = n]
      /\ word' = [readers |-> q, waitToRead |-> 0, writers |-> w - 1] /\ sema' = [read |-> 0, write |-> 0]
  BY <1>0, <1>1, <1>5, <1>7, QSame DEF Q!WriteUnlock, Balance, Fit
<1>9. /\ label \in {"postRead", "postWrite", "idle"} /\ label \in Q!Labels
      /\ (label = "postRead" <=> q # 0) /\ (label = "postWrite" <=> q = 0 /\ w > 1)
      /\ n \in 0 .. Cardinality(Threads) /\ (q # 0 => n = q)
  BY <1>0, <1>1 DEF Q!Labels, Fit
<1> HIDE DEF label, n
<1>10. pc' = [pc EXCEPT ![t] = label]
  BY <1>8 DEF Goto
<1>11. /\ Cardinality(ReadWaiters') = Cardinality(ReadWaiters)
       /\ Cardinality(WriteWaiters') = Cardinality(WriteWaiters)
       /\ Cardinality(WritePosters') = IF q = 0 /\ w > 1 THEN 1 ELSE 0
       /\ Cardinality(Q!Pending') = q
  <2>1. Moved(t, label, n)
    BY <1>8, <1>9, <1>10, WaitersMove
  <2>2. /\ Cardinality(ReadWaiters') = Cardinality(ReadWaiters)
        /\ Cardinality(WriteWaiters') = Cardinality(WriteWaiters)
    BY <1>1, <1>9, <2>1 DEF Moved, Sizes
  <2>3. Cardinality(WritePosters') = IF q = 0 /\ w > 1 THEN 1 ELSE 0
    BY <1>1, <1>5, <1>9, <2>1 DEF Moved
  <2>4. Cardinality(Q!Pending') = q
    BY <1>0, <1>1, <1>7, <1>9, <2>1 DEF Moved
  <2> QED
    BY <2>2, <2>3, <2>4
<1>12. Balance(q, 0, w - 1, 0, 0)'
  <2>1. q + 0 = Cardinality(Readers') + Cardinality(ReadWaiters')
    BY <1>0, <1>3, <1>6, <1>11
  <2>2. q = Cardinality(Readers') + 0 + Cardinality(Q!Pending')
    BY <1>0, <1>3, <1>11
  <2>3. w - 1 = Cardinality(Writers') + Cardinality(WriteWaiters')
    BY <1>0, <1>1, <1>2, <1>6, <1>11 DEF Sizes
  <2>4. Cardinality(Writers') + 0 + Cardinality(WritePosters') = IF w - 1 > 0 /\ q = 0 THEN 1 ELSE 0
    BY <1>0, <1>2, <1>11
  <2> QED
    BY <1>8, <2>1, <2>2, <2>3, <2>4 DEF Balance
<1>13. w - 1 \in Nat
  BY <1>0, <1>5
<1>14. RWSemaLockInv'
  BY <1>0, <1>2, <1>8, <1>9, <1>10, <1>12, <1>13, RWSemaLockKeeps
<1> QED
  BY <1>2, <1>14 DEF Abstract!Next

\* The semaphore gets what the thread that unlocked decided to post.
LEMMA QPosts ==
    ASSUME FewThreads, RWSemaLockInv, NEW t \in Threads, Q!Post(t)
    PROVE  RWSemaLockInv' /\ UNCHANGED <<reads, writes>>
<1>0. PICK r, q, w, a, b \in Nat : Balance(r, q, w, a, b) /\ Fit(r, q, w)
  BY RWSemaLockCounts
<1>1. /\ Sizes /\ HoldersTypeOK /\ "idle" \in Q!Labels /\ Cardinality(Threads) \in Nat
      /\ seen \in [Threads -> 0 .. Cardinality(Threads)] /\ pc \in [Threads -> Q!Labels]
      /\ Goto(t, "idle") /\ seen' = [seen EXCEPT ![t] = 0] /\ UNCHANGED <<word, reads, writes>>
      /\ pc[t] \in {"postRead", "postWrite"} /\ seen[t] \in 0 .. Cardinality(Threads)
  BY RWSemaLockCounts, RWSemaLockShape, QSame DEF Q!Labels, Q!Post
<1>2. /\ pc' = [pc EXCEPT ![t] = "idle"] /\ 0 \in 0 .. Cardinality(Threads) /\ HoldersTypeOK'
      /\ \A u \in Threads \ {t} : reads'[u] = reads[u] /\ writes'[u] = writes[u]
      /\ reads'[t] <= 1
  BY <1>1 DEF Goto, HoldersTypeOK, RWSemaLockInv, ReadsOnce
<1>3. /\ Cardinality(ReadWaiters') = Cardinality(ReadWaiters)
      /\ Cardinality(WriteWaiters') = Cardinality(WriteWaiters)
      /\ Cardinality(WritePosters') = Cardinality(WritePosters) - (IF pc[t] = "postWrite" THEN 1 ELSE 0)
      /\ Cardinality(Q!Pending') = Cardinality(Q!Pending) - (IF pc[t] = "postRead" THEN seen[t] ELSE 0)
  <2>1. Moved(t, "idle", 0)
    BY <1>1, <1>2, WaitersMove
  <2> QED
    BY <1>1, <2>1 DEF Moved, Sizes
<1>4. Readers' = Readers /\ Writers' = Writers
  BY <1>1, AfterMove
<1>5. /\ r + q = Cardinality(Readers') + Cardinality(ReadWaiters')
      /\ w = Cardinality(Writers') + Cardinality(WriteWaiters')
      /\ word' = [readers |-> r, waitToRead |-> q, writers |-> w]
      /\ r = Cardinality(Readers) + a + Cardinality(Q!Pending)
      /\ Cardinality(Writers) + b + Cardinality(WritePosters) = IF w > 0 /\ r = 0 THEN 1 ELSE 0
  BY <1>0, <1>1, <1>3, <1>4 DEF Balance
<1>6. \E a2, b2 \in Nat : Balance(r, q, w, a2, b2)'
  <2>1. CASE pc[t] = "postRead"
    <3>0. PICK k \in Nat : k = seen[t]
      BY <1>1
    <3>1. sema' = [read |-> a + k, write |-> b]
      BY <1>0, <1>1, <2>1, <3>0 DEF Q!Post, Balance
    <3>2. r = Cardinality(Readers') + (a + k) + Cardinality(Q!Pending')
      BY <1>0, <1>1, <1>3, <1>4, <1>5, <2>1, <3>0 DEF Sizes
    <3>3. Balance(r, q, w, a + k, b)'
      BY <1>1, <1>3, <1>4, <1>5, <2>1, <3>1, <3>2 DEF Balance, Sizes
    <3>4. a + k \in Nat
      BY <1>0, <1>1
    <3> QED
      BY <1>0, <3>3, <3>4
  <2>2. CASE pc[t] = "postWrite"
    <3>1. sema' = [read |-> a, write |-> b + 1]
      BY <1>0, <1>1, <2>2 DEF Q!Post, Balance
    <3>2. Cardinality(Writers') + (b + 1) + Cardinality(WritePosters') = IF w > 0 /\ r = 0 THEN 1 ELSE 0
      BY <1>0, <1>1, <1>3, <1>4, <1>5, <2>2 DEF Sizes
    <3>3. Balance(r, q, w, a, b + 1)'
      BY <1>1, <1>3, <1>4, <1>5, <2>2, <3>1, <3>2 DEF Balance, Sizes
    <3>4. b + 1 \in Nat
      BY <1>0
    <3> QED
      BY <1>0, <3>3, <3>4
  <2> QED
    BY <1>1, <2>1, <2>2
<1>7. PICK a2, b2 \in Nat : Balance(r, q, w, a2, b2)'
  BY <1>6
<1>8. RWSemaLockInv'
  BY <1>0, <1>1, <1>2, <1>7, RWSemaLockKeeps
<1> QED
  BY <1>1, <1>8

LEMMA RWSemaLockStep ==
    ASSUME FewThreads, RWSemaLockInv, Q!Next
    PROVE  RWSemaLockInv' /\ [Abstract!Next]_<<reads, writes>>
<1>1. PICK t \in Threads : Q!Step(t) \/ Q!Call(t) \/ Q!Unlock(t)
  BY DEF Q!Next
<1>2. CASE Q!ReadTryLock(t) \/ Q!ReadWait(t)
  BY <1>2, QTakesRead
<1>3. CASE Q!ReadLockWaits(t) \/ (Q!WriteLock(t) /\ Q!Busy)
  BY <1>3, QWaits
<1>4. CASE (Q!WriteLock(t) /\ ~Q!Busy) \/ Q!WriteTryLock(t) \/ Q!WriteWait(t)
  BY <1>4, QTakesWrite
<1>5. CASE Q!ReadUnlock(t)
  BY <1>5, QUnlocksRead
<1>6. CASE Q!WriteUnlock(t)
  BY <1>6, QUnlocksWrite
<1>7. CASE Q!Post(t)
  BY <1>7, QPosts
<1> QED
  BY <1>1, <1>2, <1>3, <1>4, <1>5, <1>6, <1>7 DEF Q!Step, Q!Call, Q!ReadLock, Q!Unlock
-----------------------------------------------------------------------------
(* RWMutex and RWMutexIP, which have the same fields.                      *)

LEMMA MSame ==
    /\ \A A : M!Cardinality(A) = Cardinality(A)
    /\ \A t, label : M!Goto(t, label) <=> Goto(t, label)
    /\ \A t, label : M!Move(t, label) <=> Move(t, label)
    /\ \A L : M!At(L) = At(L) /\ M!At(L)' = At(L)'
    /\ \A t : M!Holds(t) <=> Holds(t)
    /\ M!Readers = Readers /\ M!Readers' = Readers'
    /\ M!Writers = Writers /\ M!Writers' = Writers'
    /\ M!ReadLocks = ReadLocks /\ M!ReadLocks' = ReadLocks'
    /\ \A t : M!MayLock(t) <=> MayLock(t)
    /\ \A t : M!MayReadAgain(t) <=> MayReadAgain(t)
    /\ \A t : M!GetRead(t) <=> GetRead(t)
    /\ \A t : M!GetWrite(t) <=> GetWrite(t)
    /\ \A t : M!DropRead(t) <=> DropRead(t)
    /\ \A t : M!DropWrite(t) <=> DropWrite(t)
    /\ \A loaded : M!InitUsers(loaded) <=> InitUsers(loaded)
    /\ \A labels : (M!UsersTypeOK(labels) <=> UsersTypeOK(labels)) /\ (M!UsersTypeOK(labels)' <=> UsersTypeOK(labels)')
BY DEF M!At, At, M!Cardinality, Cardinality, M!DropRead, DropRead, M!DropWrite, DropWrite,
   M!GetRead, GetRead, M!GetWrite, GetWrite, M!Goto, Goto, M!Holds, Holds, M!InitUsers, InitUsers,
   M!IsFiniteSet, IsFiniteSet, M!MayLock, MayLock, M!MayReadAgain, MayReadAgain, M!Move, Move,
   M!ReadLocks, ReadLocks, M!Readers, Readers, M!UsersTypeOK, UsersTypeOK, M!Writers, Writers


LEMMA PSame ==
    /\ \A A : P!Cardinality(A) = Cardinality(A)
    /\ \A t, label : P!Goto(t, label) <=> Goto(t, label)
    /\ \A t, label : P!Move(t, label) <=> Move(t, label)
    /\ \A L : P!At(L) = At(L) /\ P!At(L)' = At(L)'
    /\ \A t : P!Holds(t) <=> Holds(t)
    /\ P!Readers = Readers /\ P!Readers' = Readers'
    /\ P!Writers = Writers /\ P!Writers' = Writers'
    /\ P!ReadLocks = ReadLocks /\ P!ReadLocks' = ReadLocks'
    /\ \A t : P!MayLock(t) <=> MayLock(t)
    /\ \A t : P!MayReadAgain(t) <=> MayReadAgain(t)
    /\ \A t : P!GetRead(t) <=> GetRead(t)
    /\ \A t : P!GetWrite(t) <=> GetWrite(t)
    /\ \A t : P!DropRead(t) <=> DropRead(t)
    /\ \A t : P!DropWrite(t) <=> DropWrite(t)
    /\ \A loaded : P!InitUsers(loaded) <=> InitUsers(loaded)
    /\ \A labels : (P!UsersTypeOK(labels) <=> UsersTypeOK(labels)) /\ (P!UsersTypeOK(labels)' <=> UsersTypeOK(labels)')
BY DEF P!At, At, P!Cardinality, Cardinality, P!DropRead, DropRead, P!DropWrite, DropWrite,
   P!GetRead, GetRead, P!GetWrite, GetWrite, P!Goto, Goto, P!Holds, Holds, P!InitUsers, InitUsers,
   P!IsFiniteSet, IsFiniteSet, P!MayLock, MayLock, P!MayReadAgain, MayReadAgain, P!Move, Move,
   P!ReadLocks, ReadLocks, P!Readers, Readers, P!UsersTypeOK, UsersTypeOK, P!Writers, Writers


RWMutexInv == M!TypeOK /\ M!WordIsExact /\ OneWriter /\ WritersExcludeReaders /\ InsideHoldsNothing
RWMutexIPInv == P!TypeOK /\ P!WordIsExact /\ OneWriter /\ WritersExcludeReaders /\ InsideHoldsNothing

ReadSide == At({"readWait", "readWoken", "readExpired"})
WriteSide == At({"writeWait", "writeWoken", "writeExpired"})
Writer == IF Writers = {} THEN None ELSE CHOOSE t \in Writers : TRUE

\* What both say of the fields.
FieldsAre(r, m, q, w) ==
    /\ word = [mnReaders |-> r, mThreadIdWriter |-> m, mnReadWaiters |-> q, mnWriteWaiters |-> w]
    /\ r = Cardinality(ReadLocks) /\ m = Writer
    /\ q = Cardinality(ReadSide) /\ w = Cardinality(WriteSide)

FieldsInv ==
    /\ HoldersTypeOK /\ OneWriter /\ WritersExcludeReaders /\ InsideHoldsNothing
    /\ pc \in [Threads -> M!Labels] /\ sema \in [read : Nat, write : Nat]
    /\ \E r, q, w \in Nat, m \in Threads \cup {None} : FieldsAre(r, m, q, w)

IPLimits ==
    /\ pc \in [Threads -> P!Labels]
    /\ sema.read <= SemaphoreMax /\ sema.write <= SemaphoreMax

LEMMA FieldsSplit ==
    ASSUME NEW wd
    PROVE  wd \in [mnReaders : Nat, mThreadIdWriter : Threads \cup {None}, mnReadWaiters : Nat, mnWriteWaiters : Nat]
           <=> \E r, q, w \in Nat, m \in Threads \cup {None} :
                   wd = [mnReaders |-> r, mThreadIdWriter |-> m, mnReadWaiters |-> q, mnWriteWaiters |-> w]
<1>1. ASSUME wd \in [mnReaders : Nat, mThreadIdWriter : Threads \cup {None}, mnReadWaiters : Nat, mnWriteWaiters : Nat]
      PROVE  \E r, q, w \in Nat, m \in Threads \cup {None} :
                 wd = [mnReaders |-> r, mThreadIdWriter |-> m, mnReadWaiters |-> q, mnWriteWaiters |-> w]
  <2>1. wd = [mnReaders |-> wd.mnReaders, mThreadIdWriter |-> wd.mThreadIdWriter,
              mnReadWaiters |-> wd.mnReadWaiters, mnWriteWaiters |-> wd.mnWriteWaiters]
    BY <1>1
  <2>2. wd.mnReaders \in Nat
    BY <1>1
  <2>3. wd.mnReadWaiters \in Nat
    BY <1>1
  <2>4. wd.mnWriteWaiters \in Nat
    BY <1>1
  <2>5. wd.mThreadIdWriter \in Threads \cup {None}
    BY <1>1
  <2> QED
    BY <2>1, <2>2, <2>3, <2>4, <2>5, Zenon
<1>2. ASSUME NEW r \in Nat, NEW q \in Nat, NEW w \in Nat, NEW m \in Threads \cup {None},
             wd = [mnReaders |-> r, mThreadIdWriter |-> m, mnReadWaiters |-> q, mnWriteWaiters |-> w]
      PROVE  wd \in [mnReaders : Nat, mThreadIdWriter : Threads \cup {None}, mnReadWaiters : Nat, mnWriteWaiters : Nat]
  BY <1>2
<1> QED
  BY <1>1, <1>2

LEMMA RWMutexFields == (RWMutexInv <=> FieldsInv) /\ (RWMutexInv' <=> FieldsInv')
<1> USE MSame DEF RWMutexInv, FieldsInv, M!TypeOK, UsersTypeOK, HoldersTypeOK
<1>1. ASSUME RWMutexInv PROVE FieldsInv
  <2>1. PICK r, q, w \in Nat, m \in Threads \cup {None} :
          word = [mnReaders |-> r, mThreadIdWriter |-> m, mnReadWaiters |-> q, mnWriteWaiters |-> w]
    BY <1>1, FieldsSplit
  <2>2. FieldsAre(r, m, q, w)
    BY <1>1, <2>1 DEF FieldsAre, M!WordIsExact, ReadSide, WriteSide, Writer
  <2> QED
    BY <1>1, <2>1, <2>2
<1>2. ASSUME FieldsInv PROVE RWMutexInv
  <2>1. PICK r, q, w \in Nat, m \in Threads \cup {None} : FieldsAre(r, m, q, w)
    BY <1>2
  <2>2. word \in [mnReaders : Nat, mThreadIdWriter : Threads \cup {None}, mnReadWaiters : Nat, mnWriteWaiters : Nat]
    BY <2>1, FieldsSplit DEF FieldsAre
  <2>3. M!WordIsExact
    BY <2>1 DEF FieldsAre, M!WordIsExact, ReadSide, WriteSide, Writer
  <2> QED
    BY <1>2, <2>2, <2>3
<1>3. ASSUME RWMutexInv' PROVE FieldsInv'
  <2>1. PICK r, q, w \in Nat, m \in Threads \cup {None} :
          word' = [mnReaders |-> r, mThreadIdWriter |-> m, mnReadWaiters |-> q, mnWriteWaiters |-> w]
    BY <1>3, FieldsSplit
  <2>2. FieldsAre(r, m, q, w)'
    BY <1>3, <2>1 DEF FieldsAre, M!WordIsExact, ReadSide, WriteSide, Writer
  <2> QED
    BY <1>3, <2>1, <2>2
<1>4. ASSUME FieldsInv' PROVE RWMutexInv'
  <2>1. PICK r, q, w \in Nat, m \in Threads \cup {None} : FieldsAre(r, m, q, w)'
    BY <1>4
  <2>2. word' \in [mnReaders : Nat, mThreadIdWriter : Threads \cup {None}, mnReadWaiters : Nat, mnWriteWaiters : Nat]
    BY <2>1, FieldsSplit DEF FieldsAre
  <2>3. M!WordIsExact'
    BY <2>1 DEF FieldsAre, M!WordIsExact, ReadSide, WriteSide, Writer
  <2> QED
    BY <1>4, <2>2, <2>3
<1> QED
  BY <1>1, <1>2, <1>3, <1>4

LEMMA RWMutexIPFields == (RWMutexIPInv <=> FieldsInv /\ IPLimits) /\ (RWMutexIPInv' <=> FieldsInv' /\ IPLimits')
<1> USE PSame DEF RWMutexIPInv, FieldsInv, IPLimits, P!TypeOK, UsersTypeOK, HoldersTypeOK
<1>0. /\ IPLimits => ReadSide = At({"readWait", "readWoken"}) /\ WriteSide = At({"writeWait", "writeWoken"})
      /\ IPLimits' => ReadSide' = At({"readWait", "readWoken"})' /\ WriteSide' = At({"writeWait", "writeWoken"})'
      /\ P!Labels \subseteq M!Labels
  BY DEF IPLimits, ReadSide, WriteSide, At, P!Labels, M!Labels
<1>1. ASSUME RWMutexIPInv PROVE FieldsInv /\ IPLimits
  <2>1. PICK r, q, w \in Nat, m \in Threads \cup {None} :
          word = [mnReaders |-> r, mThreadIdWriter |-> m, mnReadWaiters |-> q, mnWriteWaiters |-> w]
    BY <1>1, FieldsSplit
  <2>2. FieldsAre(r, m, q, w)
    BY <1>0, <1>1, <2>1 DEF FieldsAre, P!WordIsExact, Writer
  <2> QED
    BY <1>0, <1>1, <2>1, <2>2
<1>2. ASSUME FieldsInv, IPLimits PROVE RWMutexIPInv
  <2>1. PICK r, q, w \in Nat, m \in Threads \cup {None} : FieldsAre(r, m, q, w)
    BY <1>2
  <2>2. word \in [mnReaders : Nat, mThreadIdWriter : Threads \cup {None}, mnReadWaiters : Nat, mnWriteWaiters : Nat]
    BY <2>1, FieldsSplit DEF FieldsAre
  <2>3. P!WordIsExact
    BY <1>0, <1>2, <2>1 DEF FieldsAre, P!WordIsExact, Writer
  <2> QED
    BY <1>2, <2>2, <2>3
<1>3. ASSUME RWMutexIPInv' PROVE FieldsInv' /\ IPLimits'
  <2>1. PICK r, q, w \in Nat, m \in Threads \cup {None} :
          word' = [mnReaders |-> r, mThreadIdWriter |-> m, mnReadWaiters |-> q, mnWriteWaiters |-> w]
    BY <1>3, FieldsSplit
  <2>2. FieldsAre(r, m, q, w)'
    BY <1>0, <1>3, <2>1 DEF FieldsAre, P!WordIsExact, Writer
  <2> QED
    BY <1>0, <1>3, <2>1, <2>2
<1>4. ASSUME FieldsInv', IPLimits' PROVE RWMutexIPInv'
  <2>1. PICK r, q, w \in Nat, m \in Threads \cup {None} : FieldsAre(r, m, q, w)'
    BY <1>4
  <2>2. word' \in [mnReaders : Nat, mThreadIdWriter : Threads \cup {None}, mnReadWaiters : Nat, mnWriteWaiters : Nat]
    BY <2>1, FieldsSplit DEF FieldsAre
  <2>3. P!WordIsExact'
    BY <1>0, <1>4, <2>1 DEF FieldsAre, P!WordIsExact, Writer
  <2> QED
    BY <1>4, <2>2, <2>3
<1> QED
  BY <1>1, <1>2, <1>3, <1>4

LEMMA FieldsInit ==
    ASSUME word = [mnReaders |-> 0, mThreadIdWriter |-> None, mnReadWaiters |-> 0, mnWriteWaiters |-> 0],
           InitUsers(0)
    PROVE  FieldsInv /\ pc = [t \in Threads |-> "idle"] /\ sema.read = 0 /\ sema.write = 0
<1> USE DEF InitUsers
<1>1. Writers = {} /\ Readers = {} /\ ReadSide = {} /\ WriteSide = {}
  BY DEF Writers, Readers, ReadSide, WriteSide, At
<1>2. ReadLocks = {} /\ Cardinality({}) = 0
  BY LockStateAssumption, FS_EmptySet DEF ReadLocks
<1>3. FieldsAre(0, None, 0, 0)
  BY <1>1, <1>2 DEF FieldsAre, Writer
<1>4. HoldersTypeOK /\ pc \in [Threads -> M!Labels] /\ sema \in [read : Nat, write : Nat]
  BY LockStateAssumption DEF HoldersTypeOK, M!Labels
<1>5. OneWriter /\ WritersExcludeReaders /\ InsideHoldsNothing
  BY <1>1, <1>2 DEF OneWriter, WritersExcludeReaders, InsideHoldsNothing
<1> QED
  BY <1>3, <1>4, <1>5 DEF FieldsInv

\* Who is the writer.
LEMMA WriterIs ==
    /\ (Writer = None <=> Writers = {}) /\ (Writer' = None <=> Writers' = {})
    /\ \A t \in Threads : (Writers = {t} => Writer = t) /\ (Writers' = {t} => Writer' = t)
<1>1. Writers \subseteq Threads /\ Writers' \subseteq Threads
  BY DEF Writers
<1>2. Writers # {} => (CHOOSE t \in Writers : TRUE) \in Writers
  OBVIOUS
<1>3. Writers' # {} => (CHOOSE t \in Writers' : TRUE) \in Writers'
  OBVIOUS
<1> QED
  BY <1>1, <1>2, <1>3, LockStateAssumption DEF Writer

\* How the threads that count as waiting move with thread t.
SidesMove(t) ==
    /\ Cardinality(ReadSide') = Cardinality(ReadSide)
          + (IF pc'[t] \in {"readWait", "readWoken", "readExpired"} THEN 1 ELSE 0)
          - (IF pc[t] \in {"readWait", "readWoken", "readExpired"} THEN 1 ELSE 0)
    /\ Cardinality(WriteSide') = Cardinality(WriteSide)
          + (IF pc'[t] \in {"writeWait", "writeWoken", "writeExpired"} THEN 1 ELSE 0)
          - (IF pc[t] \in {"writeWait", "writeWoken", "writeExpired"} THEN 1 ELSE 0)
    /\ Cardinality(ReadSide) \in Nat /\ Cardinality(WriteSide) \in Nat

LEMMA SidesMoved ==
    ASSUME NEW t \in Threads, \A u \in Threads \ {t} : pc'[u] = pc[u]
    PROVE  /\ SidesMove(t)
           /\ pc[t] \in {"readWait", "readWoken", "readExpired"} => Cardinality(ReadSide) > 0
           /\ pc[t] \in {"writeWait", "writeWoken", "writeExpired"} => Cardinality(WriteSide) > 0
BY CountAt DEF SidesMove, ReadSide, WriteSide

\* Lock, from its start or after a wait: thread t gets its lock or waits.
LEMMA FieldsRead ==
    ASSUME FieldsInv, NEW t \in Threads, MayReadAgain(t) \/ pc[t] = "readWoken", UNCHANGED sema,
           NEW n, n = word.mnReadWaiters - (IF pc[t] = "readWoken" THEN 1 ELSE 0),
           IF word.mThreadIdWriter # None
           THEN /\ word' = [word EXCEPT !.mnReadWaiters = n + 1]
                /\ Goto(t, "readWait")
                /\ UNCHANGED <<reads, writes>>
           ELSE /\ word' = [word EXCEPT !.mnReadWaiters = n, !.mnReaders = @ + 1]
                /\ GetRead(t)
    PROVE  /\ FieldsInv' /\ [Abstract!Next]_<<reads, writes>>
           /\ pc' \in {[pc EXCEPT ![t] = "readWait"], [pc EXCEPT ![t] = "idle"]}
<1>0. PICK r, q, w \in Nat, m \in Threads \cup {None} : FieldsAre(r, m, q, w)
  BY DEF FieldsInv
<1>1. /\ word = [mnReaders |-> r, mThreadIdWriter |-> m, mnReadWaiters |-> q, mnWriteWaiters |-> w]
      /\ r = Cardinality(ReadLocks) /\ m = Writer
      /\ q = Cardinality(ReadSide) /\ w = Cardinality(WriteSide)
  BY <1>0 DEF FieldsAre
<1>2. /\ HoldersTypeOK /\ OneWriter /\ WritersExcludeReaders /\ pc \in [Threads -> M!Labels]
      /\ pc[t] \in {"idle", "readWoken"} /\ reads[t] < MaxReads /\ writes[t] = 0
      /\ pc[t] = "readWoken" => reads[t] = 0
  BY LockStateAssumption DEF FieldsInv, MayReadAgain, InsideHoldsNothing, Holds, HoldersTypeOK
<1>3. n = q - (IF pc[t] = "readWoken" THEN 1 ELSE 0)
  BY <1>1
<1>4. CASE m # None
  <2>1. /\ word' = [mnReaders |-> r, mThreadIdWriter |-> m, mnReadWaiters |-> n + 1, mnWriteWaiters |-> w]
        /\ pc' = [pc EXCEPT ![t] = "readWait"] /\ UNCHANGED <<reads, writes>>
    BY <1>1, <1>4 DEF Goto
  <2>2. pc'[t] = "readWait" /\ \A u \in Threads \ {t} : pc'[u] = pc[u]
    BY <1>2, <2>1
  <2>3. Readers' = Readers /\ Writers' = Writers /\ ReadLocks' = ReadLocks /\ Writer' = Writer
    BY <2>1, AfterMove DEF Writer
  <2>4. SidesMove(t) /\ (pc[t] = "readWoken" => Cardinality(ReadSide) > 0)
    BY <2>2, SidesMoved
  <2>5. n + 1 \in Nat /\ n + 1 = Cardinality(ReadSide') /\ w = Cardinality(WriteSide')
    BY <1>0, <1>1, <1>2, <1>3, <2>2, <2>4 DEF SidesMove
  <2>6. FieldsAre(r, m, n + 1, w)'
    BY <1>1, <2>1, <2>3, <2>5 DEF FieldsAre
  <2>7. OneWriter' /\ WritersExcludeReaders' /\ HoldersTypeOK'
    BY <1>2, <2>1, <2>3 DEF OneWriter, WritersExcludeReaders, HoldersTypeOK
  <2>8. reads[t] = 0
    <3>1. Readers = {}
      BY <1>1, <1>2, <1>4, WriterIs DEF WritersExcludeReaders
    <3> QED
      BY <1>2, <3>1 DEF Readers, HoldersTypeOK
  <2>9. InsideHoldsNothing'
    BY <1>2, <2>1, <2>2, <2>8 DEF InsideHoldsNothing, Holds, FieldsInv
  <2>10. pc' \in [Threads -> M!Labels] /\ sema' \in [read : Nat, write : Nat]
    BY <1>2, <2>1 DEF M!Labels, FieldsInv
  <2>11. FieldsInv'
    BY <1>0, <2>5, <2>6, <2>7, <2>9, <2>10 DEF FieldsInv
  <2> QED
    BY <2>1, <2>11
<1>5. CASE m = None
  <2>1. /\ word' = [mnReaders |-> r + 1, mThreadIdWriter |-> m, mnReadWaiters |-> n, mnWriteWaiters |-> w]
        /\ GetRead(t)
    BY <1>1, <1>5
  <2>2. pc' = [pc EXCEPT ![t] = "idle"] /\ pc'[t] = "idle" /\ \A u \in Threads \ {t} : pc'[u] = pc[u]
    BY <1>2, <2>1 DEF GetRead, Goto
  <2>3. Writers = {}
    BY <1>1, <1>5, WriterIs
  <2>4. /\ HoldersTypeOK' /\ Abstract!AcquireRead(t) /\ Writers' = {}
        /\ Cardinality(ReadLocks') = Cardinality(ReadLocks) + 1
    BY <1>2, <2>1, <2>3, AfterGetRead
  <2>5. SidesMove(t) /\ (pc[t] = "readWoken" => Cardinality(ReadSide) > 0)
    BY <2>2, SidesMoved
  <2>6. n \in Nat /\ n = Cardinality(ReadSide') /\ w = Cardinality(WriteSide')
    BY <1>0, <1>1, <1>2, <1>3, <2>2, <2>5 DEF SidesMove
  <2>7. Writer' = None
    BY <2>4, WriterIs
  <2>8. FieldsAre(r + 1, m, n, w)' /\ r + 1 \in Nat
    BY <1>0, <1>1, <1>5, <2>1, <2>4, <2>6, <2>7 DEF FieldsAre
  <2>9. OneWriter' /\ WritersExcludeReaders'
    BY <2>4, FS_EmptySet DEF OneWriter, WritersExcludeReaders
  <2>10. InsideHoldsNothing'
    BY <1>2, <2>1, <2>2 DEF InsideHoldsNothing, Holds, FieldsInv, GetRead, HoldersTypeOK
  <2>11. pc' \in [Threads -> M!Labels] /\ sema' \in [read : Nat, write : Nat]
    BY <1>2, <2>2 DEF M!Labels, FieldsInv
  <2>12. FieldsInv'
    BY <1>0, <2>4, <2>6, <2>8, <2>9, <2>10, <2>11 DEF FieldsInv
  <2> QED
    BY <2>2, <2>4, <2>12 DEF Abstract!Next
<1> QED
  BY <1>4, <1>5

LEMMA FieldsWrite ==
    ASSUME FieldsInv, NEW t \in Threads, MayLock(t) \/ pc[t] = "writeWoken", UNCHANGED sema,
           NEW n, n = word.mnWriteWaiters - (IF pc[t] = "writeWoken" THEN 1 ELSE 0),
           IF word.mnReaders > 0 \/ word.mThreadIdWriter # None
           THEN /\ word' = [word EXCEPT !.mnWriteWaiters = n + 1]
                /\ Goto(t, "writeWait")
                /\ UNCHANGED <<reads, writes>>
           ELSE /\ word' = [word EXCEPT !.mnWriteWaiters = n, !.mThreadIdWriter = t]
                /\ GetWrite(t)
    PROVE  /\ FieldsInv' /\ [Abstract!Next]_<<reads, writes>>
           /\ pc' \in {[pc EXCEPT ![t] = "writeWait"], [pc EXCEPT ![t] = "idle"]}
<1>0. PICK r, q, w \in Nat, m \in Threads \cup {None} : FieldsAre(r, m, q, w)
  BY DEF FieldsInv
<1>1. /\ word = [mnReaders |-> r, mThreadIdWriter |-> m, mnReadWaiters |-> q, mnWriteWaiters |-> w]
      /\ r = Cardinality(ReadLocks) /\ m = Writer
      /\ q = Cardinality(ReadSide) /\ w = Cardinality(WriteSide)
  BY <1>0 DEF FieldsAre
<1>2. /\ HoldersTypeOK /\ OneWriter /\ WritersExcludeReaders /\ pc \in [Threads -> M!Labels]
      /\ pc[t] \in {"idle", "writeWoken"} /\ reads[t] = 0 /\ writes[t] = 0
  BY DEF FieldsInv, MayLock, InsideHoldsNothing, Holds, HoldersTypeOK
<1>3. n = w - (IF pc[t] = "writeWoken" THEN 1 ELSE 0)
  BY <1>1
<1>4. CASE r > 0 \/ m # None
  <2>1. /\ word' = [mnReaders |-> r, mThreadIdWriter |-> m, mnReadWaiters |-> q, mnWriteWaiters |-> n + 1]
        /\ pc' = [pc EXCEPT ![t] = "writeWait"] /\ UNCHANGED <<reads, writes>>
    BY <1>1, <1>4 DEF Goto
  <2>2. pc'[t] = "writeWait" /\ \A u \in Threads \ {t} : pc'[u] = pc[u]
    BY <1>2, <2>1
  <2>3. Readers' = Readers /\ Writers' = Writers /\ ReadLocks' = ReadLocks /\ Writer' = Writer
    BY <2>1, AfterMove DEF Writer
  <2>4. SidesMove(t) /\ (pc[t] = "writeWoken" => Cardinality(WriteSide) > 0)
    BY <2>2, SidesMoved
  <2>5. n + 1 \in Nat /\ n + 1 = Cardinality(WriteSide') /\ q = Cardinality(ReadSide')
    BY <1>0, <1>1, <1>2, <1>3, <2>2, <2>4 DEF SidesMove
  <2>6. FieldsAre(r, m, q, n + 1)'
    BY <1>1, <2>1, <2>3, <2>5 DEF FieldsAre
  <2>7. OneWriter' /\ WritersExcludeReaders' /\ HoldersTypeOK'
    BY <1>2, <2>1, <2>3 DEF OneWriter, WritersExcludeReaders, HoldersTypeOK
  <2>9. InsideHoldsNothing'
    BY <1>2, <2>1, <2>2 DEF InsideHoldsNothing, Holds, FieldsInv
  <2>10. pc' \in [Threads -> M!Labels] /\ sema' \in [read : Nat, write : Nat]
    BY <1>2, <2>1 DEF M!Labels, FieldsInv
  <2>11. FieldsInv'
    BY <1>0, <2>5, <2>6, <2>7, <2>9, <2>10 DEF FieldsInv
  <2> QED
    BY <2>1, <2>11
<1>5. CASE ~(r > 0 \/ m # None)
  <2>1. /\ word' = [mnReaders |-> r, mThreadIdWriter |-> t, mnReadWaiters |-> q, mnWriteWaiters |-> n]
        /\ GetWrite(t) /\ r = 0 /\ m = None
    <3>1. r = 0 /\ m = None
      BY <1>0, <1>5
    <3>2. ~(word.mnReaders > 0 \/ word.mThreadIdWriter # None)
      BY <1>1, <3>1
    <3> QED
      BY <1>1, <3>1, <3>2
  <2>2. pc' = [pc EXCEPT ![t] = "idle"] /\ pc'[t] = "idle" /\ \A u \in Threads \ {t} : pc'[u] = pc[u]
    BY <1>2, <2>1 DEF GetWrite, Goto
  <2>3. Writers = {} /\ Readers = {}
    BY <1>1, <1>2, <2>1, WriterIs, LocksAreFinite DEF HoldersTypeOK
  <2>4. HoldersTypeOK' /\ Abstract!AcquireWrite(t) /\ Writers' = {t} /\ Readers' = {} /\ Cardinality(Writers') = 1
    BY <1>2, <2>1, <2>3, AfterGetWrite
  <2>5. SidesMove(t) /\ (pc[t] = "writeWoken" => Cardinality(WriteSide) > 0)
    BY <2>2, SidesMoved
  <2>6. n \in Nat /\ n = Cardinality(WriteSide') /\ q = Cardinality(ReadSide')
    BY <1>0, <1>1, <1>2, <1>3, <2>2, <2>5 DEF SidesMove
  <2>7. Writer' = t /\ ReadLocks' = ReadLocks
    BY <2>1, <2>4, WriterIs DEF GetWrite, ReadLocks
  <2>8. FieldsAre(r, t, q, n)'
    BY <1>1, <2>1, <2>6, <2>7 DEF FieldsAre
  <2>9. OneWriter' /\ WritersExcludeReaders'
    BY <2>4 DEF OneWriter, WritersExcludeReaders
  <2>10. InsideHoldsNothing'
    BY <1>2, <2>1, <2>2 DEF InsideHoldsNothing, Holds, FieldsInv, GetWrite, HoldersTypeOK
  <2>11. pc' \in [Threads -> M!Labels] /\ sema' \in [read : Nat, write : Nat]
    BY <1>2, <2>2 DEF M!Labels, FieldsInv
  <2>12. FieldsInv'
    BY <1>0, <2>4, <2>6, <2>8, <2>9, <2>10, <2>11 DEF FieldsInv
  <2> QED
    BY <2>2, <2>4, <2>12 DEF Abstract!Next
<1> QED
  BY <1>4, <1>5

\* Unlock: thread t undoes its lock, and other threads may go from waiting to woken.
LEMMA FieldsUnlock ==
    ASSUME FieldsInv, NEW t \in Threads, pc[t] = "idle",
           IF word.mThreadIdWriter # None
           THEN DropWrite(t) /\ word' = [word EXCEPT !.mThreadIdWriter = None]
           ELSE DropRead(t) /\ word' = [word EXCEPT !.mnReaders = @ - 1],
           sema' \in [read : Nat, write : Nat],
           pc' \in [Threads -> M!Labels],
           \A u \in Threads : \/ pc'[u] = pc[u]
                              \/ pc[u] = "readWait" /\ pc'[u] = "readWoken"
                              \/ pc[u] = "writeWait" /\ pc'[u] = "writeWoken"
    PROVE  FieldsInv' /\ [Abstract!Next]_<<reads, writes>>
<1>0. PICK r, q, w \in Nat, m \in Threads \cup {None} : FieldsAre(r, m, q, w)
  BY DEF FieldsInv
<1>1. /\ word = [mnReaders |-> r, mThreadIdWriter |-> m, mnReadWaiters |-> q, mnWriteWaiters |-> w]
      /\ r = Cardinality(ReadLocks) /\ m = Writer
      /\ q = Cardinality(ReadSide) /\ w = Cardinality(WriteSide)
  BY <1>0 DEF FieldsAre
<1>2. HoldersTypeOK /\ OneWriter /\ WritersExcludeReaders /\ InsideHoldsNothing
  BY DEF FieldsInv
<1>3. ReadSide' = ReadSide /\ WriteSide' = WriteSide
  BY DEF ReadSide, WriteSide, At
<1>4. CASE m # None
  <2>1. /\ word' = [mnReaders |-> r, mThreadIdWriter |-> None, mnReadWaiters |-> q, mnWriteWaiters |-> w]
        /\ DropWrite(t)
    BY <1>1, <1>4
  <2>2. /\ HoldersTypeOK' /\ Abstract!ReleaseWrite(t) /\ Writers' = {} /\ Readers' = {} /\ ReadLocks' = ReadLocks
    BY <1>2, <2>1, AfterDropWrite
  <2>3. Writer' = None
    BY <2>2, WriterIs
  <2>4. FieldsAre(r, None, q, w)'
    BY <1>1, <1>3, <2>1, <2>2, <2>3 DEF FieldsAre
  <2>5. OneWriter' /\ WritersExcludeReaders'
    BY <2>2, FS_EmptySet DEF OneWriter, WritersExcludeReaders
  <2>6. InsideHoldsNothing'
    BY <1>2, <2>1 DEF InsideHoldsNothing, Holds, DropWrite, HoldersTypeOK
  <2>7. FieldsInv'
    BY <1>0, <2>2, <2>4, <2>5, <2>6 DEF FieldsInv
  <2> QED
    BY <2>2, <2>7 DEF Abstract!Next
<1>5. CASE m = None
  <2>1. /\ word' = [mnReaders |-> r - 1, mThreadIdWriter |-> m, mnReadWaiters |-> q, mnWriteWaiters |-> w]
        /\ DropRead(t)
    BY <1>1, <1>5
  <2>2. /\ HoldersTypeOK' /\ Abstract!ReleaseRead(t) /\ Writers' = Writers /\ Readers' \subseteq Readers
        /\ Cardinality(ReadLocks') = Cardinality(ReadLocks) - 1 /\ Cardinality(ReadLocks) \in Nat \ {0}
    BY <1>2, <2>1, AfterDropRead
  <2>3. Writer' = m
    BY <1>1, <2>2 DEF Writer
  <2>4. FieldsAre(r - 1, m, q, w)' /\ r - 1 \in Nat
    BY <1>1, <1>3, <2>1, <2>2, <2>3 DEF FieldsAre
  <2>5. OneWriter' /\ WritersExcludeReaders'
    BY <1>2, <2>2 DEF OneWriter, WritersExcludeReaders
  <2>6. InsideHoldsNothing'
    BY <1>2, <2>1 DEF InsideHoldsNothing, Holds, DropRead, HoldersTypeOK
  <2>7. FieldsInv'
    BY <1>0, <2>2, <2>4, <2>5, <2>6 DEF FieldsInv
  <2> QED
    BY <2>2, <2>7 DEF Abstract!Next
<1> QED
  BY <1>4, <1>5

\* A thread that waits goes on to another label of its side, or gives up.
LEMMA FieldsPass ==
    ASSUME FieldsInv, NEW t \in Threads, NEW label \in M!Labels, pc' = [pc EXCEPT ![t] = label],
           UNCHANGED <<reads, writes>>, sema' \in [read : Nat, write : Nat],
           \/ /\ word' = word
              /\ {pc[t], label} \subseteq {"readWait", "readWoken", "readExpired"}
           \/ /\ word' = word
              /\ {pc[t], label} \subseteq {"writeWait", "writeWoken", "writeExpired"}
           \/ /\ word' = [word EXCEPT !.mnReadWaiters = @ - 1]
              /\ pc[t] = "readExpired" /\ label = "idle"
           \/ /\ word' = [word EXCEPT !.mnWriteWaiters = @ - 1]
              /\ pc[t] = "writeExpired" /\ label = "idle"
    PROVE  FieldsInv'
<1>0. PICK r, q, w \in Nat, m \in Threads \cup {None} : FieldsAre(r, m, q, w)
  BY DEF FieldsInv
<1>1. /\ word = [mnReaders |-> r, mThreadIdWriter |-> m, mnReadWaiters |-> q, mnWriteWaiters |-> w]
      /\ r = Cardinality(ReadLocks) /\ m = Writer
      /\ q = Cardinality(ReadSide) /\ w = Cardinality(WriteSide)
  BY <1>0 DEF FieldsAre
<1>2. /\ HoldersTypeOK /\ OneWriter /\ WritersExcludeReaders /\ InsideHoldsNothing
      /\ pc \in [Threads -> M!Labels]
  BY DEF FieldsInv
<1>3. pc'[t] = label /\ \A u \in Threads \ {t} : pc'[u] = pc[u]
  BY <1>2
<1>4. /\ SidesMove(t)
      /\ pc[t] = "readExpired" => Cardinality(ReadSide) > 0
      /\ pc[t] = "writeExpired" => Cardinality(WriteSide) > 0
  BY <1>3, SidesMoved
<1>5. Readers' = Readers /\ Writers' = Writers /\ ReadLocks' = ReadLocks /\ Writer' = Writer
  BY AfterMove DEF Writer
<1>6. \E q2, w2 \in Nat : FieldsAre(r, m, q2, w2)'
  <2>1. CASE /\ word' = word
             /\ \/ {pc[t], label} \subseteq {"readWait", "readWoken", "readExpired"}
                \/ {pc[t], label} \subseteq {"writeWait", "writeWoken", "writeExpired"}
    <3>1. Cardinality(ReadSide') = Cardinality(ReadSide) /\ Cardinality(WriteSide') = Cardinality(WriteSide)
      BY <1>3, <1>4, <2>1 DEF SidesMove
    <3>2. FieldsAre(r, m, q, w)'
      BY <1>1, <1>5, <2>1, <3>1 DEF FieldsAre
    <3> QED
      BY <3>2
  <2>2. CASE pc[t] = "readExpired" /\ label = "idle" /\ word' = [word EXCEPT !.mnReadWaiters = @ - 1]
    <3>1. Cardinality(ReadSide') = q - 1 /\ Cardinality(WriteSide') = w /\ q - 1 \in Nat
      BY <1>0, <1>1, <1>3, <1>4, <2>2 DEF SidesMove
    <3>2. FieldsAre(r, m, q - 1, w)'
      BY <1>1, <1>5, <2>2, <3>1 DEF FieldsAre
    <3> QED
      BY <3>1, <3>2
  <2>3. CASE pc[t] = "writeExpired" /\ label = "idle" /\ word' = [word EXCEPT !.mnWriteWaiters = @ - 1]
    <3>1. Cardinality(ReadSide') = q /\ Cardinality(WriteSide') = w - 1 /\ w - 1 \in Nat
      BY <1>0, <1>1, <1>3, <1>4, <2>3 DEF SidesMove
    <3>2. FieldsAre(r, m, q, w - 1)'
      BY <1>1, <1>5, <2>3, <3>1 DEF FieldsAre
    <3> QED
      BY <3>1, <3>2
  <2> QED
    BY <2>1, <2>2, <2>3
<1>7. OneWriter' /\ WritersExcludeReaders' /\ HoldersTypeOK'
  BY <1>2, <1>5 DEF OneWriter, WritersExcludeReaders, HoldersTypeOK
<1>8. InsideHoldsNothing'
  BY <1>2, <1>3 DEF InsideHoldsNothing, Holds
<1> QED
  BY <1>0, <1>2, <1>6, <1>7, <1>8 DEF FieldsInv

LEMMA RWMutexInit == M!Init => RWMutexInv
BY FieldsInit, RWMutexFields, MSame DEF M!Init

LEMMA RWMutexStep ==
    ASSUME RWMutexInv, M!Next
    PROVE  RWMutexInv' /\ [Abstract!Next]_<<reads, writes>>
<1>0. FieldsInv /\ pc \in [Threads -> M!Labels] /\ sema \in [read : Nat, write : Nat]
  BY RWMutexFields DEF FieldsInv
<1> SUFFICES FieldsInv' /\ [Abstract!Next]_<<reads, writes>>
  BY RWMutexFields
<1>1. PICK t \in Threads : M!Call(t) \/ M!WaitExpires(t) \/ M!LockTimesOut(t) \/ M!Unlock(t)
  BY DEF M!Next
<1>2. CASE M!ReadLock(t)
  <2>1. PICK n : n = M!NotReadWaiting(t)
    OBVIOUS
  <2> QED
    BY <1>0, <1>2, <2>1, FieldsRead, MSame DEF M!ReadLock, M!NotReadWaiting
<1>3. CASE M!WriteLock(t)
  <2>1. PICK n : n = M!NotWriteWaiting(t)
    OBVIOUS
  <2> QED
    BY <1>0, <1>3, <2>1, FieldsWrite, MSame DEF M!WriteLock, M!NotWriteWaiting
<1>4. CASE M!WaitExpires(t)
  <2>1. PICK label \in {"readExpired", "writeExpired"} :
          /\ Move(t, label)
          /\ pc[t] = IF label = "readExpired" THEN "readWait" ELSE "writeWait"
    BY <1>4, MSame DEF M!WaitExpires
  <2>2. FieldsInv'
    BY <1>0, <2>1, FieldsPass DEF Move, Goto, M!Labels
  <2> QED
    BY <2>1, <2>2 DEF Move
<1>5. CASE M!LockTimesOut(t)
  <2>1. FieldsInv'
    BY <1>0, <1>5, FieldsPass, MSame DEF M!LockTimesOut, Goto, M!Labels
  <2> QED
    BY <1>5, <2>1 DEF M!LockTimesOut
<1>6. CASE M!Unlock(t)
  <2>1. /\ pc' \in [Threads -> M!Labels]
        /\ \A u \in Threads : \/ pc'[u] = pc[u]
                              \/ pc[u] = "readWait" /\ pc'[u] = "readWoken"
                              \/ pc[u] = "writeWait" /\ pc'[u] = "writeWoken"
    <3>1. CASE UNCHANGED pc
      BY <1>0, <3>1
    <3>2. CASE \E A \in M!Woken : M!Wake(A)
      <4>1. PICK A \in M!Woken : M!Wake(A)
        BY <3>2
      <4>2. A \subseteq At({"writeWait"}) \/ A = At({"readWait"})
        BY <4>1, MSame DEF M!Woken
      <4>3. \A u \in A : u \in Threads /\ pc[u] \in {"readWait", "writeWait"}
        BY <4>2 DEF At
      <4>4. pc' = [u \in Threads |-> IF u \notin A THEN pc[u]
                                     ELSE IF pc[u] = "readWait" THEN "readWoken" ELSE "writeWoken"]
        BY <4>1 DEF M!Wake
      <4> QED
        BY <1>0, <4>3, <4>4 DEF M!Labels
    <3> QED
      BY <1>6, <3>1, <3>2 DEF M!Unlock
  <2> QED
    BY <1>0, <1>6, <2>1, FieldsUnlock, MSame DEF M!Unlock
<1> QED
  BY <1>1, <1>2, <1>3, <1>4, <1>5, <1>6 DEF M!Call

LEMMA RWMutexIPInit == SemaphoreMax \in Nat /\ P!Init => RWMutexIPInv
<1> SUFFICES ASSUME SemaphoreMax \in Nat, P!Init PROVE RWMutexIPInv
  OBVIOUS
<1>1. FieldsInv /\ pc = [t \in Threads |-> "idle"] /\ sema.read = 0 /\ sema.write = 0
  BY FieldsInit, PSame DEF P!Init
<1>2. IPLimits
  BY <1>1 DEF IPLimits, P!Labels
<1> QED
  BY <1>1, <1>2, RWMutexIPFields

LEMMA RWMutexIPStep ==
    ASSUME SemaphoreMax \in Nat, RWMutexIPInv, P!Next
    PROVE  RWMutexIPInv' /\ [Abstract!Next]_<<reads, writes>>
<1>0. FieldsInv /\ pc \in [Threads -> P!Labels] /\ P!Labels \subseteq M!Labels /\ IPLimits
  BY RWMutexIPFields DEF IPLimits, P!Labels, M!Labels
<1> SUFFICES FieldsInv' /\ IPLimits' /\ [Abstract!Next]_<<reads, writes>>
  BY RWMutexIPFields
<1>1. PICK t \in Threads : P!Call(t) \/ P!TakeToken(t) \/ P!Unlock(t)
  BY DEF P!Next
<1>a. PICK a, b \in Nat : sema = [read |-> a, write |-> b] /\ a <= SemaphoreMax /\ b <= SemaphoreMax
  <2>1. sema = [read |-> sema.read, write |-> sema.write]
    BY <1>0 DEF FieldsInv
  <2>2. sema.read \in Nat
    BY <1>0 DEF FieldsInv
  <2>3. sema.write \in Nat
    BY <1>0 DEF FieldsInv
  <2> QED
    BY <1>0, <2>1, <2>2, <2>3, Zenon DEF IPLimits
<1>b. ASSUME NEW a2 \in Nat, NEW b2 \in Nat, a2 <= SemaphoreMax, b2 <= SemaphoreMax,
             sema' = [read |-> a2, write |-> b2], pc' \in [Threads -> P!Labels]
      PROVE  IPLimits' /\ sema' \in [read : Nat, write : Nat]
  BY <1>b DEF IPLimits
<1>2. CASE P!ReadLock(t)
  <2>1. PICK n : n = P!NotReadWaiting(t)
    OBVIOUS
  <2>2. /\ FieldsInv' /\ [Abstract!Next]_<<reads, writes>>
        /\ pc' \in {[pc EXCEPT ![t] = "readWait"], [pc EXCEPT ![t] = "idle"]} /\ sema' = sema
    BY <1>0, <1>2, <2>1, FieldsRead, PSame DEF P!ReadLock, P!NotReadWaiting
  <2>3. pc' \in [Threads -> P!Labels]
    BY <1>0, <2>2 DEF P!Labels
  <2> QED
    BY <1>a, <1>b, <2>2, <2>3
<1>3. CASE P!WriteLock(t)
  <2>1. PICK n : n = P!NotWriteWaiting(t)
    OBVIOUS
  <2>2. /\ FieldsInv' /\ [Abstract!Next]_<<reads, writes>>
        /\ pc' \in {[pc EXCEPT ![t] = "writeWait"], [pc EXCEPT ![t] = "idle"]} /\ sema' = sema
    BY <1>0, <1>3, <2>1, FieldsWrite, PSame DEF P!WriteLock, P!NotWriteWaiting
  <2>3. pc' \in [Threads -> P!Labels]
    BY <1>0, <2>2 DEF P!Labels
  <2> QED
    BY <1>a, <1>b, <2>2, <2>3
<1>4. CASE P!TakeToken(t)
  <2>1. PICK label \in {"readWoken", "writeWoken"} :
          /\ Goto(t, label) /\ UNCHANGED <<word, reads, writes>>
          /\ pc[t] = IF label = "readWoken" THEN "readWait" ELSE "writeWait"
          /\ IF label = "readWoken" THEN a > 0 /\ sema' = [read |-> a - 1, write |-> b]
             ELSE b > 0 /\ sema' = [read |-> a, write |-> b - 1]
    BY <1>4, <1>a, PSame DEF P!TakeToken
  <2>2. pc' = [pc EXCEPT ![t] = label] /\ pc' \in [Threads -> P!Labels] /\ label \in M!Labels
    BY <1>0, <2>1 DEF Goto, P!Labels
  <2>3. IPLimits' /\ sema' \in [read : Nat, write : Nat]
    <3>1. CASE label = "readWoken"
      <4>1. a - 1 \in Nat /\ a - 1 <= SemaphoreMax
        BY <1>a, <2>1, <3>1
      <4> QED
        BY <1>a, <1>b, <2>1, <2>2, <3>1, <4>1
    <3>2. CASE label = "writeWoken"
      <4>1. b - 1 \in Nat /\ b - 1 <= SemaphoreMax
        BY <1>a, <2>1, <3>2
      <4> QED
        BY <1>a, <1>b, <2>1, <2>2, <3>2, <4>1
    <3> QED
      BY <3>1, <3>2
  <2>4. FieldsInv'
    BY <1>0, <2>1, <2>2, <2>3, FieldsPass
  <2> QED
    BY <2>1, <2>3, <2>4
<1>5. CASE P!Unlock(t)
  <2>1. pc[t] = "idle" /\ pc' = pc /\ pc' \in [Threads -> P!Labels] /\ pc' \in [Threads -> M!Labels]
    BY <1>0, <1>5 DEF P!Unlock
  <2>2. IPLimits' /\ sema' \in [read : Nat, write : Nat]
    <3>1. PICK q \in Nat : q = word.mnReadWaiters
      BY <1>0 DEF FieldsInv, FieldsAre
    <3>2. /\ P!Released(a, q) \in Nat /\ P!Released(a, q) <= SemaphoreMax
          /\ P!Released(b, 1) \in Nat /\ P!Released(b, 1) <= SemaphoreMax
      BY <1>a DEF P!Released
    <3>3. \E a2, b2 \in Nat : a2 <= SemaphoreMax /\ b2 <= SemaphoreMax /\ sema' = [read |-> a2, write |-> b2]
      <4>1. sema' \in {sema, [sema EXCEPT !.write = P!Released(@, 1)], [sema EXCEPT !.read = P!Released(@, q)]}
        BY <1>5, <3>1 DEF P!Unlock
      <4>2. sema' \in {[read |-> a, write |-> b], [read |-> a, write |-> P!Released(b, 1)],
                       [read |-> P!Released(a, q), write |-> b]}
        BY <1>a, <4>1
      <4> QED
        BY <1>a, <3>2, <4>2
    <3> QED
      BY <1>b, <2>1, <3>3
  <2>3. FieldsInv' /\ [Abstract!Next]_<<reads, writes>>
    BY <1>0, <1>5, <2>1, <2>2, FieldsUnlock, PSame DEF P!Unlock
  <2> QED
    BY <2>2, <2>3
<1> QED
  BY <1>1, <1>2, <1>3, <1>4, <1>5 DEF P!Call
-----------------------------------------------------------------------------
(* The six locks.                                                          *)

\* For each class what its steps keep: the promise to its callers (OneWriter,
\* WritersExcludeReaders), what its own state says (WordIsExact), and where its
\* threads can be when they hold something.
AnyInv ==
    /\ kind \in Kinds
    /\ kind = "SpinLock" => SpinLockInv
    /\ kind = "RWSpinLock" => RWSpinLockInv
    /\ kind = "RWSpinLockW" => RWSpinLockWInv
    /\ kind = "RWSemaLock" => RWSemaLockInv
    /\ kind = "RWMutex" => RWMutexInv
    /\ kind = "RWMutexIP" => RWMutexIPInv

\* The ten bit fields of RWSemaLock are signed, so it is for less than 512 threads
\* (a lock of another class for any number).
SemaLockFits == "RWSemaLock" \in Kinds => FewThreads

LEMMA AnyInitInv == SemaLockFits /\ AnyInit => AnyInv
<1> SUFFICES ASSUME SemaLockFits, AnyInit PROVE AnyInv
  OBVIOUS
<1> USE DEF AnyInit
<1>1. kind = "SpinLock" => SpinLockInv
  BY SpinLockInit
<1>2. kind = "RWSpinLock" => RWSpinLockInv
  BY RWSpinLockInit
<1>3. kind = "RWSpinLockW" => RWSpinLockWInv
  BY RWSpinLockWInit
<1>4. kind = "RWSemaLock" => RWSemaLockInv
  BY RWSemaLockInit DEF SemaLockFits
<1>5. kind = "RWMutex" => RWMutexInv
  BY RWMutexInit
<1>6. kind = "RWMutexIP" => RWMutexIPInv
  BY RWMutexIPInit, SemaphoreAssumption
<1> QED
  BY <1>1, <1>2, <1>3, <1>4, <1>5, <1>6 DEF AnyInv

LEMMA AnyNextInv ==
    ASSUME SemaLockFits, AnyInv, AnyNext
    PROVE  AnyInv' /\ [Abstract!Next]_<<reads, writes>>
<1> USE DEF AnyInv, AnyNext
<1>1. CASE kind = "SpinLock"
  BY <1>1, SpinLockStep
<1>2. CASE kind = "RWSpinLock"
  BY <1>2, RWSpinLockStep
<1>3. CASE kind = "RWSpinLockW"
  BY <1>3, RWSpinLockWStep
<1>4. CASE kind = "RWSemaLock"
  BY <1>4, RWSemaLockStep DEF SemaLockFits
<1>5. CASE kind = "RWMutex"
  BY <1>5, RWMutexStep
<1>6. CASE kind = "RWMutexIP"
  BY <1>6, RWMutexIPStep, SemaphoreAssumption
<1> QED
  BY <1>1, <1>2, <1>3, <1>4, <1>5, <1>6

LEMMA AnyStutters ==
    ASSUME AnyInv, UNCHANGED allVars
    PROVE  AnyInv'
<1> USE DEF allVars, lockVars
<1>0. UNCHANGED word /\ UNCHANGED sema /\ UNCHANGED seen /\ UNCHANGED pc /\ UNCHANGED reads /\ UNCHANGED writes /\ UNCHANGED kind
  OBVIOUS
<1>1. Readers' = Readers /\ Writers' = Writers /\ ReadLocks' = ReadLocks
  BY AfterMove
<1>2. \A L : At(L)' = At(L)
  BY <1>0 DEF At
<1>3. (OneWriter => OneWriter') /\ (WritersExcludeReaders => WritersExcludeReaders')
  BY <1>1 DEF OneWriter, WritersExcludeReaders
<1>4. (InsideHoldsNothing => InsideHoldsNothing') /\ (ReadsOnce => ReadsOnce')
  BY <1>0 DEF InsideHoldsNothing, ReadsOnce, Holds
<1>5. \A L : UsersTypeOK(L) => UsersTypeOK(L)'
  BY <1>0 DEF UsersTypeOK
<1>6. SpinLockInv => SpinLockInv'
  <2>1. S!TypeOK => S!TypeOK'
    BY <1>0, <1>5, SSame DEF S!TypeOK, S!Labels
  <2>2. S!WordIsExact => S!WordIsExact'
    BY <1>0, <1>1, SSame DEF S!WordIsExact
  <2> QED
    BY <1>1, <1>4, <2>1, <2>2 DEF SpinLockInv
<1>7. RWSpinLockInv => RWSpinLockInv'
  <2>1. TypeOK => TypeOK'
    BY <1>0, <1>5 DEF TypeOK, Labels
  <2>2. /\ At({"readBack", "readTryBack"})' = At({"readBack", "readTryBack"})
        /\ At({"writeBack", "writeTryBack"})' = At({"writeBack", "writeTryBack"})
    BY <1>2
  <2>3. /\ Cardinality(ReadLocks)' = Cardinality(ReadLocks) /\ Cardinality(Writers)' = Cardinality(Writers)
        /\ Cardinality(At({"readBack", "readTryBack"}))' = Cardinality(At({"readBack", "readTryBack"}))
        /\ Cardinality(At({"writeBack", "writeTryBack"}))' = Cardinality(At({"writeBack", "writeTryBack"}))
    BY <1>1, <2>2
  <2>4. WordIsExact => WordIsExact'
    BY <1>0, <2>3 DEF WordIsExact, Owing
  <2> QED
    BY <1>0, <1>3, <2>1, <2>4 DEF RWSpinLockInv
<1>8. RWSpinLockWInv => RWSpinLockWInv'
  <2>1. W!TypeOK => W!TypeOK'
    BY <1>0, <1>5, WSame DEF W!TypeOK, W!Labels, W!Words
  <2>2. W!WordIsExact => W!WordIsExact'
    BY <1>0, <1>1, <1>2, WSame DEF W!WordIsExact
  <2> QED
    BY <1>0, <1>3, <1>4, <2>1, <2>2 DEF RWSpinLockWInv, W!WriteFree, W!Free
<1>9. RWSemaLockInv => RWSemaLockInv'
  <2>1. Q!TypeOK => Q!TypeOK'
    BY <1>0, <1>5, QSame DEF Q!TypeOK, Q!Labels
  <2>2. Q!Pending' = Q!Pending
    BY <1>0, <1>2, QSame DEF Q!Pending
  <2>3. Q!WordIsExact => Q!WordIsExact'
    BY <1>0, <1>1, <1>2, <2>2, QSame DEF Q!WordIsExact
  <2> QED
    BY <1>0, <1>4, <2>1, <2>3 DEF RWSemaLockInv
<1>10. FieldsInv => FieldsInv'
  <2>1. Writer' = Writer
    BY <1>1 DEF Writer
  <2> QED
    BY <1>0, <1>1, <1>2, <1>3, <1>4, <2>1 DEF FieldsInv, HoldersTypeOK, FieldsAre, ReadSide, WriteSide
<1>11. RWMutexInv => RWMutexInv'
  BY <1>10, RWMutexFields
<1>12. RWMutexIPInv => RWMutexIPInv'
  BY <1>0, <1>10, RWMutexIPFields DEF IPLimits
<1> QED
  BY <1>0, <1>6, <1>7, <1>8, <1>9, <1>11, <1>12 DEF AnyInv

LEMMA AnyInvTells == AnyInv => AnyWordIsExact
<1> USE DEF AnyInv, AnyWordIsExact, AnyTypeOK
<1>1. kind = "SpinLock" /\ AnyInv => AnyWordIsExact
  BY DEF SpinLockInv
<1>2. kind = "RWSpinLock" /\ AnyInv => AnyWordIsExact
  BY DEF RWSpinLockInv
<1>3. kind = "RWSpinLockW" /\ AnyInv => AnyWordIsExact
  BY DEF RWSpinLockWInv
<1>4. kind = "RWSemaLock" /\ AnyInv => AnyWordIsExact
  BY DEF RWSemaLockInv
<1>5. kind = "RWMutex" /\ AnyInv => AnyWordIsExact
  BY DEF RWMutexInv
<1>6. kind = "RWMutexIP" /\ AnyInv => AnyWordIsExact
  BY DEF RWMutexIPInv
<1> QED
  BY <1>1, <1>2, <1>3, <1>4, <1>5, <1>6, KindsAssumption

LEMMA AnyInitAbstract == AnyInit => Abstract!Init
<1> SUFFICES ASSUME AnyInit PROVE reads = [t \in Threads |-> 0] /\ writes = [t \in Threads |-> 0]
  BY DEF Abstract!Init
<1> USE DEF AnyInit, InitUsers
<1>1. CASE kind = "SpinLock"
  BY <1>1, SSame DEF S!Init
<1>2. CASE kind = "RWSpinLock"
  BY <1>2 DEF Init
<1>3. CASE kind = "RWSpinLockW"
  BY <1>3, WSame DEF W!Init
<1>4. CASE kind = "RWSemaLock"
  BY <1>4, QSame DEF Q!Init
<1>5. CASE kind = "RWMutex"
  BY <1>5, MSame DEF M!Init
<1>6. CASE kind = "RWMutexIP"
  BY <1>6, PSame DEF P!Init
<1> QED
  BY <1>1, <1>2, <1>3, <1>4, <1>5, <1>6, KindsAssumption

\* Whatever the threads call and in whatever order their atomic operations, waits
\* and wakeups interleave, the lock's own state stays that of its class.
THEOREM ReadWriteInvariance ==
    ASSUME SemaLockFits
    PROVE  AnySpec => []AnyInv
<1>1. AnyInit => AnyInv
  BY AnyInitInv
<1>2. AnyInv /\ [AnyNext]_allVars => AnyInv'
  BY AnyNextInv, AnyStutters
<1> QED
  BY <1>1, <1>2, PTL DEF AnySpec

\* The word, the bit fields or the members of a lock, which are what a thread goes
\* by when it decides to enter, to wait or to wake others, count exactly the
\* threads that have the lock, wait for it and were let in, also while others are
\* between two of their steps (mValue, mSharedData, mnReaders and the waiters).
THEOREM LockStateIsExact ==
    ASSUME SemaLockFits
    PROVE  AnySpec => []AnyWordIsExact
<1>1. AnySpec => []AnyInv
  BY ReadWriteInvariance
<1> QED
  BY <1>1, AnyInvTells, PTL

\* Each of the six classes is a lock for many readers or one writer: a step takes
\* a lock only when ReadWriteLock lets that thread have it, gives back one the
\* thread has, or changes nobody's locks.
THEOREM ReadWriteRefinement ==
    ASSUME SemaLockFits
    PROVE  AnySpec => ImplementsReadWriteLock
<1>1. AnySpec => []AnyInv
  BY ReadWriteInvariance
<1>2. AnyInit => Abstract!Init
  BY AnyInitAbstract
<1>3. AnyInv /\ [AnyNext]_allVars => [Abstract!Next]_<<reads, writes>>
  BY AnyNextInv DEF allVars, lockVars
<1> QED
  BY <1>1, <1>2, <1>3, PTL DEF AnySpec, ImplementsReadWriteLock, Abstract!Spec
=============================================================================
