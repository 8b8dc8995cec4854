----------------------------- MODULE SimpleList -----------------------------
(***************************************************************************)
(* simple_list: nodes linked both ways between a head and a tail that have *)
(* no value, and an iterator of the program's.  A list has no lock: one    *)
(* thread at a time calls it.                                              *)
(***************************************************************************)
EXTENDS Integers, FiniteSets

CONSTANTS
    Items,
    MaxItems,       \* Bound: the nodes there are between head and tail.
    UsesPushFront,  \* Does the program call push_front?
    NoItem          \* The value of the head, the tail and of free memory.

ASSUME SimpleListAssumption == MaxItems \in Nat \ {0} /\ UsesPushFront \in BOOLEAN

VARIABLES
    node,       \* The nodes, by their address.
    mnSize,
    iter,       \* The node of the iterator, Gone when that was destroyed.
    listAnswer  \* What empty(), size() and front() returned last.

listVars == <<node, mnSize, iter, listAnswer>>

HeadNode == 0
TailNode == MaxItems + 1
Gone == MaxItems + 2
Addresses == HeadNode .. TailNode
list_node == [mValue : Items \cup {NoItem}, mpPrev : Addresses, mpNext : Addresses]
FreeNode == [mValue |-> NoItem, mpPrev |-> HeadNode, mpNext |-> HeadNode]
FreeNodes == {n \in Addresses \ {HeadNode, TailNode} : node[n] = FreeNode}
NewNode == CHOOSE n \in FreeNodes : \A m \in FreeNodes : n <= m
ItemNodes == Addresses \ (FreeNodes \cup {HeadNode, TailNode})

simple_list ==
    [n \in Addresses |-> CASE n = HeadNode -> [mValue |-> NoItem, mpPrev |-> TailNode, mpNext |-> TailNode]
                           [] n = TailNode -> [mValue |-> NoItem, mpPrev |-> HeadNode, mpNext |-> HeadNode]
                           [] OTHER -> FreeNode]

ListInit == node = simple_list /\ mnSize = 0 /\ iter = Gone /\ listAnswer = <<>>

empty == node[HeadNode].mpNext = TailNode
Goes(n) == iter' = IF iter = n THEN Gone ELSE iter
Silently == listAnswer' = <<>>

push_back(v) ==
    /\ FreeNodes # {} /\ Silently /\ UNCHANGED iter
    /\ LET n == NewNode
           last == node[TailNode].mpPrev
       IN node' = [node EXCEPT ![n] = [mValue |-> v, mpPrev |-> last, mpNext |-> TailNode],
                               ![last].mpNext = n,
                               ![TailNode].mpPrev = n]
    /\ mnSize' = mnSize + 1

\* The old first node is not linked back to the new one.
push_front(v) ==
    /\ FreeNodes # {} /\ Silently /\ UNCHANGED iter
    /\ LET n == NewNode
       IN node' = [node EXCEPT ![n] = [mValue |-> v, mpPrev |-> HeadNode, mpNext |-> node[HeadNode].mpNext],
                               ![HeadNode].mpNext = n]
    /\ mnSize' = mnSize + 1

pop_front ==
    /\ Silently
    /\ LET n == node[HeadNode].mpNext IN
       IF empty THEN UNCHANGED <<node, mnSize, iter>>
       ELSE /\ node' = [node EXCEPT ![HeadNode].mpNext = node[n].mpNext,
                                    ![node[n].mpNext].mpPrev = HeadNode,
                                    ![n] = FreeNode]
            /\ mnSize' = mnSize - 1
            /\ Goes(n)

Unlinked(links, n) ==
    [links EXCEPT ![links[n].mpNext].mpPrev = links[n].mpPrev,
                  ![links[n].mpPrev].mpNext = links[n].mpNext,
                  ![n] = FreeNode]

\* iter = erase(iter), of an iterator that has an item.
erase ==
    /\ iter \in ItemNodes /\ Silently
    /\ IF empty THEN iter' = TailNode /\ UNCHANGED <<node, mnSize>>
       ELSE /\ node' = Unlinked(node, iter)
            /\ iter' = node[iter].mpNext
            /\ mnSize' = mnSize - 1

\* The list and the node that is next after clear has destroyed k nodes.
Clearing[k \in 0 .. MaxItems] ==
    IF k = 0 THEN [links |-> node, next |-> node[HeadNode].mpNext]
    ELSE LET before == Clearing[k - 1] IN
         IF before.next = TailNode THEN before
         ELSE [links |-> Unlinked(before.links, before.next), next |-> before.links[before.next].mpNext]

clear ==
    /\ Silently
    /\ node' = Clearing[MaxItems].links
    /\ mnSize' = IF empty THEN mnSize ELSE 0
    /\ iter' = IF iter \in ItemNodes THEN Gone ELSE iter

\* The k-th node from the head; the tail is the last.
Walk[k \in 0 .. MaxItems + 1] ==
    IF k = 0 THEN HeadNode ELSE IF Walk[k - 1] = TailNode THEN TailNode ELSE node[Walk[k - 1]].mpNext
WalkBack[k \in 0 .. MaxItems + 1] ==
    IF k = 0 THEN TailNode ELSE IF WalkBack[k - 1] = HeadNode THEN HeadNode ELSE node[WalkBack[k - 1]].mpPrev
StepsTo(walk, end) == CHOOSE k \in 0 .. MaxItems + 1 :
    /\ walk[k] = end \/ k = MaxItems + 1
    /\ \A j \in 0 .. k - 1 : walk[j] # end

FirstFrom(first, v) ==
    LET hits == {k \in first .. MaxItems + 1 : Walk[k] = TailNode \/ node[Walk[k]].mValue = v}
    IN Walk[CHOOSE k \in hits : \A j \in hits : k <= j]
findLater(v) ==            \* Mutant: the first item is passed over.
    Silently /\ iter' = FirstFrom(2, v) /\ UNCHANGED <<node, mnSize>>
find(v) == Silently /\ iter' = FirstFrom(1, v) /\ UNCHANGED <<node, mnSize>>

begin == Silently /\ iter' = node[HeadNode].mpNext /\ UNCHANGED <<node, mnSize>>
increment == iter \in ItemNodes /\ Silently /\ iter' = node[iter].mpNext /\ UNCHANGED <<node, mnSize>>

ask ==
    /\ listAnswer' = <<empty, mnSize, IF empty THEN <<>> ELSE <<node[node[HeadNode].mpNext].mValue>> >>
    /\ UNCHANGED <<node, mnSize, iter>>

ListNext ==
    \/ \E v \in Items : push_back(v) \/ (UsesPushFront /\ push_front(v)) \/ find(v)
    \/ pop_front \/ erase \/ clear \/ begin \/ increment \/ ask

-----------------------------------------------------------------------------
\* The iterator is that of a node there is, and every node that was constructed
\* is linked in, both ways: none is lost.
ListTypeOK ==
    /\ node \in [Addresses -> list_node]
    /\ mnSize \in 0 .. MaxItems
    /\ iter \in ItemNodes \cup {TailNode, Gone}

NodesAreLinkedBothWays ==
    LET n == StepsTo(Walk, TailNode)
        m == StepsTo(WalkBack, HeadNode)
    IN /\ n = m /\ n = Cardinality(ItemNodes) + 1
       /\ \A k \in 0 .. n : Walk[k] = WalkBack[n - k]

Contents == [k \in 1 .. StepsTo(Walk, TailNode) - 1 |-> node[Walk[k]].mValue]
Position == CASE iter = Gone -> 0
              [] OTHER -> CHOOSE k \in 1 .. MaxItems + 1 :
                    /\ Walk[k] = iter \/ k = MaxItems + 1
                    /\ \A j \in 1 .. k - 1 : Walk[j] # iter

\* The list holds the items that were put in, in their order, and finds,
\* counts and shows them; an iterator stays with its item.
Sequence == INSTANCE ItemSequence
    WITH items <- Contents, position <- Position, answer <- listAnswer
ImplementsItemSequence == Sequence!Spec
=============================================================================
