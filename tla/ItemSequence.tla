---------------------------- MODULE ItemSequence ----------------------------
(***************************************************************************)
(* What a list promises: a sequence of items, and a position in it that    *)
(* stays with its item.  0 is the position of an iterator whose item is    *)
(* gone, Len(items) + 1 that of end().                                     *)
(***************************************************************************)
EXTENDS Integers, Sequences, SequencesExt

CONSTANTS
    Items,
    MaxItems,       \* Bound: the length of the list.
    UsesPushFront   \* Does the program call push_front?

VARIABLES
    items,
    position,
    answer      \* What empty(), size() and front() returned last.

End == Len(items) + 1
OfItem == position \in 1 .. Len(items)

Init == items = <<>> /\ position = 0 /\ answer = <<>>

PushBack(v) ==
    /\ Len(items) < MaxItems
    /\ items' = Append(items, v)
    /\ position' = IF position = End THEN End + 1 ELSE position
    /\ answer' = <<>>

PushFront(v) ==
    /\ Len(items) < MaxItems
    /\ items' = <<v>> \o items
    /\ position' = IF position = 0 THEN 0 ELSE position + 1
    /\ answer' = <<>>

PopFront ==
    /\ items' = IF items = <<>> THEN <<>> ELSE Tail(items)
    /\ position' = IF items = <<>> \/ position = 0 THEN position ELSE position - 1
    /\ answer' = <<>>

Erase ==
    /\ OfItem
    /\ items' = RemoveAt(items, position)
    /\ answer' = <<>> /\ UNCHANGED position

Clear ==
    /\ items' = <<>>
    /\ position' = IF position = End THEN 1 ELSE 0
    /\ answer' = <<>>

Place(p) == position' = p /\ answer' = <<>> /\ UNCHANGED items
Find(v) == Place(SelectInSeq(items \o <<v>>, LAMBDA x : x = v))
Increment == OfItem /\ Place(position + 1)

Ask ==
    /\ answer' = <<items = <<>>, Len(items), IF items = <<>> THEN <<>> ELSE <<items[1]>> >>
    /\ UNCHANGED <<items, position>>

Next ==
    \/ \E v \in Items : PushBack(v) \/ (UsesPushFront /\ PushFront(v)) \/ Find(v)
    \/ PopFront \/ Erase \/ Clear \/ Place(1) \/ Increment \/ Ask

Spec == Init /\ [][Next]_<<items, position, answer>>
=============================================================================
