----------------------------- MODULE LinkedList -----------------------------
(***************************************************************************)
(* List as its cells and pointers: first, last and, by address, the        *)
(* ListElements that are allocated.  The other modules take a List for a   *)
(* sequence; ListSpec says which, and ImplementsSequence that this is so.  *)
(***************************************************************************)
EXTENDS Integers, Sequences

CONSTANTS
  Address,   \* where new may put a ListElement
  Item,
  Key,       \* sort keys; Append and Prepend set the key 0
  NULL

VARIABLE list

EmptyList == [first |-> NULL, last |-> NULL, cell |-> [a \in Address |-> NULL]]

ListElement(item, key) == [item |-> item, key |-> key, next |-> NULL]

IsEmpty(l) == l.first = NULL

\* Addresses new may return: not one that is in use.
Unallocated(l) == {a \in Address : l.cell[a] = NULL}

\* The list with a new element at a that is its only one.
Alone(l, a, e) == [l EXCEPT !.cell[a] = e, !.first = a, !.last = a]

AtEnd(l, a, e) == [l EXCEPT !.cell[a] = e, !.cell[l.last].next = a, !.last = a]

\* Mutant: last is moved too.
AtFrontAndLast(l, a, e) ==
  [l EXCEPT !.cell[a] = [e EXCEPT !.next = l.first], !.first = a, !.last = a]

AtFront(l, a, e) ==
  [l EXCEPT !.cell[a] = [e EXCEPT !.next = l.first], !.first = a]

AppendItem(l, a, item) ==
  IF IsEmpty(l) THEN Alone(l, a, ListElement(item, 0))
  ELSE AtEnd(l, a, ListElement(item, 0))

PrependItem(l, a, item) ==
  IF IsEmpty(l) THEN Alone(l, a, ListElement(item, 0))
  ELSE AtFront(l, a, ListElement(item, 0))

\* The elements from address p on, in the order Mapcar visits them.
RECURSIVE From(_, _)
From(l, p) == IF p = NULL THEN <<>> ELSE <<p>> \o From(l, l.cell[p].next)

\* The for loop of SortedInsert: the first element with a bigger key behind it,
\* or NULL.
RECURSIVE Walk(_, _, _)
Walk(l, p, key) ==
  IF l.cell[p].next = NULL THEN NULL
  ELSE IF key < l.cell[l.cell[p].next].key THEN p
  ELSE Walk(l, l.cell[p].next, key)

SortedInsert(l, a, item, key) ==
  LET e == ListElement(item, key) IN
  IF IsEmpty(l) THEN Alone(l, a, e)
  ELSE IF key < l.cell[l.first].key THEN AtFront(l, a, e)
  ELSE LET p == Walk(l, l.first, key)
       IN  IF p = NULL THEN AtEnd(l, a, e)
           ELSE [l EXCEPT !.cell[a] = [e EXCEPT !.next = l.cell[p].next],
                          !.cell[p].next = a]

\* SortedRemove, and Remove, of a list that is not empty.
SortedRemove(l) ==
  [l EXCEPT !.first = IF l.first = l.last THEN NULL ELSE l.cell[l.first].next,
            !.last = IF l.first = l.last THEN NULL ELSE l.last,
            !.cell[l.first] = NULL]

-----------------------------------------------------------------------------

Init == list = EmptyList

Next ==
  \/ \E a \in Unallocated(list), item \in Item :
       \/ list' = AppendItem(list, a, item)
       \/ list' = PrependItem(list, a, item)
       \/ \E key \in Key : list' = SortedInsert(list, a, item, key)
  \/ ~IsEmpty(list) /\ list' = SortedRemove(list)

Spec == Init /\ [][Next]_list

-----------------------------------------------------------------------------
(* Properties.                                                             *)

\* What Mapcar finds on the list: the items with their keys.
Contents(l) ==
  LET path == From(l, l.first)
  IN  [i \in DOMAIN path |-> [item |-> l.cell[path[i]].item, key |-> l.cell[path[i]].key]]

Sequence == INSTANCE ListSpec WITH list <- Contents(list)

\* Whatever is appended, prepended, inserted by key and removed, and in whatever
\* order, the cells between first and last are the sequence that ListSpec has: no
\* item is lost behind a pointer, and equal keys keep the order of insertion.
ImplementsSequence == Sequence!Spec

=============================================================================
