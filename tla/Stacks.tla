------------------------------- MODULE Stacks -------------------------------
(***************************************************************************)
(* The C++ example inheritstack.cc: ArrayStack and ListStack, the two      *)
(* classes behind the interface Stack, under the same calls.               *)
(***************************************************************************)
EXTENDS Integers, Sequences

CONSTANTS
  size,      \* of the array
  Value, Address, NULL

VARIABLES
  array,     \* an ArrayStack: [top, stack]
  list,      \* the List of a ListStack
  popped     \* what the two Pops returned last, or <<>>

vars == <<array, list, popped>>

Cells == INSTANCE LinkedList WITH Item <- Value, Key <- {0}

\* new int[size] leaves its elements as they are.
ArrayStack == [top |-> 0, stack |-> [i \in 0..(size - 1) |-> NULL]]

ArrayFull == array.top = size
ArrayEmpty == array.top = 0

ArrayPush(value) ==
  /\ ~ArrayFull
  /\ array' = [array EXCEPT !.stack[array.top] = value, !.top = @ + 1]

\* The element below top, which stays in the array.
ArrayPop == array' = [array EXCEPT !.top = @ - 1]
ArrayTop == array.stack[array.top - 1]

\* List::Prepend, Remove and Empty of the example: of a list without keys.
Prepend(value) ==
  \E a \in Cells!Unallocated(list) : list' = Cells!PrependItem(list, a, value)

Remove == list' = Cells!SortedRemove(list)
First == list.cell[list.first].item
ListEmpty == Cells!IsEmpty(list)

\* Mutant: the value goes to the end of the list.
ListPushLast(value) ==
  \E a \in Cells!Unallocated(list) : list' = Cells!AppendItem(list, a, value)

ListPush(value) == Prepend(value)
ListPop == ~ListEmpty /\ Remove
ListFull == FALSE

-----------------------------------------------------------------------------

Init ==
  /\ array = ArrayStack
  /\ list = Cells!EmptyList
  /\ popped = <<>>

\* A client, such as SelfTest, that pushes only if neither stack is full.
Push(value) ==
  /\ ~ArrayFull /\ ~ListFull
  /\ ArrayPush(value) /\ ListPush(value)
  /\ popped' = <<>>

Pop ==
  /\ ~ArrayEmpty /\ ~ListEmpty
  /\ popped' = <<ArrayTop, First>>
  /\ ArrayPop /\ ListPop

Next == (\E value \in Value : Push(value)) \/ Pop

Spec == Init /\ [][Next]_vars

-----------------------------------------------------------------------------
(* Properties.                                                             *)

\* "It doesn't matter whether this is an ArrayStack or a ListStack" (SelfTest):
\* after any calls the two are empty together, and their Pops return the same.
StacksAgree ==
  /\ ArrayEmpty = ListEmpty
  /\ popped # <<>> => popped[1] = popped[2]

=============================================================================
