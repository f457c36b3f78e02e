------------------------------ MODULE ListSpec ------------------------------
(***************************************************************************)
(* What a List promises: a sequence of items, each with a key.             *)
(***************************************************************************)
EXTENDS Integers, Sequences, SequencesExt

CONSTANTS Item, Key

VARIABLE list

Element == [item : Item, key : Key \cup {0}]

Init == list = <<>>

\* Before the first element with a bigger key, or at the end.
Inserted(e) ==
  LET bigger == {i \in DOMAIN list : e.key < list[i].key}
      place == IF bigger = {} THEN Len(list) + 1
               ELSE CHOOSE i \in bigger : \A j \in bigger : i <= j
  IN  InsertAt(list, place, e)

Next ==
  \/ \E e \in Element :
       \/ e.key = 0 /\ (list' = Append(list, e) \/ list' = <<e>> \o list)
       \/ list' = Inserted(e)
  \/ list # <<>> /\ list' = Tail(list)

Spec == Init /\ [][Next]_list

=============================================================================
