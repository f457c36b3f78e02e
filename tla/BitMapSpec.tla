----------------------------- MODULE BitMapSpec -----------------------------
(***************************************************************************)
(* What a BitMap promises: a set of marked bits, and a copy of it in a     *)
(* file.                                                                   *)
(***************************************************************************)
EXTENDS Integers, FiniteSets

CONSTANT numBits

VARIABLES marked, saved, result

vars == <<marked, saved, result>>

Bit == 0..(numBits - 1)

Init == marked = {} /\ saved = {} /\ result = 0

Find(i) ==
  /\ i \notin marked /\ 0..(i - 1) \subseteq marked
  /\ marked' = marked \cup {i} /\ result' = i
  /\ UNCHANGED saved

Next ==
  \/ \E i \in Bit : \/ Find(i)
                    \/ marked' = marked \cup {i} /\ UNCHANGED <<saved, result>>
                    \/ marked' = marked \ {i} /\ UNCHANGED <<saved, result>>
  \/ marked = Bit /\ result' = -1 /\ UNCHANGED <<marked, saved>>
  \/ result' = numBits - Cardinality(marked) /\ UNCHANGED <<marked, saved>>
  \/ marked' = saved /\ UNCHANGED <<saved, result>>
  \/ saved' = marked /\ UNCHANGED <<marked, result>>

Spec == Init /\ [][Next]_vars

=============================================================================
