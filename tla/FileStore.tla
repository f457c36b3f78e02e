------------------------------ MODULE FileStore ------------------------------
(***************************************************************************)
(* What a file system promises: files with a name, a fixed length and      *)
(* contents of their own.  An operation on one file changes no other.      *)
(***************************************************************************)
CONSTANT Name

VARIABLE files      \* a function from the names in use to contents

Init == files = [n \in {} |-> <<>>]

\* The files before and after a step agree on every name but n.
AgreeBut(n, before, after) ==
  \A m \in Name \ {n} :
    /\ m \in DOMAIN before <=> m \in DOMAIN after
    /\ m \in DOMAIN before => after[m] = before[m]

\* What a new file contains is not said.
Create(n, before, after) == n \notin DOMAIN before /\ n \in DOMAIN after

Remove(n, before, after) == n \in DOMAIN before /\ n \notin DOMAIN after

\* A part of a Write, which keeps the length.
Write(n, before, after) ==
  /\ n \in DOMAIN before /\ n \in DOMAIN after
  /\ DOMAIN after[n] = DOMAIN before[n]

Step(before, after) ==
  \E n \in Name :
    /\ AgreeBut(n, before, after)
    /\ \/ Create(n, before, after)
       \/ Remove(n, before, after)
       \/ Write(n, before, after)

Next == \E before \in {files}, after \in {files'} : Step(before, after)

Spec == Init /\ [][Next]_files

=============================================================================
