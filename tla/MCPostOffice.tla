---------------------------- MODULE MCPostOffice ----------------------------
(***************************************************************************)
(* Two machines with two clients each.  A message goes to the other        *)
(* machine or to the sender's own.                                         *)
(***************************************************************************)
EXTENDS PostOffice

CONSTANTS m1, m2

MCMachine == {m1, m2}
MCMaxSends == [m \in MCMachine |-> IF m = m1 THEN 2 ELSE 1]

=============================================================================
