-------------------------- MODULE MCAddressSpaces ---------------------------
(***************************************************************************)
(* Three processes in seven frames: two programs fit, a third may not.     *)
(* Pages have four bytes.  The code ends within a page or with it, and the *)
(* data ends behind it, with that page, within a later page or with it.    *)
(***************************************************************************)
EXTENDS AddressSpaces

MCProgram ==
  {<<1, 0, 0>>, <<3, 1, 0>>, <<3, 6, 0>>, <<4, 0, 3>>, <<4, 5, 1>>, <<5, 1, 2>>}

=============================================================================
