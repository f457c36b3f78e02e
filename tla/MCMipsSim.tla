----------------------------- MODULE MCMipsSim ------------------------------
(***************************************************************************)
(* Words of 8 bits, so bytes of 2 and immediate operands of 4.  Registers  *)
(* 1 and 2 start with values around every boundary; 3 plays R31.  Every    *)
(* instruction is met with r1 and r2 as operands, and those on memory also *)
(* with constant addresses and with every destination.  The first          *)
(* instruction is at the start of memory or in its last word.              *)
(***************************************************************************)
EXTENDS Interpreter

Corner == {-128, -127, -16, -9, -1, 0, 2, 8, 15, 127}

MCGP == {[r \in 0..3 |-> CASE r = 1 -> a [] r = 2 -> b [] OTHER -> 0] : a, b \in Corner}

\* Different bytes, and the sign bit of a byte, a half word and a word.
MCMem == {[a \in 0..15 |-> (a + (a \div 4)) % 4]}

MCPC == {0, 12}

Make(ops, rs, rt, rd, extra) ==
  [op : ops, rs : rs, rt : rt, rd : rd, extra : extra]

MCInstr ==
  Make(RegisterOps, {1}, {2}, {3}, {3})
    \cup Make({"ADDU", "MFHI"}, {1}, {2}, {0}, {0})
    \cup Make(ImmediateOps, {1}, {2}, {0}, {-3, 5})
    \cup Make(HiLoOps, {1}, {2}, {0}, {0})
    \cup Make(BranchOps \cap IFormat, {1}, {2}, {3}, {-1, 2})
    \cup Make({"JR", "JALR"}, {1}, {2}, {3}, {0})
    \cup Make({"J", "JAL"}, {0}, {0}, {0}, {2, 31})
    \cup Make(LoadOps \cup StoreOps, {0}, {1, 2}, {0}, {4})
    \cup Make(LoadOps \cup StoreOps, {1}, {2}, {0}, {0})
    \cup Make({"LW"}, {0}, {0}, {0}, {4})
    \cup Make({"LWR", "LBU"}, {0}, {1}, {0}, {0, 7})
    \cup Make({"SYSCALL", "UNIMP", "RES"}, {0}, {0}, {0}, {5})

=============================================================================
