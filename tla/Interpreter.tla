---------------------------- MODULE Interpreter -----------------------------
(***************************************************************************)
(* runprogram, the other simulator of a MIPS CPU that is in the            *)
(* repository, beside Machine: it has no load delay, no exceptions and its *)
(* own arithmetic.  Both are given the same instructions.                  *)
(*                                                                         *)
(* mem is taken to begin at 0 (memoffset in the code), and a half word has *)
(* half the bits of a word.  An access outside of mem and a division the   *)
(* host traps are the end, "Crash"; what the host does in a system call is *)
(* not modelled.                                                           *)
(***************************************************************************)
EXTENDS MipsSim

VARIABLES
  interp,    \* registers and memory of the interpreter
  ended,     \* "No", or how it ended: "Exit", "Crash", "Trap"
  alike      \* history: only instructions that both must do alike

bothVars == <<m, trap, settled, careful, last, steps, interp, ended, alike>>

HalfWord == 2^(Width \div 2)

\* An instruction goes on to the next one, branches, or is the end.
Goes(x) == [end |-> "No", to |-> [x EXCEPT !.pc = x.nextPC, !.nextPC = Signed(x.nextPC + 4)]]
GoesTo(x, npc) == [end |-> "No", to |-> [x EXCEPT !.pc = x.nextPC, !.nextPC = Signed(npc)]]
Ends(x, how) == [end |-> how, to |-> x]

Set(x, r, value) == Goes([x EXCEPT !.gp[r] = value])

-----------------------------------------------------------------------------
(* I_SPECIAL.                                                              *)

ShiftOps == {"SLL", "SRL", "SRA", "SLLV", "SRLV", "SRAV"}

\* The host takes a shift count modulo the width.
ShiftBy(x, i) ==
  LET t == x.gp[i.rt]
      n == IF i.op \in {"SLLV", "SRLV", "SRAV"} THEN x.gp[i.rs] % Width ELSE i.extra
  IN  Set(x, i.rd, CASE i.op \in {"SLL", "SLLV"} -> Signed(t * 2^n)
                     [] i.op \in {"SRL", "SRLV"} -> Signed(Unsigned(t) \div 2^n)
                     [] i.op \in {"SRA", "SRAV"} -> t \div 2^n)

\* The target is read before the link is written.
JumpRegister(x, i) ==
  GoesTo(IF i.op = "JALR" THEN [x EXCEPT !.gp[i.rd] = Signed(x.pc + 8)] ELSE x, x.gp[i.rs])

\* HI from the halves of the operands: the low halves are not multiplied, and a
\* product that does not fit an int is negative when it is shifted.
HighProduct(a, b) ==
  LET aLo == Unsigned(a) % HalfWord
      aHi == Unsigned(a) \div HalfWord
      bLo == Unsigned(b) % HalfWord
      bHi == Unsigned(b) \div HalfWord
  IN  Signed((aHi * bHi) + (Signed(aHi * bLo) \div HalfWord) + (Signed(bHi * aLo) \div HalfWord))

\* MULT and MULTU, as <<HI, LO>>
Multiply(a, b, signedArith) ==
  LET Abs(v) == IF signedArith /\ v < 0 THEN Signed(-v) ELSE v
      neg == signedArith /\ (a < 0) # (b < 0)
      lo == Signed(Abs(a) * Abs(b))
      hi == HighProduct(Abs(a), Abs(b))
  IN  IF ~neg THEN <<hi, lo>>
      ELSE <<Signed(NotWord(hi) + IF lo = 0 THEN 1 ELSE 0), Signed(-lo)>>

MultiplyDivide(x, i) ==
  LET s == x.gp[i.rs]
      t == x.gp[i.rt]
      product == Multiply(s, t, i.op = "MULT")
      Pair(hi, lo) == Goes([x EXCEPT !.hi = hi, !.lo = lo])
  IN  CASE i.op = "MTHI" -> Pair(s, x.lo)
        [] i.op = "MTLO" -> Pair(x.hi, s)
        [] i.op \in {"MULT", "MULTU"} -> Pair(product[1], product[2])
        [] i.op \in {"DIV", "DIVU"} /\ t = 0 -> Ends(x, "Crash")
        [] i.op = "DIV" /\ t # 0 ->
             IF Quotient(s, t) \in Word THEN Pair(s - (Quotient(s, t) * t), Quotient(s, t))
             ELSE Ends(x, "Crash")
        [] i.op = "DIVU" /\ t # 0 -> Pair(Signed(Unsigned(s) % Unsigned(t)),
                                          Signed(Unsigned(s) \div Unsigned(t)))

\* ADD and SUB do not look for an overflow.
Arithmetic(x, i) ==
  LET s == x.gp[i.rs]
      t == x.gp[i.rt]
  IN  Set(x, i.rd, CASE i.op \in {"ADD", "ADDU"} -> Signed(s + t)
                     [] i.op \in {"SUB", "SUBU"} -> Signed(s - t)
                     [] i.op = "AND" -> AndWord(s, t)
                     [] i.op = "OR" -> OrWord(s, t)
                     [] i.op = "XOR" -> XorWord(s, t)
                     [] i.op = "NOR" -> NotWord(OrWord(s, t))
                     [] i.op = "SLT" -> Bool(s < t)
                     [] i.op = "SLTU" -> Bool(Unsigned(s) < Unsigned(t))
                     [] i.op = "MFHI" -> x.hi
                     [] i.op = "MFLO" -> x.lo)

-----------------------------------------------------------------------------
(* Branches and jumps.                                                     *)

\* Mutant: a branch is relative to the instruction itself.
BranchTargetEarly(x, i) == x.pc + (4 * i.extra)

BranchTarget(x, i) == x.pc + 4 + (4 * i.extra)

\* I_BCOND
BranchOnSign(x, i) ==
  LET y == IF i.op \in {"BLTZAL", "BGEZAL"} THEN [x EXCEPT !.gp[R31] = Signed(x.pc + 8)] ELSE x
      taken == IF i.op \in {"BLTZ", "BLTZAL"} THEN y.gp[i.rs] < 0 ELSE y.gp[i.rs] >= 0
  IN  IF taken THEN GoesTo(y, BranchTarget(x, i)) ELSE Goes(y)

\* I_J to I_BGTZ
JumpOrBranch(x, i) ==
  LET s == x.gp[i.rs]
      t == x.gp[i.rt]
      taken == CASE i.op = "BEQ" -> s = t [] i.op = "BNE" -> s # t
                 [] i.op = "BLEZ" -> s <= 0 [] i.op = "BGTZ" -> s > 0
                 [] OTHER -> TRUE
      target == IF i.op \in JFormat
                THEN (Unsigned(x.pc) \div Region) * Region + IndexToAddr(i.extra)
                ELSE BranchTarget(x, i)
      y == IF i.op = "JAL" THEN [x EXCEPT !.gp[R31] = Signed(x.pc + 8)] ELSE x
  IN  IF taken THEN GoesTo(y, target) ELSE Goes(y)

-----------------------------------------------------------------------------
(* Immediate operands and memory.                                          *)

\* immed is signed also for ANDI, ORI and XORI.
Immediate(x, i) ==
  LET s == x.gp[i.rs]
  IN  Set(x, i.rt, CASE i.op \in {"ADDI", "ADDIU"} -> Signed(s + i.extra)
                     [] i.op = "SLTI" -> Bool(s < i.extra)
                     [] i.op = "SLTIU" -> Bool(Unsigned(s) < Unsigned(i.extra))
                     [] i.op = "ANDI" -> AndWord(s, i.extra)
                     [] i.op = "ORI" -> OrWord(s, i.extra)
                     [] i.op = "XORI" -> XorWord(s, i.extra)
                     [] i.op = "LUI" -> Signed(i.extra * 2^(Width \div 2)))

\* Addresses in mem; they need not be aligned.
InMem(addr, size) == Unsigned(addr) + size <= MemorySize

LoadFrom(x, i) ==
  LET addr == Signed(x.gp[i.rs] + i.extra)
      merges == i.op \in {"LWL", "LWR"}
      from == IF merges THEN addr - (addr % 4) ELSE addr
      size == SizeOf(i.op)
      value == ReadMem(x, from, size)
      range == Byte^size
      whole == Signed(ReadMem(x, from, 4))
      old == x.gp[i.rt]
      kept == IF addr % 4 = 0 THEN 0 ELSE AndWord(old, Signed(-(Byte^(addr % 4))))
  IN  IF ~InMem(from, size) THEN Ends(x, "Crash")
      ELSE Set(x, i.rt,
             CASE i.op \in {"LB", "LH"} -> IF value >= range \div 2 THEN value - range ELSE value
               [] i.op \in {"LBU", "LHU"} -> value
               [] i.op = "LW" -> whole
               [] i.op = "LWL" -> OrWord(old, Signed(whole * Byte^(addr % 4)))
               [] i.op = "LWR" -> OrWord(kept, whole \div Byte^((-addr) % 4)))

StoreTo(x, i) ==
  LET addr == Signed(x.gp[i.rs] + i.extra)
  IN  IF i.op \in {"SWL", "SWR"} THEN Ends(x, "Exit")
      ELSE IF ~InMem(addr, SizeOf(i.op)) THEN Ends(x, "Crash")
      ELSE Goes(WriteMem(x, addr, SizeOf(i.op), x.gp[i.rt]))

\* One turn of runprogram's loop.
Execute(x0, i) ==
  LET x == [x0 EXCEPT !.gp[0] = 0]
  IN  IF ~InMem(x.pc, 4) THEN Ends(x, "Crash")
      ELSE CASE i.op \in ShiftOps -> ShiftBy(x, i)
             [] i.op \in {"JR", "JALR"} -> JumpRegister(x, i)
             [] i.op \in HiLoOps -> MultiplyDivide(x, i)
             [] i.op \in RegisterOps \ ShiftOps -> Arithmetic(x, i)
             [] i.op \in {"BLTZ", "BLTZAL", "BGEZ", "BGEZAL"} -> BranchOnSign(x, i)
             [] i.op \in {"J", "JAL", "BEQ", "BNE", "BLEZ", "BGTZ"} -> JumpOrBranch(x, i)
             [] i.op \in ImmediateOps -> Immediate(x, i)
             [] i.op \in LoadOps -> LoadFrom(x, i)
             [] i.op \in StoreOps -> StoreTo(x, i)
             [] i.op = "SYSCALL" -> Ends(x, "Trap")
             [] i.op \in {"RES", "UNIMP"} -> Ends(x, "Exit")

-----------------------------------------------------------------------------
(* Both simulators, as long as they are at the same instruction.           *)

\* Instructions that mean the same to both: not those in which one of them
\* deviates from the MIPS manual, and no branch in the delay slot of another.
Common(i) ==
  CASE i.op \in {"OR", "SRL", "SRLV", "MULT", "MULTU", "SYSCALL", "RES", "UNIMP",
                 "LWL", "LWR", "SWL", "SWR"} -> FALSE
    [] i.op \in {"ANDI", "ORI", "XORI"} -> i.extra >= 0
    [] i.op \in {"DIV", "DIVU"} -> m.gp[i.rt] # 0
    [] i.op \in BranchOps -> m.nextPC = Signed(m.pc + 4) /\ (i.op = "JALR" => i.rs # i.rd)
    [] OTHER -> TRUE

BothInit ==
  /\ Init
  /\ interp = [gp |-> m.gp, hi |-> 0, lo |-> 0, pc |-> m.pc, nextPC |-> m.nextPC, mem |-> m.mem]
  /\ ended = "No"
  /\ alike = TRUE

BothRun(i) ==
  /\ Run(i)
  /\ IF ended = "No" /\ interp.pc = m.pc
     THEN LET outcome == Execute(interp, i)
          IN  interp' = outcome.to /\ ended' = outcome.end
     ELSE UNCHANGED <<interp, ended>>
  /\ alike' = (alike /\ careful' /\ Common(i) /\ trap' = "None")

BothNext == \E i \in Instr : BothRun(i)

BothSpec == BothInit /\ [][BothNext]_bothVars

-----------------------------------------------------------------------------
(* Properties.                                                             *)

\* A program that keeps to the instructions both know, and to the rules of the
\* delay slots, runs in the interpreter as it runs on Machine: the same registers,
\* memory and next instructions, branches and loads at word boundaries included.
SimulatorsAgree ==
  alike =>
    /\ ended = "No"
    /\ \A r \in Reg \ {0} : interp.gp[r] = settled.gp[r]
    /\ interp.mem = settled.mem
    /\ interp.hi = settled.hi /\ interp.lo = settled.lo
    /\ interp.pc = settled.pc /\ interp.nextPC = settled.nextPC

=============================================================================
