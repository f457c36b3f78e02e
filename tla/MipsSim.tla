------------------------------ MODULE MipsSim -------------------------------
(***************************************************************************)
(* The simulated CPU: Machine::OneInstruction with its branch and load     *)
(* delay slots, its exceptions and its arithmetic.                         *)
(*                                                                         *)
(* A word has Width bits instead of 32, and everything that the code       *)
(* derives from the word is scaled with it: a byte is a quarter of a word, *)
(* the immediate operand half of one, a shift count less than Width.  A    *)
(* word is a signed number.  Code is not data: any decoded instruction may *)
(* be found at an address that can be fetched.                             *)
(***************************************************************************)
EXTENDS Integers, FiniteSetsExt, Bitwise

CONSTANTS
  Width,        \* bits of a word, a power of 2 and at least 8
  R31,          \* the register of return addresses, the last one
  MemorySize,   \* bytes a program can address
  Instr,        \* decoded instructions that may be met
  InitialGP,    \* contents of the registers at the start
  InitialMem,   \* contents of memory at the start
  InitialPC,    \* address of the first instruction
  MaxSteps      \* bound: instructions of a behaviour

VARIABLES
  m,         \* registers and memory of the machine
  trap,      \* how the last instruction ended; "Stop": the simulator aborts
  settled,   \* history: the machine if every load took effect at once
  careful,   \* history: no instruction has touched a register being loaded
  last,      \* history: the last instruction
  steps

vars == <<m, trap, settled, careful, last, steps>>

Reg == 0..R31
Half == 2^(Width - 1)
Word == -Half..(Half - 1)
Byte == 2^(Width \div 4)

Unsigned(x) == x % 2^Width
Signed(x) == LET u == Unsigned(x) IN IF u >= Half THEN u - 2^Width ELSE u

AndWord(a, b) == Signed(Unsigned(a) & Unsigned(b))
OrWord(a, b) == Signed(Unsigned(a) | Unsigned(b))
XorWord(a, b) == Signed(Unsigned(a) ^^ Unsigned(b))
NotWord(a) == -1 - a

\* What Decode makes of a word: the operation, three registers, and the operand
\* extra, which is signed in the I format, a shift count in the R format and the
\* index of a word in the J format.
RegisterOps == {"ADD", "ADDU", "SUB", "SUBU", "AND", "OR", "XOR", "NOR", "SLT",
                "SLTU", "SLLV", "SRAV", "SRLV", "SLL", "SRA", "SRL", "MFHI", "MFLO"}
ImmediateOps == {"ADDI", "ADDIU", "ANDI", "ORI", "XORI", "LUI", "SLTI", "SLTIU"}
HiLoOps == {"MTHI", "MTLO", "MULT", "MULTU", "DIV", "DIVU"}
BranchOps == {"BEQ", "BNE", "BGEZ", "BGEZAL", "BLTZ", "BLTZAL", "BGTZ", "BLEZ",
              "J", "JAL", "JR", "JALR"}
LoadOps == {"LB", "LBU", "LH", "LHU", "LW", "LWL", "LWR"}
StoreOps == {"SB", "SH", "SW", "SWL", "SWR"}

JFormat == {"J", "JAL"}
RFormat == RegisterOps \cup HiLoOps \cup {"JR", "JALR", "SYSCALL", "RES", "UNIMP"}
IFormat == ((ImmediateOps \cup BranchOps \cup LoadOps \cup StoreOps) \ (RFormat \cup JFormat))
             \cup {"RES", "UNIMP"}

Region == 2^(Width - (Width \div 8))   \* what a jump can reach, 0x10000000

Decode ==
  LET Fields(ops, extra) == [op : ops, rs : Reg, rt : Reg, rd : Reg, extra : extra]
      edge == 2^((Width \div 2) - 1)
  IN  Fields(IFormat, -edge..(edge - 1)) \cup Fields(RFormat, 0..(Width - 1))
        \cup Fields(JFormat, 0..((Region \div 4) - 1))

ASSUME MipsSimAssumption ==
  /\ Width % 8 = 0
  /\ R31 \in Nat /\ R31 > 2
  /\ MemorySize \in Nat
  /\ Instr \subseteq Decode
  /\ MaxSteps \in Nat

\* The low half of an operand (& 0xffff).
LowHalf(x) == x % 2^(Width \div 2)

-----------------------------------------------------------------------------
(* Arithmetic.                                                             *)

\* Mutant: the carry out of the low word is lost.
CarryLost(lo, bLo) == 0

\* "Carry out of the low bits?"
Carry(lo, bLo) == IF lo < bLo THEN 1 ELSE 0

\* The loop of Mult: a's bits one at a time, b shifted in two words.  It runs
\* Width times, or until no bit of a is left.
RECURSIVE MultLoop(_, _, _)
MultLoop(i, a, s) ==
  LET lo == Unsigned(s.lo + s.bLo)
      added == IF a % 2 = 0 THEN s
               ELSE [s EXCEPT !.lo = lo, !.hi = Unsigned(@ + Carry(lo, s.bLo) + s.bHi)]
      shifted == [added EXCEPT !.bLo = Unsigned(2 * @),
                               !.bHi = Unsigned(2 * @) + (s.bLo \div Half)]
  IN  IF i = Width THEN s
      ELSE IF a = 1 THEN added
      ELSE MultLoop(i + 1, a \div 2, shifted)

\* Mult, as <<hi, lo>>.
Mult(a, b, signedArith) ==
  LET Abs(x) == IF signedArith /\ x < 0 THEN Signed(-x) ELSE x
      negative == signedArith /\ (a < 0) # (b < 0)
      s == MultLoop(0, Abs(a),
                    [lo |-> 0, hi |-> 0, bLo |-> Unsigned(Abs(b)), bHi |-> 0])
      lo == Unsigned(NotWord(s.lo) + 1)
      hi == Unsigned(NotWord(s.hi) + IF lo = 0 THEN 1 ELSE 0)
  IN  IF a = 0 \/ b = 0 THEN <<0, 0>>
      ELSE IF negative THEN <<Signed(hi), Signed(lo)>>
      ELSE <<Signed(s.hi), Signed(s.lo)>>

\* C's division, which rounds towards 0.
Quotient(a, b) ==
  LET q == (IF a < 0 THEN -a ELSE a) \div (IF b < 0 THEN -b ELSE b)
  IN  IF (a < 0) # (b < 0) THEN -q ELSE q

SameSign(a, b) == (a < 0) = (b < 0)

\* The tests of ADD, ADDI and SUB by sign bits.
AddOverflows(a, b) == SameSign(a, b) /\ ~SameSign(a, Signed(a + b))
SubOverflows(a, b) == ~SameSign(a, b) /\ ~SameSign(a, Signed(a - b))

Bool(b) == IF b THEN 1 ELSE 0

\* Operations on two registers, into rd: s and t are the registers rs and rt.  OR takes rs twice, and the logical
\* shifts to the right are done on an int: both as in the code.
RegisterResult(op, s, t, extra, hi, lo) ==
  CASE op \in {"ADD", "ADDU"} -> Signed(s + t)
    [] op \in {"SUB", "SUBU"} -> Signed(s - t)
    [] op = "AND" -> AndWord(s, t)
    [] op = "OR" -> OrWord(s, s)
    [] op = "XOR" -> XorWord(s, t)
    [] op = "NOR" -> NotWord(OrWord(s, t))
    [] op = "SLT" -> Bool(s < t)
    [] op = "SLTU" -> Bool(Unsigned(s) < Unsigned(t))
    [] op = "SLL" -> Signed(t * 2^extra)
    [] op = "SLLV" -> Signed(t * 2^(s % Width))
    [] op \in {"SRA", "SRL"} -> t \div 2^extra
    [] op \in {"SRAV", "SRLV"} -> t \div 2^(s % Width)
    [] op = "MFHI" -> hi
    [] op = "MFLO" -> lo

\* Operations on a register and the immediate operand, into rt.
ImmediateResult(op, s, extra) ==
  CASE op \in {"ADDI", "ADDIU"} -> Signed(s + extra)
    [] op = "ANDI" -> AndWord(s, LowHalf(extra))
    [] op = "ORI" -> OrWord(s, LowHalf(extra))
    [] op = "XORI" -> XorWord(s, LowHalf(extra))
    [] op = "LUI" -> Signed(extra * 2^(Width \div 2))
    [] op = "SLTI" -> Bool(s < extra)
    [] op = "SLTIU" -> Bool(Unsigned(s) < Unsigned(extra))

-----------------------------------------------------------------------------
(* Memory, seen through Translate: an address is a word taken as unsigned. *)

Accessible(addr, size) == Unsigned(addr) % size = 0 /\ Unsigned(addr) < MemorySize

\* ReadMem, as an unsigned number of size bytes; the low byte is first.
ReadMem(x, addr, size) ==
  MapThenSumSet(LAMBDA k : x.mem[Unsigned(addr) + k] * Byte^k, 0..(size - 1))

WriteMem(x, addr, size, value) ==
  [x EXCEPT !.mem = [a \in DOMAIN @ |->
     LET k == a - Unsigned(addr)
     IN  IF k \in 0..(size - 1) THEN (value \div Byte^k) % Byte ELSE @[a]]]

-----------------------------------------------------------------------------
(* How an instruction ends.                                                *)

\* The load before this instruction takes effect, this one's is remembered.
DelayedLoad(x, nextReg, nextValue) ==
  [x EXCEPT !.gp = [@ EXCEPT ![x.loadReg] = x.loadValue, ![0] = 0],
            !.loadReg = nextReg, !.loadValue = nextValue]

\* An instruction that is executed, and one that is not.
Loads(x, reg, value) ==
  [trap |-> "None",
   to |-> [DelayedLoad(x, reg, value) EXCEPT !.pc = x.nextPC,
                                             !.nextPC = Signed(x.nextPC + 4)]]
Done(x) == Loads(x, 0, 0)
Jumps(x, target) ==
  [trap |-> "None",
   to |-> [DelayedLoad(x, 0, 0) EXCEPT !.pc = x.nextPC, !.nextPC = Signed(target)]]
RaiseException(x, which) == [trap |-> which, to |-> DelayedLoad(x, 0, 0)]
\* The simulator itself ends: a failed ASSERT, or a division the host traps.
Stops(x) == [trap |-> "Stop", to |-> x]

-----------------------------------------------------------------------------
(* OneInstruction.                                                         *)

Compute(x, i) ==
  LET s == x.gp[i.rs]
      t == x.gp[i.rt]
      overflow == \/ i.op = "ADD" /\ AddOverflows(s, t)
                  \/ i.op = "ADDI" /\ AddOverflows(i.extra, s)
                  \/ i.op = "SUB" /\ SubOverflows(s, t)
      result == IF i.op \in RegisterOps
                THEN RegisterResult(i.op, s, t, i.extra, x.hi, x.lo)
                ELSE ImmediateResult(i.op, s, i.extra)
      dest == IF i.op \in RegisterOps THEN i.rd ELSE i.rt
  IN  IF overflow THEN RaiseException(x, "Overflow")
      ELSE Done([x EXCEPT !.gp[dest] = result])

HiLo(x, i) ==
  LET s == x.gp[i.rs]
      t == x.gp[i.rt]
      Pair(hi, lo) == Done([x EXCEPT !.hi = hi, !.lo = lo])
      product == Mult(s, t, i.op = "MULT")
      q == Quotient(s, t)
  IN  CASE i.op = "MTHI" -> Pair(s, x.lo)
        [] i.op = "MTLO" -> Pair(x.hi, s)
        [] i.op \in {"MULT", "MULTU"} -> Pair(product[1], product[2])
        [] i.op \in {"DIV", "DIVU"} /\ t = 0 -> Pair(0, 0)
        [] i.op = "DIV" /\ t # 0 ->
             IF q \in Word THEN Pair(s - (q * t), q) ELSE Stops(x)
        [] i.op = "DIVU" /\ t # 0 -> Pair(Signed(Unsigned(s) % Unsigned(t)),
                                          Signed(Unsigned(s) \div Unsigned(t)))

IndexToAddr(x) == 4 * x

\* The link register is written before the tested register is read.
Branch(x, i) ==
  LET back == Signed(x.nextPC + 4)
      y == CASE i.op \in {"BGEZAL", "BLTZAL", "JAL"} -> [x EXCEPT !.gp[R31] = back]
             [] i.op = "JALR" -> [x EXCEPT !.gp[i.rd] = back]
             [] OTHER -> x
      s == y.gp[i.rs]
      taken == CASE i.op = "BEQ" -> s = y.gp[i.rt]
                 [] i.op = "BNE" -> s # y.gp[i.rt]
                 [] i.op \in {"BGEZ", "BGEZAL"} -> s >= 0
                 [] i.op \in {"BLTZ", "BLTZAL"} -> s < 0
                 [] i.op = "BGTZ" -> s > 0
                 [] i.op = "BLEZ" -> s <= 0
                 [] OTHER -> TRUE
      target == CASE i.op \in JFormat ->
                       (Unsigned(back) \div Region) * Region + IndexToAddr(i.extra)
                  [] i.op \in {"JR", "JALR"} -> s
                  [] OTHER -> x.nextPC + IndexToAddr(i.extra)
  IN  Jumps(y, IF taken THEN target ELSE back)

\* Mutant: LWL and LWR do not see a load of the same register still under way.
MergedWithStale(x, rt) == x.gp[rt]

\* What LWL and LWR merge the word with.
MergedWith(x, rt) == IF x.loadReg = rt THEN x.loadValue ELSE x.gp[rt]

SizeOf(op) == CASE op \in {"LB", "LBU", "SB"} -> 1
                [] op \in {"LH", "LHU", "SH"} -> 2
                [] OTHER -> 4

MergeOps == {"LWL", "LWR", "SWL", "SWR"}

\* A merge of a word with itself shifted: the code asserts that the address is
\* aligned, so only its case 0 is left.
Top == 2^(3 * (Width \div 4))

Load(x, i) ==
  LET addr == x.gp[i.rs] + i.extra
      size == SizeOf(i.op)
      value == ReadMem(x, addr, size)
      range == Byte^size
      old == MergedWith(x, i.rt)
      result == CASE i.op \in {"LB", "LH"} -> IF value >= range \div 2 THEN value - range ELSE value
                  [] i.op \in {"LBU", "LHU"} -> value
                  [] i.op \in {"LW", "LWL"} -> Signed(value)
                  [] i.op = "LWR" -> old - (old % Byte) + (value \div Top)
  IN  IF i.op \in MergeOps /\ Unsigned(addr) % 4 # 0 THEN Stops(x)
      ELSE IF ~Accessible(addr, size) THEN RaiseException(x, "AddressError")
      ELSE Loads(x, i.rt, result)

Store(x, i) ==
  LET addr == x.gp[i.rs] + i.extra
      size == SizeOf(i.op)
      t == x.gp[i.rt]
      value == IF i.op = "SWR" THEN (ReadMem(x, addr, 4) % Top) + (t % Byte) * Top ELSE t
  IN  IF i.op \in MergeOps /\ Unsigned(addr) % 4 # 0 THEN Stops(x)
      ELSE IF ~Accessible(addr, size) THEN RaiseException(x, "AddressError")
      ELSE Done(WriteMem(x, addr, size, value))

\* The system call handler leaves its result in r2, here any number that the
\* instruction happens to carry, and calls IncPCReg.
IncPCReg(x) == [x EXCEPT !.pc = x.nextPC, !.nextPC = Signed(x.nextPC + 4)]

SystemCall(x, result) ==
  [trap |-> "Syscall", to |-> IncPCReg([DelayedLoad(x, 0, 0) EXCEPT !.gp[2] = result])]

OneInstruction(x, i) ==
  IF ~Accessible(x.pc, 4) THEN RaiseException(x, "AddressError")
  ELSE CASE i.op \in RegisterOps \cup ImmediateOps -> Compute(x, i)
         [] i.op \in HiLoOps -> HiLo(x, i)
         [] i.op \in BranchOps -> Branch(x, i)
         [] i.op \in LoadOps -> Load(x, i)
         [] i.op \in StoreOps -> Store(x, i)
         [] i.op = "SYSCALL" -> SystemCall(x, i.extra)
         [] i.op \in {"RES", "UNIMP"} -> RaiseException(x, "IllegalInstr")

-----------------------------------------------------------------------------
(* Run.  Every exception but a system call halts the machine.              *)

\* Registers that instruction i reads or writes itself.  A load writes only
\* through DelayedLoad, and a system call after it.
Touched(i) ==
  CASE i.op \in RegisterOps -> {i.rs, i.rt, i.rd}
    [] i.op \in ImmediateOps \cup HiLoOps \cup StoreOps -> {i.rs, i.rt}
    [] i.op \in BranchOps -> {i.rs, i.rt, i.rd, R31}
    [] i.op \in LoadOps -> {i.rs}
    [] OTHER -> {}

Init ==
  /\ \E gp \in InitialGP, mem \in InitialMem, pc \in InitialPC :
       m = [gp |-> gp, hi |-> 0, lo |-> 0, pc |-> pc, nextPC |-> pc + 4,
            loadReg |-> 0, loadValue |-> 0, mem |-> mem]
  /\ trap = "None"
  /\ settled = m
  /\ careful = TRUE
  /\ last = [op |-> "None"]
  /\ steps = 0

Run(i) ==
  LET outcome == OneInstruction(m, i)
      other == OneInstruction(settled, i).to
  IN  /\ trap \in {"None", "Syscall"}
      /\ steps < MaxSteps
      /\ trap' = outcome.trap
      /\ m' = outcome.to
      /\ careful' = (careful /\ (m.loadReg # 0 => m.loadReg \notin Touched(i)))
      /\ settled' = IF careful' THEN DelayedLoad(other, 0, 0) ELSE outcome.to
      /\ last' = i
      /\ steps' = steps + 1

Next == \E i \in Instr : Run(i)

Spec == Init /\ [][Next]_vars

-----------------------------------------------------------------------------
(* Properties.                                                             *)

\* Every register holds a word, every cell a byte, and register 0 is always 0
\* between instructions, also when one names it as its destination
\* ("always make sure R0 stays zero").
TypeOK ==
  /\ m.gp \in [Reg -> Word] /\ m.gp[0] = 0
  /\ {m.hi, m.lo, m.pc, m.nextPC, m.loadValue} \subseteq Word
  /\ m.loadReg \in Reg
  /\ m.mem \in [0..(MemorySize - 1) -> 0..(Byte - 1)]

\* A program that does not touch a register in the delay slot of its load
\* cannot tell the delayed load from an immediate one: finishing the pending
\* load of the machine gives the machine that settled every load at once, as
\* RaiseException does when a trap falls between two instructions.  A pair LWL,
\* LWR and two loads of one register may follow each other.  The types of the
\* registers, with 0 in register 0, are part of it.
LoadsSettle == TypeOK /\ (careful => DelayedLoad(m, 0, 0) = settled)

\* What the MIPS manual says of the arithmetic instructions, in unbounded
\* integers.  s and t are the operands, e the immediate one, after the machine
\* that follows.  OR and the logical shifts are left out: the code deviates.
Meaning(i, s, t, after) ==
  LET d == after.gp[i.rd]
      r == after.gp[i.rt]
      Exact(dest, v) == (trap' = "Overflow") = (v \notin Word) /\ (v \in Word => dest = v)
      AbsVal(v) == IF v < 0 THEN -v ELSE v
  IN  CASE i.op = "ADD" -> i.rd # 0 => Exact(d, s + t)
        [] i.op = "SUB" -> i.rd # 0 => Exact(d, s - t)
        [] i.op = "ADDI" -> i.rt # 0 => Exact(r, s + i.extra)
        [] i.op = "MULT" -> (after.hi * 2^Width) + Unsigned(after.lo) = s * t
        [] i.op = "MULTU" ->
             (Unsigned(after.hi) * 2^Width) + Unsigned(after.lo) = Unsigned(s) * Unsigned(t)
        [] i.op = "DIV" -> (t # 0 /\ trap' = "None") =>
             /\ (after.lo * t) + after.hi = s
             /\ AbsVal(after.hi) < AbsVal(t)
             /\ (after.hi < 0) => (s < 0)
             /\ (after.hi > 0) => (s > 0)
        [] i.op = "NOR" -> i.rd # 0 => XorWord(d, -1) = OrWord(s, t)
        [] i.op = "SW" -> (trap' = "None") => Signed(ReadMem(after, s + i.extra, 4)) = t
        [] i.op = "SRA" -> i.rd # 0 =>
             /\ d * 2^i.extra <= t
             /\ (d + 1) * 2^i.extra > t
        [] OTHER -> TRUE

\* The simulated arithmetic is exact: ADD, ADDI and SUB trap exactly when the
\* true result is not a word, MULT and MULTU leave the true double word in Hi
\* and Lo for every pair of signs, and so on.
ArithmeticIsExact ==
  [][(careful' /\ Accessible(m.pc, 4)) =>
       LET i == last' IN
       i.op \in RegisterOps \cup ImmediateOps \cup HiLoOps \cup StoreOps =>
         Meaning(i, m.gp[i.rs], m.gp[i.rt], m')]_vars

=============================================================================
