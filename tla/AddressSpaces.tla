--------------------------- MODULE AddressSpaces ----------------------------
(***************************************************************************)
(* The memory of user programs: AddrSpace takes frames of the machine's    *)
(* memory and loads a program into them, Machine::Translate finds them     *)
(* again, and Scheduler::Run hands the user registers and the page table   *)
(* of the machine from one process to the next.                            *)
(*                                                                         *)
(* A constructor is cut at its reads of the file, which sleep when the     *)
(* file is on the simulated disk; the lock around the choice of frames     *)
(* does nothing, and nothing in there gives up the CPU.  A program's data  *)
(* follows its code, in the file and in memory.                            *)
(***************************************************************************)
EXTENDS Integers, Sequences, FiniteSetsExt

CONSTANTS
  Process, Main,     \* Main is the program of the command line
  Program,           \* <<size of code, of initData, of uninitData>>
  PageSize, NumPhysPages, UserStackSize,
  Address,           \* bound: where user instructions write
  MaxWrites          \* bound: ... and how often

ASSUME AddressSpacesAssumption ==
  /\ Main \in Process
  /\ Program \subseteq Nat \X Nat \X Nat
  /\ {PageSize, NumPhysPages} \subseteq Nat \ {0}
  /\ Address \subseteq Nat
  /\ UserStackSize \in Nat /\ MaxWrites \in Nat

VARIABLES
  gPhysPageBitMap,   \* the frames in use
  mainMemory,
  space,             \* the AddrSpace of each process
  pc,                \* None, Start, Load or User
  copied,            \* ReadAt calls done by a constructor in progress
  current,           \* currentThread
  pageTable,         \* Machine::pageTable with pageTableSize
  registers,         \* the machine's user registers, as one value
  userRegisters,     \* where Thread saves them
  halted,
  image,             \* history: what each process has put in its memory
  ownRegisters,      \* history: ... and in its registers
  writes

machineVars == <<current, pageTable, registers, userRegisters>>
vars == <<gPhysPageBitMap, mainMemory, space, pc, copied, machineVars, halted,
          image, ownRegisters, writes>>

Frame == 0..(NumPhysPages - 1)
MemorySize == NumPhysPages * PageSize

\* Bytes: byte k of a program's file, a byte written by a process, or zero.
FileByte(prog, k) == Append(prog, k)
Written(p) == <<p>>
Zero == <<>>

NoSpace == [pageTable |-> <<>>, program |-> <<0, 0, 0>>]

numPages(s) == Len(s.pageTable)

Init ==
  /\ gPhysPageBitMap = {}
  /\ mainMemory = [a \in 0..(MemorySize - 1) |-> Zero]
  /\ space = [p \in Process |-> NoSpace]
  /\ pc = [p \in Process |-> IF p = Main THEN "Start" ELSE "None"]
  /\ copied = [p \in Process |-> 0]
  /\ current = Main
  /\ pageTable = <<>>
  /\ registers = 0
  /\ userRegisters = [p \in Process |-> 0]
  /\ halted = FALSE
  /\ image = [p \in Process |-> <<>>]
  /\ ownRegisters = [p \in Process |-> 0]
  /\ writes = 0

Running(p) == ~halted /\ current = p

divRoundUp(n, s) == (n \div s) + (IF n % s > 0 THEN 1 ELSE 0)

\* numPages for a program, its stack included.
Pages(prog) == divRoundUp(prog[1] + prog[2] + prog[3] + UserStackSize, PageSize)

-----------------------------------------------------------------------------
(* The constructors.                                                       *)

NumClear == Cardinality(Frame \ gPhysPageBitMap)

\* n calls of BitMap::Find: the first clear frames, then -1.
FindFrames(n) ==
  LET Rank(f) == Cardinality({g \in Frame \ gPhysPageBitMap : g <= f})
  IN  [i \in 1..n |-> IF i > NumClear THEN -1
                      ELSE CHOOSE f \in Frame \ gPhysPageBitMap : Rank(f) = i]

\* Mutant: the frames found are not marked.
TakeUnmarked(p, prog, frames) ==
  /\ UNCHANGED gPhysPageBitMap
  /\ space' = [space EXCEPT ![p] = [pageTable |-> frames, program |-> prog]]

Take(p, prog, frames) ==
  /\ gPhysPageBitMap' = gPhysPageBitMap \cup {frames[i] : i \in 1..Len(frames)}
  /\ space' = [space EXCEPT ![p] = [pageTable |-> frames, program |-> prog]]

\* The memory a program starts with.
Loaded(prog) ==
  [v \in 0..(Pages(prog) * PageSize - 1) |->
     IF v < prog[1] + prog[2] THEN FileByte(prog, v) ELSE Zero]

InFrames(a, frames) == \E i \in 1..Len(frames) : a \div PageSize = frames[i]

\* StartProcess and the first constructor, for the program of the command
\* line: memory is zeroed and filled as if page i were in frame i.
StartProcess(prog) ==
  /\ Running(Main)
  /\ pc[Main] = "Start"
  /\ Pages(prog) <= NumPhysPages
  /\ Take(Main, prog, FindFrames(Pages(prog)))
  /\ mainMemory' = [a \in DOMAIN mainMemory |->
       IF a < prog[1] + prog[2] THEN FileByte(prog, a)
       ELSE IF a < Pages(prog) * PageSize THEN Zero
       ELSE mainMemory[a]]
  /\ image' = [image EXCEPT ![Main] = Loaded(prog)]
  /\ pageTable' = FindFrames(Pages(prog))
  /\ registers' = 0
  /\ ownRegisters' = [ownRegisters EXCEPT ![Main] = 0]
  /\ pc' = [pc EXCEPT ![Main] = "User"]
  /\ UNCHANGED <<copied, current, userRegisters, halted, writes>>

\* MyStartProcess and the second constructor up to the copying.  When memory
\* is short there are no pages, and the process goes on all the same.
Load(p, prog) ==
  /\ Running(p)
  /\ p # Main /\ pc[p] = "Start"
  /\ pc' = [pc EXCEPT ![p] = "Load"]
  /\ copied' = [copied EXCEPT ![p] = 0]
  /\ IF Pages(prog) > NumClear
     THEN UNCHANGED <<gPhysPageBitMap, mainMemory, space, image>>
     ELSE LET frames == FindFrames(Pages(prog))
          IN  /\ Take(p, prog, frames)
              /\ mainMemory' = [a \in DOMAIN mainMemory |->
                   IF InFrames(a, frames) THEN Zero ELSE mainMemory[a]]
              /\ image' = [image EXCEPT ![p] = Loaded(prog)]
  /\ UNCHANGED <<machineVars, halted, ownRegisters, writes>>

\* A ReadAt into a page, at an offset, of count bytes of the file.
Copy(page, offset, count, from) ==
  [page |-> page, offset |-> offset, count |-> count, from |-> from]

\* Mutant: the rest of the data is read from the start of the data.
CopiesAgain(prog) ==
  LET numCodePage == divRoundUp(prog[1], PageSize)
      lastCodePageSize == prog[1] - (numCodePage - 1) * PageSize
      tempDataSize == prog[2] - (PageSize - lastCodePageSize)
      numDataPage == IF tempDataSize < 0 THEN 0
                     ELSE divRoundUp(tempDataSize, PageSize)
      lastDataPageSize == tempDataSize - (numDataPage - 1) * PageSize
      firstDataPageSize == IF tempDataSize < 0 THEN prog[2]
                           ELSE PageSize - lastCodePageSize
  IN  [i \in 1..numCodePage |->
         Copy(i, 0, IF i < numCodePage THEN PageSize ELSE lastCodePageSize,
              (i - 1) * PageSize)]
      \o (IF lastCodePageSize < PageSize /\ firstDataPageSize > 0
          THEN <<Copy(numCodePage, lastCodePageSize, firstDataPageSize, prog[1])>>
          ELSE <<>>)
      \o [j \in 1..numDataPage |->
            Copy(numCodePage + j, 0,
                 IF j < numDataPage THEN PageSize ELSE lastDataPageSize,
                 prog[1] + (j - 1) * PageSize)]

\* The ReadAt calls of the second constructor: the pages of the code, the data
\* that fits behind the code in its last page, the pages of the other data.
Copies(prog) ==
  LET numCodePage == divRoundUp(prog[1], PageSize)
      lastCodePageSize == prog[1] - (numCodePage - 1) * PageSize
      tempDataSize == prog[2] - (PageSize - lastCodePageSize)
      numDataPage == IF tempDataSize < 0 THEN 0
                     ELSE divRoundUp(tempDataSize, PageSize)
      lastDataPageSize == tempDataSize - (numDataPage - 1) * PageSize
      firstDataPageSize == IF tempDataSize < 0 THEN prog[2]
                           ELSE PageSize - lastCodePageSize
  IN  [i \in 1..numCodePage |->
         Copy(i, 0, IF i < numCodePage THEN PageSize ELSE lastCodePageSize,
              (i - 1) * PageSize)]
      \o (IF lastCodePageSize < PageSize /\ firstDataPageSize > 0
          THEN <<Copy(numCodePage, lastCodePageSize, firstDataPageSize, prog[1])>>
          ELSE <<>>)
      \o [j \in 1..numDataPage |->
            Copy(numCodePage + j, 0,
                 IF j < numDataPage THEN PageSize ELSE lastDataPageSize,
                 prog[1] + firstDataPageSize + (j - 1) * PageSize)]

ReadAt(p) ==
  LET s == space[p]
      c == Copies(s.program)[copied[p] + 1]
      to == s.pageTable[c.page] * PageSize + c.offset
  IN  /\ Running(p)
      /\ pc[p] = "Load"
      /\ copied[p] < Len(Copies(s.program))
      /\ mainMemory' = [a \in DOMAIN mainMemory |->
           IF a \in to..(to + c.count - 1) THEN FileByte(s.program, c.from + a - to)
           ELSE mainMemory[a]]
      /\ copied' = [copied EXCEPT ![p] = @ + 1]
      /\ UNCHANGED <<gPhysPageBitMap, space, pc, machineVars, halted, image,
                     ownRegisters, writes>>

\* Mutant: the machine keeps the page table it has.
RestoreStateNot(p) == UNCHANGED pageTable

\* AddrSpace::RestoreState
RestoreState(p) == pageTable' = space[p].pageTable

\* The constructor is done: the thread gets the space, InitRegisters,
\* RestoreState, Machine::Run.
StartProgram(p) ==
  /\ Running(p)
  /\ pc[p] = "Load"
  /\ copied[p] = Len(Copies(space[p].program))
  /\ pc' = [pc EXCEPT ![p] = "User"]
  /\ registers' = 0
  /\ ownRegisters' = [ownRegisters EXCEPT ![p] = 0]
  /\ RestoreState(p)
  /\ UNCHANGED <<gPhysPageBitMap, mainMemory, space, copied, current,
                 userRegisters, halted, image, writes>>

-----------------------------------------------------------------------------
(* Programs, and the switch from one to another.                           *)

\* Machine::Translate without a TLB: an address of mainMemory, or -1 for an
\* exception.  Entries of a page table are valid and never read-only.
Translate(virtAddr, size) ==
  LET vpn == virtAddr \div PageSize
  IN  IF virtAddr % size # 0 \/ vpn >= Len(pageTable) THEN -1
      ELSE IF pageTable[vpn + 1] \notin Frame THEN -1
      ELSE pageTable[vpn + 1] * PageSize + (virtAddr % PageSize)

\* An instruction that writes size bytes with WriteMem.  The handler of every
\* exception halts the machine.
WriteMem(p, virtAddr, size) ==
  LET physAddr == Translate(virtAddr, size)
      Put(m, from) == [a \in DOMAIN m |->
                         IF a \in from..(from + size - 1) THEN Written(p) ELSE m[a]]
  IN  /\ Running(p)
      /\ pc[p] = "User"
      /\ Translate(0, 4) # -1
      /\ writes < MaxWrites
      /\ writes' = writes + 1
      /\ IF physAddr = -1
         THEN halted' = TRUE /\ UNCHANGED <<mainMemory, image>>
         ELSE /\ mainMemory' = Put(mainMemory, physAddr)
              /\ image' = [image EXCEPT ![p] = Put(@, virtAddr)]
              /\ UNCHANGED halted
      /\ UNCHANGED <<gPhysPageBitMap, space, pc, copied, machineVars, ownRegisters>>

\* The first instruction of a program without memory cannot be fetched.
FetchFails(p) ==
  /\ Running(p)
  /\ pc[p] = "User"
  /\ Translate(0, 4) = -1
  /\ halted' = TRUE
  /\ UNCHANGED <<gPhysPageBitMap, mainMemory, space, pc, copied, machineVars,
                 image, ownRegisters, writes>>

\* An instruction, or the result of a system call, that changes registers.
WriteRegister(p) ==
  /\ Running(p)
  /\ pc[p] = "User"
  /\ Translate(0, 4) # -1
  /\ registers' = 1 - registers
  /\ ownRegisters' = [ownRegisters EXCEPT ![p] = 1 - @]
  /\ UNCHANGED <<gPhysPageBitMap, mainMemory, space, pc, copied, current,
                 pageTable, userRegisters, halted, image, writes>>

\* The system call Exec forks the thread of a new process.
Exec(p, q) ==
  /\ Running(p)
  /\ pc[p] = "User"
  /\ Translate(0, 4) # -1
  /\ pc[q] = "None"
  /\ pc' = [pc EXCEPT ![q] = "Start"]
  /\ UNCHANGED <<gPhysPageBitMap, mainMemory, space, copied, machineVars, halted,
                 image, ownRegisters, writes>>

SaveUserState(p) == userRegisters' = [userRegisters EXCEPT ![p] = registers]

RestoreUserState(p) == registers' = userRegisters[p]

\* Scheduler::Run from p to q: a thread has a space from StartProgram on.
Run(p, q) ==
  /\ Running(p)
  /\ q # p /\ pc[q] # "None"
  /\ IF pc[p] = "User" THEN SaveUserState(p) ELSE UNCHANGED userRegisters
  /\ current' = q
  /\ IF pc[q] = "User"
     THEN RestoreUserState(q) /\ RestoreState(q)
     ELSE UNCHANGED <<registers, pageTable>>
  /\ UNCHANGED <<gPhysPageBitMap, mainMemory, space, pc, copied, halted, image,
                 ownRegisters, writes>>

Halted == halted /\ UNCHANGED vars

Next ==
  \/ \E prog \in Program : StartProcess(prog)
  \/ \E p \in Process :
       \/ \E prog \in Program : Load(p, prog)
       \/ ReadAt(p) \/ StartProgram(p) \/ FetchFails(p) \/ WriteRegister(p)
       \/ \E a \in Address, size \in {1, 4} : WriteMem(p, a, size)
       \/ \E q \in Process : Exec(p, q) \/ Run(p, q)
  \/ Halted

Spec == Init /\ [][Next]_vars

-----------------------------------------------------------------------------
(* Properties.                                                             *)

\* Page tables hold frames of the machine, and the other variables their types.
TypeOK ==
  /\ gPhysPageBitMap \subseteq Frame
  /\ \A p \in Process : space[p].pageTable \in Seq(Frame)
  /\ pageTable \in Seq(Frame)
  /\ pc \in [Process -> {"None", "Start", "Load", "User"}]
  /\ registers \in {0, 1}

\* Over all orders of Execs and loads, the ones that find no memory included, a
\* frame belongs to at most one page of one process, and the frames that are
\* marked in the bit map are the ones that belong to a process: none is shared
\* and none is lost.  The types of the variables are part of it.
FramesAreOwned ==
  /\ TypeOK
  /\ \A f \in Frame :
       LET owners == {x \in Process \X (1..NumPhysPages) :
                        /\ x[2] <= numPages(space[x[1]])
                        /\ space[x[1]].pageTable[x[2]] = f}
       IN  Cardinality(owners) = IF f \in gPhysPageBitMap THEN 1 ELSE 0

\* The memory of a running program, reached through its page table, is its
\* code, its data and zeroes, changed by its own writes only: the page
\* arithmetic of the constructor is right for every size, and neither the
\* loading nor the writes of others show.
MemoryIsPrivate ==
  \A p \in Process : pc[p] = "User" =>
    \A v \in 0..(numPages(space[p]) * PageSize - 1) :
      mainMemory[space[p].pageTable[1 + (v \div PageSize)] * PageSize + (v % PageSize)]
        = image[p][v]

\* However threads are switched, also while programs are being loaded, a
\* program that runs has its own page table in the machine and the registers
\* as it left them.
MachineIsOwn ==
  pc[current] = "User" =>
    /\ pageTable = space[current].pageTable
    /\ registers = ownRegisters[current]

=============================================================================
