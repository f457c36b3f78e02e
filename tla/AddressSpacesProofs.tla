------------------------ MODULE AddressSpacesProofs -------------------------
(* Proof of MachineIsOwn of AddressSpaces, for any processes, programs,    *)
(* page size and memory.                                                   *)
EXTENDS AddressSpaces, TLAPS

-----------------------------------------------------------------------------
(* The inductive invariant.                                                *)

Shape ==
  /\ current \in Process
  /\ pc \in [Process -> {"None", "Start", "Load", "User"}]
  /\ DOMAIN space = Process
  /\ registers \in Int
  /\ userRegisters \in [Process -> Int]
  /\ ownRegisters \in [Process -> Int]

\* A program that does not run finds its registers where Thread has saved them.
Saved ==
  \A p \in Process : pc[p] = "User" /\ p # current =>
    userRegisters[p] = ownRegisters[p]

IInv == Shape /\ Saved /\ MachineIsOwn

-----------------------------------------------------------------------------
(* One lemma for each action that touches the machine or a space.          *)

\* The first program gets its space, its registers and the machine.
LEMMA StartProcessStep ==
  ASSUME IInv, NEW prog \in Program, StartProcess(prog)
  PROVE  IInv'
  <1> DEFINE frames == FindFrames(Pages(prog))
  <1>1. /\ current = Main /\ pc[Main] = "Start"
        /\ space' = [space EXCEPT ![Main] = [pageTable |-> frames, program |-> prog]]
        /\ pageTable' = frames /\ registers' = 0
        /\ ownRegisters' = [ownRegisters EXCEPT ![Main] = 0]
        /\ pc' = [pc EXCEPT ![Main] = "User"]
        /\ UNCHANGED <<current, userRegisters>>
    BY DEF StartProcess, Running, Take
  <1> HIDE DEF frames
  <1>2. Shape'
    BY <1>1, AddressSpacesAssumption DEF IInv, Shape
  <1>3. Saved' /\ MachineIsOwn'
    BY <1>1, AddressSpacesAssumption DEF IInv, Shape, Saved, MachineIsOwn
  <1> QED
    BY <1>2, <1>3 DEF IInv

\* A process that is being loaded has the CPU, and changes its own space only.
LEMMA LoadStep ==
  ASSUME IInv, NEW p \in Process, NEW prog \in Program, Load(p, prog)
  PROVE  IInv'
  <1> DEFINE frames == FindFrames(Pages(prog))
  <1>1. /\ current = p /\ pc[p] = "Start" /\ pc' = [pc EXCEPT ![p] = "Load"]
        /\ \/ UNCHANGED space
           \/ space' = [space EXCEPT ![p] = [pageTable |-> frames, program |-> prog]]
        /\ UNCHANGED <<current, pageTable, registers, userRegisters, ownRegisters>>
    BY DEF Load, Running, Take, machineVars
  <1> HIDE DEF frames
  <1>2. Shape'
    BY <1>1 DEF IInv, Shape
  <1>3. Saved' /\ MachineIsOwn'
    BY <1>1 DEF IInv, Shape, Saved, MachineIsOwn
  <1> QED
    BY <1>2, <1>3 DEF IInv

\* InitRegisters and RestoreState give the machine to the program that starts.
LEMMA StartProgramStep ==
  ASSUME IInv, NEW p \in Process, StartProgram(p)
  PROVE  IInv'
  <1>1. Shape'
    BY DEF StartProgram, IInv, Shape
  <1>2. Saved' /\ MachineIsOwn'
    BY DEF StartProgram, Running, RestoreState, IInv, Shape, Saved, MachineIsOwn
  <1> QED
    BY <1>1, <1>2 DEF IInv

\* The program that runs changes its registers.
LEMMA WriteRegisterStep ==
  ASSUME IInv, NEW p \in Process, WriteRegister(p)
  PROVE  IInv'
  <1>1. /\ current = p /\ pc[p] = "User" /\ registers' = 1 - registers
        /\ ownRegisters' = [ownRegisters EXCEPT ![p] = 1 - ownRegisters[p]]
        /\ UNCHANGED <<space, pc, current, pageTable, userRegisters>>
    BY DEF WriteRegister, Running
  <1>2. Shape'
    BY <1>1 DEF IInv, Shape
  <1>3. Saved' /\ MachineIsOwn'
    BY <1>1 DEF IInv, Shape, Saved, MachineIsOwn
  <1> QED
    BY <1>2, <1>3 DEF IInv

\* The thread of a new process is forked.
LEMMA ExecStep ==
  ASSUME IInv, NEW p \in Process, NEW q \in Process, Exec(p, q)
  PROVE  IInv'
  <1>1. Shape'
    BY DEF Exec, machineVars, IInv, Shape
  <1>2. Saved' /\ MachineIsOwn'
    BY DEF Exec, Running, machineVars, IInv, Shape, Saved, MachineIsOwn
  <1> QED
    BY <1>1, <1>2 DEF IInv

\* Scheduler::Run saves for the old thread and restores for the new one, each
\* when it has a space.
LEMMA RunStep ==
  ASSUME IInv, NEW p \in Process, NEW q \in Process, Run(p, q)
  PROVE  IInv'
  <1>1. /\ current = p /\ q # p /\ current' = q
        /\ UNCHANGED <<space, pc, ownRegisters>>
    BY DEF Run, Running
  <1>2. userRegisters' = IF pc[p] = "User" THEN [userRegisters EXCEPT ![p] = registers]
                         ELSE userRegisters
    BY DEF Run, SaveUserState
  <1>3. IF pc[q] = "User"
        THEN registers' = userRegisters[q] /\ pageTable' = space[q].pageTable
        ELSE UNCHANGED <<registers, pageTable>>
    BY DEF Run, RestoreUserState, RestoreState
  <1>4. Shape'
    BY <1>1, <1>2, <1>3 DEF IInv, Shape
  <1>5. Saved'
    BY <1>1, <1>2 DEF IInv, Shape, Saved, MachineIsOwn
  <1>6. MachineIsOwn'
    BY <1>1, <1>3 DEF IInv, Shape, Saved, MachineIsOwn
  <1> QED
    BY <1>4, <1>5, <1>6 DEF IInv

\* All other steps leave the machine, the spaces and the saved registers alone.
LEMMA OtherSteps ==
  ASSUME IInv, UNCHANGED <<space, pc, machineVars, ownRegisters>>
  PROVE  IInv'
  BY DEF machineVars, IInv, Shape, Saved, MachineIsOwn

-----------------------------------------------------------------------------
(* The theorem.                                                            *)

\* Nobody has a program yet.
LEMMA InitIInv == Init => IInv
  BY AddressSpacesAssumption DEF Init, IInv, Shape, Saved, MachineIsOwn

\* Every step keeps the invariant.
LEMMA NextIInv == IInv /\ [Next]_vars => IInv'
  <1> SUFFICES ASSUME IInv, [Next]_vars PROVE IInv'
    OBVIOUS
  <1>1. ASSUME NEW p \in Process,
               ReadAt(p) \/ FetchFails(p) \/ \E a \in Address, size \in {1, 4} :
                                               WriteMem(p, a, size)
        PROVE  IInv'
    BY <1>1, OtherSteps DEF ReadAt, FetchFails, WriteMem
  <1>2. CASE UNCHANGED vars
    BY <1>2, OtherSteps DEF vars
  <1> QED
    BY <1>1, <1>2, StartProcessStep, LoadStep, StartProgramStep, WriteRegisterStep,
       ExecStep, RunStep DEF Next, Halted

\* However threads are switched, a program that runs has its own page table and
\* registers in the machine: Scheduler::Run, with the two RestoreStates of thread
\* and space, for any number of processes and any sizes.
THEOREM ProgramsFindTheirMachine == Spec => []MachineIsOwn
  <1>1. IInv => MachineIsOwn
    BY DEF IInv
  <1> QED
    BY <1>1, InitIInv, NextIInv, PTL DEF Spec

=============================================================================
