---------------------------- MODULE ProcessTable ----------------------------
(***************************************************************************)
(* Processes: the process table (PTable), its process control blocks (PCB) *)
(* and the system calls Exec, Join, Exit and Halt.                         *)
(*                                                                         *)
(* A process is the kernel thread that runs it.  A system call is cut      *)
(* where the thread may lose the CPU: where a P or a V, or the Fork of a   *)
(* thread, turns interrupts back on.  Semaphores are the abstract ones of  *)
(* CountingSemaphore, which Threads implements: a P is enabled when the    *)
(* value is positive.                                                      *)
(***************************************************************************)
EXTENDS Integers, FiniteSets, FiniteSetsExt

CONSTANTS
  Process,      \* threads that run user programs; bounds the number of Execs
  Main,         \* the one Initialize makes, in slot 0
  MAXPROCESS,   \* slots of the table
  ExitCode,     \* arguments of Exit
  EndsAtExit,   \* TRUE for programs whose last call is Exit (see Halt)
  NULL

Slot == 0..(MAXPROCESS - 1)

\* numwait is left out: it is counted up and down and never read.
PCB == [parentID : Slot, exitcode : ExitCode \cup {0}, JoinStatus : Slot \cup {-1},
        joinsem : Nat, exitsem : Nat, mutex : {0, 1}, thread : Process \cup {NULL}]

ASSUME ProcessTableAssumption ==
  /\ Main \in Process
  /\ NULL \notin Process /\ NULL \notin PCB
  /\ MAXPROCESS \in Nat \ {0}
  /\ ExitCode \subseteq Int
  /\ EndsAtExit \in BOOLEAN

VARIABLES
  bm,       \* PTable::bm, the set of slots in use
  pcb,      \* PTable::pcb; NULL also stands for a pointer to a deleted PCB
  bmsem,    \* value of PTable::bmsem
  pc,       \* where each process is
  pid,      \* Thread::processID
  slot,     \* the pID a call in progress is about (ID in Exec, pID in Join)
  r2,       \* the result register
  halted,
  exited    \* history: processes whose Exit has returned to user mode

vars == <<bm, pcb, bmsem, pc, pid, slot, r2, halted, exited>>

-----------------------------------------------------------------------------

\* The PCB constructor, called by process t.
NewPCB(t) ==
  [parentID |-> pid[t], exitcode |-> 0, JoinStatus |-> -1,
   joinsem |-> 0, exitsem |-> 0, mutex |-> 1, thread |-> NULL]

\* Places a process can be in.  "None": the thread does not exist yet.
\* "Start": forked, in MyStartProcess.  "User": in its program.  "Lost":
\* asleep in the queue of a semaphore that has been deleted.
Label == {"None", "Start", "User", "ExecP", "ExecOpen", "ExecFork",
          "ExecUnlock", "ExecV", "JoinP", "JoinRead", "ExitP", "ExitRemove",
          "Lost"}

Init ==
  /\ bm = {0}
  /\ pcb = [i \in Slot |-> IF i = 0
                           THEN [parentID |-> 0, exitcode |-> 0,
                                 JoinStatus |-> -1, joinsem |-> 0,
                                 exitsem |-> 0, mutex |-> 1, thread |-> NULL]
                           ELSE NULL]
  /\ bmsem = 1
  /\ pc = [t \in Process |-> IF t = Main THEN "User" ELSE "None"]
  /\ pid = [t \in Process |-> 0]
  /\ slot = [t \in Process |-> 0]
  /\ r2 = [t \in Process |-> 0]
  /\ halted = FALSE
  /\ exited = {}

\* PTable::IsExist
IsExist(i) == i \in bm

\* t is ready: it exists and, when it is in a P, the semaphore is positive.
CanRun(t) ==
  /\ pc[t] \notin {"None", "Lost"}
  /\ pc[t] = "ExecP" => bmsem > 0
  /\ pc[t] = "JoinP" => pcb[slot[t]].joinsem > 0
  /\ pc[t] = "ExitP" => pcb[pid[t]].exitsem > 0

\* t has the CPU at label l.  The timer of -rs can give it to any ready process.
At(t, l) ==
  /\ ~halted
  /\ pc[t] = l
  /\ CanRun(t)

\* A system call of the user program.
Call(t) ==
  /\ At(t, "User")
  /\ EndsAtExit => t \notin exited
  /\ UNCHANGED <<pid, halted>>

Goto(t, l) == pc' = [pc EXCEPT ![t] = l]

\* The call ends: r2 gets the result and the program goes on.
Return(t, result) ==
  /\ Goto(t, "User")
  /\ r2' = [r2 EXCEPT ![t] = result]

-----------------------------------------------------------------------------
(* Exec: PTable::ExecUpdate and PCB::Exec.                                 *)

Exec(t) ==
  /\ Call(t)
  /\ Goto(t, "ExecP")
  /\ UNCHANGED <<bm, pcb, bmsem, slot, r2, exited>>

ExecP(t) ==
  /\ At(t, "ExecP")
  /\ bmsem' = bmsem - 1
  /\ Goto(t, "ExecOpen")
  /\ UNCHANGED <<bm, pcb, pid, slot, r2, halted, exited>>

\* The file cannot be opened, or is the program's own: V and return -1.
ExecRefuse(t) ==
  /\ At(t, "ExecOpen")
  /\ bmsem' = bmsem + 1
  /\ Return(t, -1)
  /\ UNCHANGED <<bm, pcb, pid, slot, halted, exited>>

\* GetFreeSlot, new PCB, Mark and the P of the new PCB's mutex; or no slot.
\* Bound: there is a thread left to fork.
ExecOpen(t) ==
  /\ At(t, "ExecOpen")
  /\ Slot \ bm # {} => \E u \in Process : pc[u] = "None"
  /\ IF Slot \ bm = {}
     THEN /\ bmsem' = bmsem + 1
          /\ Return(t, -1)
          /\ UNCHANGED <<bm, pcb, slot>>
     ELSE LET ID == Min(Slot \ bm) IN
          /\ bm' = bm \cup {ID}
          /\ pcb' = [pcb EXCEPT ![ID] = [NewPCB(t) EXCEPT !.mutex = 0]]
          /\ slot' = [slot EXCEPT ![t] = ID]
          /\ Goto(t, "ExecFork")
          /\ UNCHANGED <<bmsem, r2>>
  /\ UNCHANGED <<pid, halted, exited>>

\* new Thread, SetProcessID and Fork.
ExecFork(t, u) ==
  /\ At(t, "ExecFork")
  /\ pc[u] = "None"
  /\ pcb' = [pcb EXCEPT ![slot[t]].thread = u]
  /\ pid' = [pid EXCEPT ![u] = slot[t]]
  /\ pc' = [pc EXCEPT ![t] = "ExecUnlock", ![u] = "Start"]
  /\ UNCHANGED <<bm, bmsem, slot, r2, halted, exited>>

\* mutex->V() of the PCB.  When the PCB is gone this is a write to freed
\* memory: it goes unnoticed or the emulator dies.
ExecUnlock(t) ==
  /\ At(t, "ExecUnlock")
  /\ IF pcb[slot[t]] # NULL
     THEN /\ pcb' = [pcb EXCEPT ![slot[t]].mutex = @ + 1]
          /\ UNCHANGED halted
     ELSE halted' \in BOOLEAN /\ UNCHANGED pcb
  /\ Goto(t, "ExecV")
  /\ UNCHANGED <<bm, bmsem, pid, slot, r2, exited>>

ExecV(t) ==
  /\ At(t, "ExecV")
  /\ bmsem' = bmsem + 1
  /\ Return(t, slot[t])
  /\ UNCHANGED <<bm, pcb, pid, slot, halted, exited>>

\* MyStartProcess: the address space is built and the program starts.
MyStartProcess(t) ==
  /\ At(t, "Start")
  /\ Goto(t, "User")
  /\ UNCHANGED <<bm, pcb, bmsem, pid, slot, r2, halted, exited>>

-----------------------------------------------------------------------------
(* Join: the checks of the handler and of PTable::JoinUpdate.              *)

\* The process exists, is not the first one, and its parent is the caller.
MayJoin(t, i) == IsExist(i) /\ i > 0 /\ pcb[i].parentID = pid[t]

JoinRefused(t, i) ==
  /\ Call(t)
  /\ ~MayJoin(t, i)
  /\ Return(t, -1)
  /\ UNCHANGED <<bm, pcb, bmsem, slot, exited>>

\* PCB::JoinWait up to its P.
Join(t, i) ==
  /\ Call(t)
  /\ MayJoin(t, i)
  /\ pcb' = [pcb EXCEPT ![i].JoinStatus = pcb[i].parentID]
  /\ slot' = [slot EXCEPT ![t] = i]
  /\ Goto(t, "JoinP")
  /\ UNCHANGED <<bm, bmsem, r2, exited>>

JoinP(t) ==
  /\ At(t, "JoinP")
  /\ pcb' = [pcb EXCEPT ![slot[t]].joinsem = @ - 1]
  /\ Goto(t, "JoinRead")
  /\ UNCHANGED <<bm, bmsem, pid, slot, r2, halted, exited>>

\* Mutation of JoinRead: forgets ExitRelease.
JoinReadNoRelease(t) ==
  /\ At(t, "JoinRead")
  /\ Return(t, IF pcb[slot[t]].exitcode # 0 THEN -1 ELSE 0)
  /\ UNCHANGED <<bm, pcb, bmsem, pid, slot, halted, exited>>

\* The exit code is read; ExitRelease happens only when it is 0.
JoinRead(t) ==
  /\ At(t, "JoinRead")
  /\ IF pcb[slot[t]].exitcode # 0
     THEN Return(t, -1) /\ UNCHANGED pcb
     ELSE /\ pcb' = [pcb EXCEPT ![slot[t]].exitsem = @ + 1]
          /\ Return(t, 0)
  /\ UNCHANGED <<bm, bmsem, pid, slot, halted, exited>>

-----------------------------------------------------------------------------
(* Exit: PTable::ExitUpdate.  It returns to the user program, whatever it  *)
(* does: nothing finishes the thread.                                      *)

\* PTable::Remove and ~PCB, called by t, which goes on to its program.  Who
\* sleeps in joinsem or exitsem is never woken: the queues are deleted.
Remove(t) ==
  /\ bm' = bm \ {pid[t]}
  /\ IF pid[t] \in bm
     THEN /\ pcb' = [pcb EXCEPT ![pid[t]] = NULL]
          /\ pc' = [u \in Process |->
                     CASE u = t -> "User"
                       [] pc[u] = "JoinP" /\ slot[u] = pid[t] -> "Lost"
                       [] pc[u] = "ExitP" /\ pid[u] = pid[t] -> "Lost"
                       [] OTHER -> pc[u]]
     ELSE Goto(t, "User") /\ UNCHANGED pcb
  /\ exited' = exited \cup {t}

\* The table has no such process.
ExitUnknown(t) ==
  /\ Return(t, -1)
  /\ exited' = exited \cup {t}
  /\ UNCHANGED <<bm, pcb>>

\* Nobody has joined: the PCB is deleted at once.
ExitAlone(t, ec) ==
  /\ Remove(t)
  /\ r2' = [r2 EXCEPT ![t] = ec]

\* Mutation of ExitJoined: the slot is free as soon as the parent is released.
ExitJoinedFreesSlot(t, ec) ==
  /\ pcb' = [pcb EXCEPT ![pid[t]].exitcode = ec, ![pid[t]].joinsem = @ + 1]
  /\ bm' = bm \ {pid[t]}
  /\ r2' = [r2 EXCEPT ![t] = ec]
  /\ Goto(t, "ExitP")
  /\ UNCHANGED exited

\* Mutation of ExitJoined: no ExitWait.
ExitJoinedNoWait(t, ec) ==
  /\ pcb' = [pcb EXCEPT ![pid[t]].exitcode = ec, ![pid[t]].joinsem = @ + 1]
  /\ r2' = [r2 EXCEPT ![t] = ec]
  /\ Goto(t, "ExitRemove")
  /\ UNCHANGED <<bm, exited>>

\* The parent has joined: JoinRelease, then ExitWait.
ExitJoined(t, ec) ==
  /\ pcb' = [pcb EXCEPT ![pid[t]].exitcode = ec, ![pid[t]].joinsem = @ + 1]
  /\ r2' = [r2 EXCEPT ![t] = ec]
  /\ Goto(t, "ExitP")
  /\ UNCHANGED <<bm, exited>>

\* Exit of a process other than the first.
Exit(t, ec) ==
  /\ Call(t)
  /\ pid[t] # 0
  /\ IF ~IsExist(pid[t]) THEN ExitUnknown(t)
     ELSE IF pcb[pid[t]].JoinStatus = -1 THEN ExitAlone(t, ec)
     ELSE ExitJoined(t, ec)
  /\ UNCHANGED <<bmsem, slot>>

ExitP(t) ==
  /\ At(t, "ExitP")
  /\ pcb' = [pcb EXCEPT ![pid[t]].exitsem = @ - 1]
  /\ Goto(t, "ExitRemove")
  /\ UNCHANGED <<bm, bmsem, pid, slot, r2, halted, exited>>

ExitRemove(t) ==
  /\ At(t, "ExitRemove")
  /\ Remove(t)
  /\ UNCHANGED <<bmsem, pid, slot, r2, halted>>

\* Halt, or Exit of process 0.  A program that returns from main calls Exit
\* from __start in start.s; when that returns, execution falls into the code
\* that follows, the stub of Halt.
Halt(t) ==
  /\ At(t, "User")
  /\ halted' = TRUE
  /\ UNCHANGED <<bm, pcb, bmsem, pc, pid, slot, r2, exited>>

\* Nobody can run.  Interrupt::Idle does not halt the machine: the console
\* keeps a poll for input pending, so it advances the clock for ever.
Idle ==
  /\ ~halted
  /\ \A t \in Process : ~CanRun(t)
  /\ UNCHANGED vars

Halted == halted /\ UNCHANGED vars

KernelStep(t) ==
  \/ ExecP(t) \/ ExecRefuse(t) \/ ExecOpen(t) \/ ExecUnlock(t) \/ ExecV(t)
  \/ \E u \in Process : ExecFork(t, u)
  \/ MyStartProcess(t)
  \/ JoinP(t) \/ JoinRead(t) \/ ExitP(t) \/ ExitRemove(t)

Next ==
  \/ \E t \in Process :
       \/ Exec(t) \/ Halt(t) \/ KernelStep(t)
       \/ \E i \in Slot : Join(t, i) \/ JoinRefused(t, i)
       \/ \E ec \in ExitCode : Exit(t, ec)
  \/ Idle \/ Halted

Spec == Init /\ [][Next]_vars

\* With the timer every ready process runs again (ReadyRuns of Threads).
FairSpec == Spec /\ \A t \in Process : WF_vars(KernelStep(t))

-----------------------------------------------------------------------------

\* Every variable keeps its type, and bmsem is a lock: 0 or 1.
TypeOK ==
  /\ bm \subseteq Slot
  /\ pcb \in [Slot -> PCB \cup {NULL}]
  /\ bmsem \in {0, 1}
  /\ pc \in [Process -> Label]
  /\ pid \in [Process -> Slot]
  /\ slot \in [Process -> Slot]
  /\ r2 \in [Process -> ExitCode \cup Slot \cup {-1, 0}]
  /\ halted \in BOOLEAN
  /\ exited \subseteq Process

Alive == {t \in Process : pc[t] # "None" /\ t \notin exited}

\* Across every order of Execs, Exits and the reuse of slots, a slot that is
\* marked in bm has a PCB and exactly one owner: a process that has not exited,
\* or an Exec that is about to fork its thread.  One that is not marked has
\* none.  So no two processes have the same ID, and Exit gives its slot back and
\* nothing else does.  The types of the variables are part of it.
SlotsAreOwned ==
  /\ TypeOK
  /\ \A i \in Slot :
       LET processes == {t \in Alive : pid[t] = i}
           execs == {t \in Process : pc[t] = "ExecFork" /\ slot[t] = i}
       IN  /\ i \in bm <=> pcb[i] # NULL
           /\ Cardinality(processes) + Cardinality(execs) = IF i \in bm THEN 1 ELSE 0

\* The handshake of Join and Exit: when JoinUpdate reads the exit code, the
\* child is held in ExitWait, its PCB is there, and the code is the one the
\* child passed to Exit.
JoinHandshake ==
  \A t \in Process : pc[t] = "JoinRead" =>
     LET child == pcb[slot[t]] IN
     /\ child # NULL
     /\ pc[child.thread] = "ExitP"
     /\ child.exitcode = r2[child.thread]

\* A child that a parent has joined and that exits with 0 gets out of ExitWait
\* and gives its slot back, or the machine halts.
ExitCompletes ==
  \A t \in Process :
    pc[t] = "ExitP" /\ r2[t] = 0 ~> t \in exited \/ halted

-----------------------------------------------------------------------------
(* What the documentation and the comments promise and the code does not.  *)

\* table.h on Remove: a process ID leaves the table "when this process has
\* finished".  The PCB that goes belongs to a process that has exited.
RemovesTheFinished ==
  [][\A i \in bm \ bm' : pcb[i].thread \in exited']_vars

=============================================================================
