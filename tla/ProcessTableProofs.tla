------------------------- MODULE ProcessTableProofs -------------------------
(* Proofs of SlotsAreOwned and JoinHandshake of ProcessTable, for any      *)
(* number of processes and slots and any exit codes, when the last call of *)
(* a program is Exit.                                                      *)
EXTENDS ProcessTable, TLAPS, FiniteSetTheorems, WellFoundedInduction, NaturalsInduction

-----------------------------------------------------------------------------
(* The inductive invariant.                                                *)

\* bmsem is held from the P of ExecUpdate to its V.
InExec(t) == pc[t] \in {"ExecOpen", "ExecFork", "ExecUnlock", "ExecV"}

Lock ==
  /\ \A t, u \in Process : InExec(t) /\ InExec(u) => t = u
  /\ \A t \in Process : InExec(t) => bmsem = 0

Forking(t) == pc[t] = "ExecFork"

\* SlotsAreOwned without the counting.
Owners ==
  /\ \A i \in Slot : i \in bm <=> pcb[i] # NULL
  /\ \A t \in Alive : pid[t] \in bm
  /\ \A t, u \in Alive : pid[t] = pid[u] => t = u
  /\ \A t \in Process : Forking(t) => slot[t] \in bm /\ \A u \in Alive : pid[u] # slot[t]
  /\ \A i \in bm : \/ \E t \in Alive : pid[t] = i
                   \/ \E t \in Process : Forking(t) /\ slot[t] = i
  /\ \A t \in exited : pc[t] = "User"

\* The mutex of a new PCB is taken until ExecUnlock.
Mutexes ==
  \A t \in Process : pc[t] \in {"ExecFork", "ExecUnlock"} /\ slot[t] \in bm =>
    pcb[slot[t]].mutex = 0

\* A PCB leads to its process, but for the first one.
PCBThreads == \A t \in Alive : pid[t] # 0 => pcb[pid[t]].thread = t

\* The process of slot i is held in ExitWait.
Held(i) ==
  /\ pcb[i].thread \in Process
  /\ pid[pcb[i].thread] = i
  /\ pc[pcb[i].thread] = "ExitP"

\* From JoinRelease to ExitWait's return there is one token: it is joinsem, then
\* with the parent that reads the exit code, then exitsem.
Handshake ==
  /\ \A u \in Process : pc[u] = "JoinP" => slot[u] \in bm
  /\ \A u, v \in Process :
       pc[u] = "JoinRead" /\ pc[v] = "JoinRead" /\ slot[u] = slot[v] => u = v
  /\ \A u \in Process : pc[u] = "JoinRead" =>
       /\ slot[u] \in bm /\ Held(slot[u])
       /\ pcb[slot[u]].joinsem = 0 /\ pcb[slot[u]].exitsem = 0
  /\ \A i \in bm : pcb[i].joinsem + pcb[i].exitsem > 0 =>
       pcb[i].joinsem + pcb[i].exitsem = 1 /\ Held(i)
  /\ \A t \in Process : pc[t] = "ExitP" => pcb[pid[t]].exitcode = r2[t]
  /\ \A t \in Process : pc[t] \in {"ExitP", "ExitRemove"} => pid[t] # 0

IInv == TypeOK /\ Lock /\ Owners /\ Mutexes /\ PCBThreads /\ Handshake

-----------------------------------------------------------------------------
(* Slots.                                                                  *)

\* GetFreeSlot finds a slot that is free.
LEMMA FreeSlot ==
  ASSUME NEW S \in SUBSET Slot, S # {}
  PROVE  Min(S) \in S
  <1>1. S \subseteq Nat
    BY ProcessTableAssumption DEF Slot
  <1> DEFINE R == OpToRel(<, Nat)
  <1>2. IsWellFoundedOn(R, Nat)
    BY NatLessThanWellFounded
  <1>3. \A x, y \in Nat : <<y, x>> \in R <=> y < x
    BY DEF OpToRel
  <1> HIDE DEF R
  <1>4. PICK x \in S : \A y \in S : ~(<<y, x>> \in R)
    BY <1>1, <1>2, WFMin
  <1>5. ASSUME NEW y \in S PROVE x <= y
    <2>1. x \in Nat /\ y \in Nat /\ ~(<<y, x>> \in R)
      BY <1>1, <1>4
    <2>2. ~(y < x)
      BY <1>3, <2>1
    <2> QED
      BY <2>1, <2>2
  <1> QED
    BY <1>5 DEF Min

-----------------------------------------------------------------------------
(* Steps of a call that leave the table alone.                             *)

\* Exec as far as bmsem.
LEMMA ExecStep ==
  ASSUME IInv, NEW t \in Process, EndsAtExit, Exec(t)
  PROVE  IInv'
  <1> USE DEF IInv
  <1>1. TypeOK'
    BY ProcessTableAssumption DEF Exec, Call, At, Goto, TypeOK, Label, Lock, InExec
  <1>2. Lock'
    BY DEF Exec, Call, At, Goto, TypeOK, Lock, InExec
  <1>3. Alive' = Alive
    BY DEF Exec, Call, At, Goto, TypeOK, Alive
  <1>4. Owners' /\ Mutexes' /\ PCBThreads'
    BY <1>3 DEF Exec, Call, At, Goto, TypeOK, Owners, Forking, Mutexes, PCBThreads, Alive
  <1>5. Handshake'
    BY DEF Exec, Call, At, Goto, TypeOK, Handshake, Held
  <1> QED
    BY <1>1, <1>2, <1>4, <1>5

\* bmsem is taken.
LEMMA ExecPStep ==
  ASSUME IInv, NEW t \in Process, ExecP(t)
  PROVE  IInv'
  <1> USE DEF IInv
  <1>1. TypeOK'
    BY ProcessTableAssumption DEF ExecP, At, CanRun, Goto, TypeOK, Label, Lock, InExec
  <1>2. Lock'
    BY DEF ExecP, At, CanRun, Goto, TypeOK, Lock, InExec
  <1>3. Alive' = Alive
    BY DEF ExecP, At, CanRun, Goto, TypeOK, Alive
  <1>4. Owners' /\ Mutexes' /\ PCBThreads'
    BY <1>3 DEF ExecP, At, CanRun, Goto, TypeOK, Owners, Forking, Mutexes, PCBThreads, Alive
  <1>5. Handshake'
    BY DEF ExecP, At, CanRun, Goto, TypeOK, Handshake, Held
  <1> QED
    BY <1>1, <1>2, <1>4, <1>5

\* No such file.
LEMMA ExecRefuseStep ==
  ASSUME IInv, NEW t \in Process, ExecRefuse(t)
  PROVE  IInv'
  <1> USE DEF IInv
  <1>1. TypeOK'
    BY ProcessTableAssumption DEF ExecRefuse, Return, At, Goto, TypeOK, Label, Lock, InExec
  <1>2. Lock'
    BY DEF ExecRefuse, Return, At, Goto, TypeOK, Lock, InExec
  <1>3. Alive' = Alive
    BY DEF ExecRefuse, Return, At, Goto, TypeOK, Alive
  <1>4. Owners' /\ Mutexes' /\ PCBThreads'
    BY <1>3 DEF ExecRefuse, Return, At, Goto, TypeOK, Owners, Forking, Mutexes, PCBThreads, Alive
  <1>5. Handshake'
    BY DEF ExecRefuse, Return, At, Goto, TypeOK, Handshake, Held
  <1> QED
    BY <1>1, <1>2, <1>4, <1>5

\* The end of Exec.
LEMMA ExecVStep ==
  ASSUME IInv, NEW t \in Process, ExecV(t)
  PROVE  IInv'
  <1> USE DEF IInv
  <1>1. TypeOK'
    BY ProcessTableAssumption DEF ExecV, Return, At, Goto, TypeOK, Label, Lock, InExec
  <1>2. Lock'
    BY DEF ExecV, Return, At, Goto, TypeOK, Lock, InExec
  <1>3. Alive' = Alive
    BY DEF ExecV, Return, At, Goto, TypeOK, Alive
  <1>4. Owners' /\ Mutexes' /\ PCBThreads'
    BY <1>3 DEF ExecV, Return, At, Goto, TypeOK, Owners, Forking, Mutexes, PCBThreads, Alive
  <1>5. Handshake'
    BY DEF ExecV, Return, At, Goto, TypeOK, Handshake, Held
  <1> QED
    BY <1>1, <1>2, <1>4, <1>5

\* A new process enters its program.
LEMMA MyStartProcessStep ==
  ASSUME IInv, NEW t \in Process, MyStartProcess(t)
  PROVE  IInv'
  <1> USE DEF IInv
  <1>1. TypeOK'
    BY ProcessTableAssumption DEF MyStartProcess, At, Goto, TypeOK, Label, Lock, InExec
  <1>2. Lock'
    BY DEF MyStartProcess, At, Goto, TypeOK, Lock, InExec
  <1>3. Alive' = Alive
    BY DEF MyStartProcess, At, Goto, TypeOK, Alive
  <1>4. Owners' /\ Mutexes' /\ PCBThreads'
    BY <1>3 DEF MyStartProcess, At, Goto, TypeOK, Owners, Forking, Mutexes, PCBThreads, Alive
  <1>5. Handshake'
    BY DEF MyStartProcess, At, Goto, TypeOK, Handshake, Held
  <1> QED
    BY <1>1, <1>2, <1>4, <1>5

\* Join of a process that is not a child.
LEMMA JoinRefusedStep ==
  ASSUME IInv, NEW t \in Process, NEW i \in Slot, EndsAtExit, JoinRefused(t, i)
  PROVE  IInv'
  <1> USE DEF IInv
  <1>1. TypeOK'
    BY ProcessTableAssumption DEF JoinRefused, Return, Call, At, Goto, TypeOK, Label, Lock, InExec
  <1>2. Lock'
    BY DEF JoinRefused, Return, Call, At, Goto, TypeOK, Lock, InExec
  <1>3. Alive' = Alive
    BY DEF JoinRefused, Return, Call, At, Goto, TypeOK, Alive
  <1>4. Owners' /\ Mutexes' /\ PCBThreads'
    BY <1>3 DEF JoinRefused, Return, Call, At, Goto, TypeOK, Owners, Forking, Mutexes, PCBThreads, Alive
  <1>5. Handshake'
    BY DEF JoinRefused, Return, Call, At, Goto, TypeOK, Handshake, Held
  <1> QED
    BY <1>1, <1>2, <1>4, <1>5

-----------------------------------------------------------------------------
(* Steps that change a PCB.                                               *)

\* A PCB is changed in place: its slot, its thread and the other PCBs stay.
InPlace(i, p) ==
  /\ i \in bm /\ p \in PCB /\ p.thread = pcb[i].thread
  /\ pcb' = [pcb EXCEPT ![i] = p]
  /\ UNCHANGED <<bm, pid, exited>>

\* Thread t goes on to another place of a call.
Moves(t, l) ==
  /\ pc[t] # "None" /\ t \notin exited
  /\ l # "None" /\ l # "ExecFork" /\ pc[t] # "ExecFork"
  /\ pc' = [pc EXCEPT ![t] = l]

\* What such a step keeps.
LEMMA InPlaceStep ==
  ASSUME IInv, NEW i, NEW p, InPlace(i, p), NEW t \in Process, NEW l, Moves(t, l),
         \A u \in Process : slot'[u] = slot[u] \/ (u = t /\ l # "ExecUnlock")
  PROVE  Owners' /\ PCBThreads'
  <1> USE DEF IInv
  <1>1. Alive' = Alive
    BY DEF InPlace, Moves, TypeOK, Alive
  <1>2. /\ i \in Slot /\ pcb'[i] = p /\ p # NULL
        /\ \A j \in Slot : j # i => pcb'[j] = pcb[j]
    BY ProcessTableAssumption DEF InPlace, TypeOK
  <1>3. \A u \in Process : /\ Forking(u)' <=> Forking(u)
                           /\ Forking(u) => slot'[u] = slot[u]
    BY DEF Moves, TypeOK, Forking
  <1>4. Owners'
    <2>1. \A t1 \in exited' : pc'[t1] = "User"
      BY DEF InPlace, Moves, TypeOK, Owners
    <2>2. \A j \in Slot : j \in bm' <=> pcb'[j] # NULL
      BY <1>2 DEF InPlace, Owners
    <2> QED
      BY <1>1, <1>3, <2>1, <2>2 DEF InPlace, Owners
  <1>5. PCBThreads'
    <2>1. \A u \in Alive : pid[u] \in bm /\ pid[u] \in Slot
      BY DEF Owners, TypeOK, Alive
    <2> QED
      BY <1>1, <1>2, <2>1 DEF InPlace, PCBThreads
  <1> QED
    BY <1>4, <1>5

\* The mutex of the new PCB is released, if the PCB is still there.
LEMMA ExecUnlockStep ==
  ASSUME IInv, NEW t \in Process, ExecUnlock(t)
  PROVE  IInv'
  <1> USE DEF IInv
  <1>1. /\ pc[t] = "ExecUnlock" /\ pc' = [pc EXCEPT ![t] = "ExecV"]
        /\ UNCHANGED <<bm, bmsem, pid, slot, r2, exited>> /\ halted' \in BOOLEAN
    BY DEF ExecUnlock, At, Goto, TypeOK
  <1>2. Lock'
    BY <1>1 DEF TypeOK, Lock, InExec
  <1>3. slot[t] \in Slot /\ t \notin exited
    BY <1>1 DEF TypeOK, Owners
  <1>4. CASE pcb[slot[t]] = NULL
    <2>1. UNCHANGED pcb
      BY <1>4 DEF ExecUnlock
    <2>2. TypeOK'
      BY <1>1, <2>1 DEF TypeOK, Label
    <2>3. Alive' = Alive
      BY <1>1 DEF TypeOK, Alive
    <2>4. Owners' /\ Mutexes' /\ PCBThreads'
      BY <1>1, <2>1, <2>3 DEF TypeOK, Owners, Forking, Mutexes, PCBThreads, Alive
    <2>5. Handshake'
      BY <1>1, <2>1 DEF TypeOK, Handshake, Held
    <2> QED
      BY <1>2, <2>2, <2>4, <2>5
  <1>5. CASE pcb[slot[t]] # NULL
    <2> DEFINE i == slot[t]
               p == [pcb[i] EXCEPT !.mutex = pcb[i].mutex + 1]
    <2>1. i \in bm /\ pcb[i] \in PCB /\ pcb[i].mutex = 0
      BY <1>1, <1>3, <1>5 DEF TypeOK, Owners, Mutexes
    <2>2. /\ p \in PCB /\ p.thread = pcb[i].thread /\ p.joinsem = pcb[i].joinsem
          /\ p.exitsem = pcb[i].exitsem /\ p.exitcode = pcb[i].exitcode
      BY <2>1 DEF PCB
    <2>3. pcb' = [pcb EXCEPT ![i] = p]
      BY <1>5 DEF ExecUnlock
    <2> HIDE DEF p
    <2>4. Owners' /\ PCBThreads'
      BY <1>1, <1>3, <2>1, <2>2, <2>3, InPlaceStep DEF InPlace, Moves
    <2>5. TypeOK'
      BY <1>1, <2>2, <2>3 DEF TypeOK, Label
    <2>6. Mutexes'
      BY <1>1, <1>3, <2>1, <2>3 DEF TypeOK, Lock, InExec, Mutexes
    <2>7. Handshake'
      BY <1>1, <1>3, <2>1, <2>2, <2>3 DEF TypeOK, Handshake, Held
    <2> QED
      BY <1>2, <2>4, <2>5, <2>6, <2>7
  <1> QED
    BY <1>4, <1>5

\* JoinWait sets JoinStatus and goes to its P.
LEMMA JoinStep ==
  ASSUME IInv, EndsAtExit, NEW t \in Process, NEW i \in Slot, Join(t, i)
  PROVE  IInv'
  <1> USE DEF IInv
  <1> DEFINE p == [pcb[i] EXCEPT !.JoinStatus = pcb[i].parentID]
  <1>1. /\ pc[t] = "User" /\ t \notin exited /\ i \in bm
        /\ pc' = [pc EXCEPT ![t] = "JoinP"] /\ slot' = [slot EXCEPT ![t] = i]
        /\ pcb' = [pcb EXCEPT ![i] = p]
        /\ UNCHANGED <<bm, bmsem, pid, r2, halted, exited>>
    BY DEF Join, Call, At, Goto, MayJoin, IsExist
  <1>2. pcb[i] \in PCB
    BY <1>1 DEF TypeOK, Owners
  <1>3. /\ p \in PCB /\ p.thread = pcb[i].thread /\ p.joinsem = pcb[i].joinsem
        /\ p.exitsem = pcb[i].exitsem /\ p.exitcode = pcb[i].exitcode
        /\ p.mutex = pcb[i].mutex
    BY <1>2 DEF PCB
  <1> HIDE DEF p
  <1>4. Owners' /\ PCBThreads'
    <2>1. InPlace(i, p) /\ Moves(t, "JoinP")
      BY <1>1, <1>3 DEF InPlace, Moves
    <2>2. \A u \in Process : slot'[u] = slot[u] \/ u = t
      BY <1>1 DEF TypeOK
    <2> QED
      BY <2>1, <2>2, InPlaceStep
  <1>5. TypeOK'
    BY <1>1, <1>3 DEF TypeOK, Label
  <1>6. Lock' /\ Mutexes'
    BY <1>1, <1>3 DEF TypeOK, Lock, InExec, Mutexes
  <1>7. Handshake'
    <2>1. \A j \in bm : /\ pcb'[j].joinsem = pcb[j].joinsem
                       /\ pcb'[j].exitsem = pcb[j].exitsem
                       /\ pcb'[j].exitcode = pcb[j].exitcode
                       /\ pcb'[j].thread = pcb[j].thread
      BY <1>1, <1>3 DEF TypeOK
    <2>2. \A j \in bm : Held(j) => Held(j)'
      BY <1>1, <2>1 DEF TypeOK, Held
    <2>3. \A u \in Process : u # t => pc'[u] = pc[u] /\ slot'[u] = slot[u]
      BY <1>1 DEF TypeOK
    <2>4. pc'[t] = "JoinP" /\ slot'[t] = i
      BY <1>1 DEF TypeOK
    <2>5. \A u \in Process : pc[u] = "ExitP" => pid[u] \in bm
      BY DEF Owners, Alive
    <2> QED
      BY <1>1, <2>1, <2>2, <2>3, <2>4, <2>5 DEF Handshake
  <1> QED
    BY <1>4, <1>5, <1>6, <1>7

\* Passing on the token: JoinP, JoinRead and ExitP of thread t, with a PCB that
\* keeps all but joinsem and exitsem.
LEMMA TokenStep ==
  ASSUME IInv, NEW i, NEW p, InPlace(i, p), NEW t \in Process,
         NEW l \in {"JoinRead", "User", "ExitRemove"}, Moves(t, l),
         pc[t] \in {"JoinP", "JoinRead", "ExitP"},
         p.mutex = pcb[i].mutex, p.exitcode = pcb[i].exitcode,
         r2' = [r2 EXCEPT ![t] = r2'[t]], r2'[t] \in ExitCode \cup Slot \cup {-1, 0},
         UNCHANGED <<bmsem, slot, halted>>
  PROVE  TypeOK' /\ Lock' /\ Owners' /\ Mutexes' /\ PCBThreads'
  <1> USE DEF IInv
  <1>1. Owners' /\ PCBThreads'
    BY InPlaceStep DEF TypeOK
  <1>2. TypeOK'
    <2>1. r2' \in [Process -> ExitCode \cup Slot \cup {-1, 0}]
      BY DEF TypeOK
    <2>2. pcb' \in [Slot -> PCB \cup {NULL}] /\ pc' \in [Process -> Label]
      BY DEF TypeOK, InPlace, Moves, Label
    <2> QED
      BY <2>1, <2>2 DEF TypeOK, InPlace
  <1>3. Lock'
    BY DEF TypeOK, Lock, InExec, Moves
  <1>4. Mutexes'
    BY DEF TypeOK, Mutexes, InPlace, Moves
  <1> QED
    BY <1>1, <1>2, <1>3, <1>4

\* The parent takes the token out of joinsem.
LEMMA JoinPStep ==
  ASSUME IInv, NEW t \in Process, JoinP(t)
  PROVE  IInv'
  <1> USE DEF IInv
  <1> DEFINE i == slot[t]
             p == [pcb[i] EXCEPT !.joinsem = pcb[i].joinsem - 1]
  <1>1. /\ pc[t] = "JoinP" /\ pcb[i].joinsem > 0 /\ i \in bm
        /\ pc' = [pc EXCEPT ![t] = "JoinRead"] /\ pcb' = [pcb EXCEPT ![i] = p]
        /\ UNCHANGED <<bm, bmsem, pid, slot, r2, halted, exited>>
    BY DEF JoinP, At, CanRun, Goto, Handshake
  <1>2. i \in Slot /\ pcb[i] \in PCB /\ t \notin exited
    BY <1>1 DEF TypeOK, Owners
  <1>3. pcb[i].joinsem = 1 /\ pcb[i].exitsem = 0 /\ Held(i)
    <2>1. pcb[i].joinsem \in Nat /\ pcb[i].exitsem \in Nat
      BY <1>2 DEF PCB
    <2>2. pcb[i].joinsem + pcb[i].exitsem > 0
      BY <1>1, <2>1
    <2>3. pcb[i].joinsem + pcb[i].exitsem = 1 /\ Held(i)
      BY <1>1, <2>2 DEF Handshake
    <2> QED
      BY <1>1, <2>1, <2>3
  <1>4. /\ p \in PCB /\ p.thread = pcb[i].thread /\ p.mutex = pcb[i].mutex
        /\ p.exitcode = pcb[i].exitcode /\ p.joinsem = 0 /\ p.exitsem = 0
    BY <1>2, <1>3 DEF PCB
  <1> HIDE DEF p
  <1>5. InPlace(i, p) /\ Moves(t, "JoinRead")
    BY <1>1, <1>2, <1>4 DEF InPlace, Moves
  <1>6. r2' = [r2 EXCEPT ![t] = r2'[t]] /\ r2'[t] \in ExitCode \cup Slot \cup {-1, 0}
    BY <1>1 DEF TypeOK
  <1>7. TypeOK' /\ Lock' /\ Owners' /\ Mutexes' /\ PCBThreads'
    BY <1>1, <1>4, <1>5, <1>6, TokenStep
  <1>8. Handshake'
    <2>1. /\ \A j \in bm : pcb'[j].thread = pcb[j].thread /\ pcb'[j].exitcode = pcb[j].exitcode
          /\ \A j \in bm : j # i => pcb'[j] = pcb[j]
          /\ pcb'[i] = p
      BY <1>1, <1>2, <1>4 DEF TypeOK
    <2>2. \A j \in bm : Held(j) => Held(j)'
      BY <1>1, <2>1 DEF TypeOK, Held
    <2>3. /\ \A u \in Process : u # t => pc'[u] = pc[u]
          /\ pc'[t] = "JoinRead" /\ slot' = slot /\ bm' = bm /\ pid' = pid /\ r2' = r2
      BY <1>1 DEF TypeOK
    <2>4. \A u \in Process : pc[u] = "ExitP" => pid[u] \in bm
      BY DEF Owners, Alive
    <2>5. \A u \in Process : pc[u] = "JoinRead" => slot[u] # i
      BY <1>1 DEF Handshake
    <2> QED
      BY <1>1, <1>3, <1>4, <2>1, <2>2, <2>3, <2>4, <2>5 DEF Handshake
  <1> QED
    BY <1>7, <1>8

\* The parent reads the exit code, and passes the token on when it is 0.
LEMMA JoinReadStep ==
  ASSUME IInv, NEW t \in Process, JoinRead(t)
  PROVE  IInv'
  <1> USE DEF IInv
  <1> DEFINE i == slot[t]
             p == IF pcb[i].exitcode # 0 THEN pcb[i]
                  ELSE [pcb[i] EXCEPT !.exitsem = pcb[i].exitsem + 1]
  <1>1. /\ pc[t] = "JoinRead" /\ i \in bm /\ Held(i)
        /\ pcb[i].joinsem = 0 /\ pcb[i].exitsem = 0
        /\ pc' = [pc EXCEPT ![t] = "User"]
        /\ UNCHANGED <<bm, bmsem, pid, slot, halted, exited>>
    BY DEF JoinRead, At, Return, Goto, Handshake
  <1>2. i \in Slot /\ pcb[i] \in PCB /\ t \notin exited
    BY <1>1 DEF TypeOK, Owners
  <1>3. /\ p \in PCB /\ p.thread = pcb[i].thread /\ p.mutex = pcb[i].mutex
        /\ p.exitcode = pcb[i].exitcode /\ p.joinsem = 0 /\ p.exitsem \in {0, 1}
    BY <1>1, <1>2 DEF PCB
  <1>4. pcb' = [pcb EXCEPT ![i] = p]
    BY <1>2 DEF JoinRead, TypeOK
  <1> HIDE DEF p
  <1>5. InPlace(i, p) /\ Moves(t, "User")
    BY <1>1, <1>2, <1>3, <1>4 DEF InPlace, Moves
  <1>6. r2' = [r2 EXCEPT ![t] = r2'[t]] /\ r2'[t] \in ExitCode \cup Slot \cup {-1, 0}
    BY DEF JoinRead, Return, TypeOK
  <1>7. TypeOK' /\ Lock' /\ Owners' /\ Mutexes' /\ PCBThreads'
    BY <1>1, <1>3, <1>5, <1>6, TokenStep
  <1>8. Handshake'
    <2>1. /\ \A j \in bm : pcb'[j].thread = pcb[j].thread /\ pcb'[j].exitcode = pcb[j].exitcode
          /\ \A j \in bm : j # i => pcb'[j] = pcb[j]
          /\ pcb'[i] = p
      BY <1>2, <1>3, <1>4 DEF TypeOK
    <2>2. \A j \in bm : Held(j) => Held(j)'
      BY <1>1, <2>1 DEF TypeOK, Held
    <2>3. /\ \A u \in Process : u # t => pc'[u] = pc[u] /\ r2'[u] = r2[u]
          /\ pc'[t] = "User" /\ slot' = slot /\ bm' = bm /\ pid' = pid
      BY <1>1, <1>6 DEF TypeOK
    <2>4. \A u \in Process : pc[u] = "ExitP" => pid[u] \in bm
      BY DEF Owners, Alive
    <2>5. \A u \in Process : u # t /\ pc[u] = "JoinRead" => slot[u] # i
      BY <1>1 DEF Handshake
    <2> QED
      BY <1>1, <1>3, <2>1, <2>2, <2>3, <2>4, <2>5 DEF Handshake
  <1> QED
    BY <1>7, <1>8

\* ExitWait takes the token; nobody reads the exit code any more.
LEMMA ExitPStep ==
  ASSUME IInv, NEW t \in Process, ExitP(t)
  PROVE  IInv'
  <1> USE DEF IInv
  <1> DEFINE i == pid[t]
             p == [pcb[i] EXCEPT !.exitsem = pcb[i].exitsem - 1]
  <1>1. /\ pc[t] = "ExitP" /\ pcb[i].exitsem > 0
        /\ pc' = [pc EXCEPT ![t] = "ExitRemove"] /\ pcb' = [pcb EXCEPT ![i] = p]
        /\ UNCHANGED <<bm, bmsem, pid, slot, r2, halted, exited>>
    BY DEF ExitP, At, CanRun, Goto
  <1>2. t \in Alive /\ i \in bm /\ i \in Slot /\ pcb[i] \in PCB /\ t \notin exited
    BY <1>1 DEF TypeOK, Owners, Alive
  <1>3. pcb[i].exitsem = 1 /\ pcb[i].joinsem = 0 /\ Held(i)
    <2>1. pcb[i].joinsem \in Nat /\ pcb[i].exitsem \in Nat
      BY <1>2 DEF PCB
    <2>2. pcb[i].joinsem + pcb[i].exitsem > 0
      BY <1>1, <2>1
    <2>3. pcb[i].joinsem + pcb[i].exitsem = 1 /\ Held(i)
      BY <1>2, <2>2 DEF Handshake
    <2> QED
      BY <1>1, <2>1, <2>3
  <1>4. /\ p \in PCB /\ p.thread = pcb[i].thread /\ p.mutex = pcb[i].mutex
        /\ p.exitcode = pcb[i].exitcode /\ p.joinsem = 0 /\ p.exitsem = 0
    BY <1>2, <1>3 DEF PCB
  <1> HIDE DEF p
  <1>5. InPlace(i, p) /\ Moves(t, "ExitRemove")
    BY <1>1, <1>2, <1>4 DEF InPlace, Moves
  <1>6. r2' = [r2 EXCEPT ![t] = r2'[t]] /\ r2'[t] \in ExitCode \cup Slot \cup {-1, 0}
    BY <1>1 DEF TypeOK
  <1>7. TypeOK' /\ Lock' /\ Owners' /\ Mutexes' /\ PCBThreads'
    BY <1>1, <1>4, <1>5, <1>6, TokenStep
  <1>8. Handshake'
    <2>1. /\ \A j \in bm : pcb'[j].thread = pcb[j].thread /\ pcb'[j].exitcode = pcb[j].exitcode
          /\ \A j \in bm : j # i => pcb'[j] = pcb[j]
          /\ pcb'[i] = p
      BY <1>1, <1>2, <1>4 DEF TypeOK
    <2>2. \A j \in bm : Held(j) /\ j # i => Held(j)'
      BY <1>1, <2>1 DEF TypeOK, Held
    <2>3. /\ \A u \in Process : u # t => pc'[u] = pc[u]
          /\ pc'[t] = "ExitRemove" /\ slot' = slot /\ bm' = bm /\ pid' = pid /\ r2' = r2
      BY <1>1 DEF TypeOK
    <2>4. \A u \in Process : pc[u] = "ExitP" => pid[u] \in bm
      BY DEF Owners, Alive
    <2>5. \A u \in Process : pc[u] = "JoinRead" => slot[u] # i
      BY <1>1 DEF Handshake
    <2> QED
      BY <1>1, <1>3, <1>4, <2>1, <2>2, <2>3, <2>4, <2>5 DEF Handshake
  <1> QED
    BY <1>7, <1>8

\* A process whose parent has joined stores its exit code and makes the token.
LEMMA ExitJoinedStep ==
  ASSUME IInv, NEW t \in Process, NEW ec \in ExitCode, pc[t] = "User", t \notin exited,
         pid[t] # 0, ExitJoined(t, ec), UNCHANGED <<bmsem, pid, slot, halted>>
  PROVE  IInv'
  <1> USE DEF IInv
  <1> DEFINE i == pid[t]
             p == [pcb[i] EXCEPT !.exitcode = ec, !.joinsem = pcb[i].joinsem + 1]
  <1>1. /\ pc' = [pc EXCEPT ![t] = "ExitP"] /\ pcb' = [pcb EXCEPT ![i] = p]
        /\ r2' = [r2 EXCEPT ![t] = ec] /\ UNCHANGED <<bm, exited>>
    BY DEF ExitJoined, Goto
  <1>2. /\ t \in Alive /\ i \in bm /\ i \in Slot /\ pcb[i] \in PCB
        /\ pcb[i].thread = t
    BY DEF TypeOK, Owners, Alive, PCBThreads
  <1>3. ~Held(i) /\ pcb[i].joinsem = 0 /\ pcb[i].exitsem = 0
    <2>1. ~Held(i)
      BY <1>2 DEF Held
    <2>2. pcb[i].joinsem \in Nat /\ pcb[i].exitsem \in Nat
      BY <1>2 DEF PCB
    <2>3. ~(pcb[i].joinsem + pcb[i].exitsem > 0)
      BY <1>2, <2>1 DEF Handshake
    <2> QED
      BY <2>1, <2>2, <2>3
  <1>4. /\ p \in PCB /\ p.thread = t /\ p.mutex = pcb[i].mutex
        /\ p.exitcode = ec /\ p.joinsem = 1 /\ p.exitsem = 0
    <2> DEFINE q == pcb[i]
    <2>1. q \in PCB /\ q.thread = t /\ q.joinsem = 0 /\ q.exitsem = 0
      BY <1>2, <1>3
    <2>2. p = [q EXCEPT !.exitcode = ec, !.joinsem = 1]
      BY <2>1
    <2> HIDE DEF q, p
    <2>3. /\ p \in PCB /\ p.thread = t /\ p.mutex = q.mutex
          /\ p.exitcode = ec /\ p.joinsem = 1 /\ p.exitsem = 0
      BY <2>1, <2>2 DEF PCB
    <2> QED
      BY <2>3 DEF q
  <1> HIDE DEF p
  <1>5. InPlace(i, p) /\ Moves(t, "ExitP")
    BY <1>1, <1>2, <1>4 DEF InPlace, Moves
  <1>6. Owners' /\ PCBThreads'
    BY <1>5, InPlaceStep
  <1>7. TypeOK'
    BY <1>1, <1>2, <1>4 DEF TypeOK, Label
  <1>8. Lock' /\ Mutexes'
    BY <1>1, <1>2, <1>4 DEF TypeOK, Lock, InExec, Mutexes
  <1>9. Handshake'
    <2>1. /\ \A j \in bm : pcb'[j].thread = pcb[j].thread
          /\ \A j \in bm : j # i => pcb'[j] = pcb[j]
          /\ pcb'[i] = p
      BY <1>1, <1>2, <1>4 DEF TypeOK
    <2>2. /\ \A j \in bm : Held(j) => Held(j)'
          /\ Held(i)'
      BY <1>1, <1>2, <1>4, <2>1 DEF TypeOK, Held
    <2>3. /\ \A u \in Process : u # t => pc'[u] = pc[u] /\ r2'[u] = r2[u]
          /\ pc'[t] = "ExitP" /\ r2'[t] = ec
          /\ slot' = slot /\ bm' = bm /\ pid' = pid
      BY <1>1 DEF TypeOK
    <2>4. \A u \in Process : pc[u] = "ExitP" => pid[u] \in bm /\ pid[u] # i
      BY <1>2 DEF Owners, Alive
    <2>5. \A u \in Process : pc[u] = "JoinRead" => slot[u] # i
      BY <1>3 DEF Handshake
    <2> QED
      BY <1>2, <1>4, <2>1, <2>2, <2>3, <2>4, <2>5 DEF Handshake
  <1> QED
    BY <1>6, <1>7, <1>8, <1>9

-----------------------------------------------------------------------------
(* Steps that take a slot or give it back.                                 *)

\* Remove gives back the slot of a process that nobody reads the exit code of.
LEMMA RemoveStep ==
  ASSUME IInv, NEW t \in Process, t \notin exited, pc[t] \in {"User", "ExitRemove"},
         pid[t] # 0, Remove(t), NEW x \in ExitCode \cup Slot \cup {-1, 0},
         r2' = [r2 EXCEPT ![t] = x], UNCHANGED <<bmsem, pid, slot, halted>>
  PROVE  IInv'
  <1> USE DEF IInv
  <1> DEFINE i == pid[t]
  <1>1. t \in Alive /\ i \in bm /\ i \in Slot /\ pcb[i].thread = t
    BY DEF TypeOK, Owners, Alive, PCBThreads
  <1>2. /\ bm' = bm \ {i} /\ pcb' = [pcb EXCEPT ![i] = NULL]
        /\ exited' = exited \cup {t}
        /\ pc' = [u \in Process |->
                   CASE u = t -> "User"
                     [] pc[u] = "JoinP" /\ slot[u] = i -> "Lost"
                     [] pc[u] = "ExitP" /\ pid[u] = i -> "Lost"
                     [] OTHER -> pc[u]]
    BY <1>1 DEF Remove
  <1>3. /\ pc'[t] = "User"
        /\ \A u \in Process : u # t =>
             \/ pc'[u] = pc[u] /\ ~(pc[u] = "JoinP" /\ slot[u] = i)
                               /\ ~(pc[u] = "ExitP" /\ pid[u] = i)
             \/ pc'[u] = "Lost" /\ pc[u] \in {"JoinP", "ExitP"}
                /\ ~(pc[u] = "ExitP" /\ pid[u] # i)
    BY <1>2
  <1>4. /\ \A j \in Slot : j # i => pcb'[j] = pcb[j]
        /\ pcb'[i] = NULL
    BY <1>1, <1>2 DEF TypeOK
  <1>5. Alive' = Alive \ {t}
    BY <1>1, <1>2, <1>3 DEF Alive
  <1>6. TypeOK'
    <2>1. pc' \in [Process -> Label]
      BY <1>2 DEF TypeOK, Label
    <2>2. pcb' \in [Slot -> PCB \cup {NULL}] /\ r2' \in [Process -> ExitCode \cup Slot \cup {-1, 0}]
      BY <1>2 DEF TypeOK
    <2> QED
      BY <1>2, <2>1, <2>2 DEF TypeOK
  <1>7. Lock'
    BY <1>3 DEF Lock, InExec
  <1>8. Owners'
    <2>1. \A u \in Process : Forking(u)' <=> Forking(u)
      BY <1>3 DEF Forking
    <2>2. \A u \in Process : Forking(u) => slot[u] # i
      BY <1>1 DEF Owners
    <2>3. \A u \in Alive' : pid'[u] \in bm'
      BY <1>1, <1>2, <1>5 DEF Owners
    <2>4. \A j \in bm' : \/ \E u \in Alive' : pid'[u] = j
                         \/ \E u \in Process : Forking(u)' /\ slot'[u] = j
      BY <1>2, <1>5, <2>1 DEF Owners
    <2>5. \A u \in exited' : pc'[u] = "User"
      BY <1>2, <1>3 DEF Owners, TypeOK
    <2>6. \A j \in Slot : j \in bm' <=> pcb'[j] # NULL
      BY <1>2, <1>4 DEF Owners
    <2> QED
      BY <1>2, <1>5, <2>1, <2>2, <2>3, <2>4, <2>5, <2>6 DEF Owners
  <1>9. Mutexes' /\ PCBThreads'
    <2>1. Mutexes'
      BY <1>2, <1>3, <1>4 DEF Mutexes, TypeOK
    <2>2. PCBThreads'
      BY <1>1, <1>4, <1>5 DEF PCBThreads, Owners, TypeOK, Alive
    <2> QED
      BY <2>1, <2>2
  <1>10. Handshake'
    <2>1. ~Held(i)
      BY <1>1 DEF Held
    <2>2. \A j \in bm : j # i /\ Held(j) => Held(j)'
      BY <1>1, <1>3, <1>4 DEF Held, TypeOK
    <2>3. \A u \in Process : pc[u] = "JoinRead" => slot[u] # i
      BY <2>1 DEF Handshake
    <2>4. \A u \in Process : u # t => r2'[u] = r2[u]
      BY DEF TypeOK
    <2>5. bm' \subseteq Slot /\ \A j \in bm' : pcb'[j] = pcb[j] /\ j # i /\ j \in bm
      BY <1>2, <1>4 DEF TypeOK
    <2>6. \A u \in Process : pc[u] = "ExitP" => pid[u] \in bm
      BY DEF Owners, Alive
    <2> QED
      BY <1>2, <1>3, <2>2, <2>3, <2>4, <2>5, <2>6 DEF Handshake
  <1> QED
    BY <1>6, <1>7, <1>8, <1>9, <1>10

-----------------------------------------------------------------------------

\* A new PCB is put in a free slot, with its mutex taken.
LEMMA ExecOpenStep ==
  ASSUME IInv, NEW t \in Process, ExecOpen(t)
  PROVE  IInv'
  <1> USE DEF IInv
  <1>1. CASE Slot \ bm = {}
    <2>1. ExecRefuse(t)
      BY <1>1 DEF ExecOpen, ExecRefuse
    <2> QED
      BY <2>1, ExecRefuseStep
  <1>2. CASE Slot \ bm # {}
    <2> DEFINE ID == Min(Slot \ bm)
               p == [NewPCB(t) EXCEPT !.mutex = 0]
    <2>1. ID \in Slot /\ ID \notin bm
      BY <1>2, FreeSlot
    <2>2. /\ pc[t] = "ExecOpen" /\ pc' = [pc EXCEPT ![t] = "ExecFork"]
          /\ bm' = bm \cup {ID} /\ pcb' = [pcb EXCEPT ![ID] = p]
          /\ slot' = [slot EXCEPT ![t] = ID]
          /\ UNCHANGED <<bmsem, r2, pid, halted, exited>>
      BY <1>2 DEF ExecOpen, At, Goto
    <2>3. /\ p \in PCB /\ p.mutex = 0 /\ p.joinsem = 0 /\ p.exitsem = 0
      BY DEF NewPCB, PCB, TypeOK
    <2>4. p # NULL
      BY <2>3, ProcessTableAssumption
    <2> HIDE DEF ID, p
    <2>5. /\ \A u \in Process : u # t => pc'[u] = pc[u] /\ slot'[u] = slot[u]
          /\ pc'[t] = "ExecFork" /\ slot'[t] = ID
          /\ \A j \in Slot : j # ID => pcb'[j] = pcb[j]
          /\ pcb'[ID] = p
      BY <2>1, <2>2 DEF TypeOK
    <2>6. Alive' = Alive
      BY <2>2, <2>5 DEF Alive
    <2>7. TypeOK'
      BY <2>1, <2>2, <2>3 DEF TypeOK, Label
    <2>8. Lock'
      BY <2>2, <2>5 DEF Lock, InExec
    <2>9. Owners'
      <3>1. \A u \in Process : u # t => ~Forking(u) /\ ~Forking(u)'
        BY <2>2, <2>5 DEF Lock, InExec, Forking
      <3>2. ~Forking(t) /\ Forking(t)'
        BY <2>2, <2>5 DEF Forking
      <3>3. \A u \in Alive : pid[u] # ID
        BY <2>1 DEF Owners
      <3>4. \A j \in Slot : j \in bm' <=> pcb'[j] # NULL
        BY <2>1, <2>2, <2>4, <2>5 DEF Owners
      <3>5. \A u \in exited' : pc'[u] = "User"
        BY <2>2, <2>5 DEF Owners, TypeOK
      <3> QED
        BY <2>2, <2>5, <2>6, <3>1, <3>2, <3>3, <3>4, <3>5 DEF Owners
    <2>10. Mutexes'
      BY <2>1, <2>2, <2>3, <2>5 DEF Mutexes, Lock, InExec, TypeOK
    <2>11. PCBThreads'
      BY <2>1, <2>2, <2>5, <2>6 DEF PCBThreads, Owners, TypeOK
    <2>12. Handshake'
      <3>1. \A j \in bm : j \in Slot /\ j # ID /\ pcb'[j] = pcb[j]
        BY <2>1, <2>5 DEF TypeOK
      <3>2. \A j \in bm : Held(j) => Held(j)'
        BY <2>2, <2>5, <3>1 DEF Held
      <3>3. \A u \in Process : pc[u] = "ExitP" => pid[u] \in bm
        BY DEF Owners, Alive
      <3>4. ~(pcb'[ID].joinsem + pcb'[ID].exitsem > 0)
        BY <2>3, <2>5
      <3>5. \A u \in Process : pc'[u] # "ExecFork" =>
              u # t /\ pc'[u] = pc[u] /\ slot'[u] = slot[u]
        BY <2>5
      <3>6. bm' = bm \cup {ID} /\ r2' = r2 /\ pid' = pid
        BY <2>2
      <3>7. \A u \in Process : pc'[u] = "JoinRead" =>
              /\ slot'[u] \in bm' /\ Held(slot[u])'
              /\ pcb'[slot'[u]].joinsem = 0 /\ pcb'[slot'[u]].exitsem = 0
        BY <3>1, <3>2, <3>5, <3>6 DEF Handshake
      <3>8. \A j \in bm' : pcb'[j].joinsem + pcb'[j].exitsem > 0 =>
              pcb'[j].joinsem + pcb'[j].exitsem = 1 /\ Held(j)'
        BY <3>1, <3>2, <3>4, <3>6 DEF Handshake
      <3>9. /\ \A u \in Process : pc'[u] = "ExitP" => pcb'[pid'[u]].exitcode = r2'[u]
            /\ \A u \in Process : pc'[u] \in {"ExitP", "ExitRemove"} => pid'[u] # 0
        BY <3>1, <3>3, <3>5, <3>6 DEF Handshake
      <3>10. /\ \A u \in Process : pc'[u] = "JoinP" => slot'[u] \in bm'
             /\ \A u, v \in Process :
                  pc'[u] = "JoinRead" /\ pc'[v] = "JoinRead" /\ slot'[u] = slot'[v] => u = v
        BY <3>5, <3>6 DEF Handshake
      <3> QED
        BY ONLY <3>7, <3>8, <3>9, <3>10 DEF Handshake
    <2> QED
      BY <2>7, <2>8, <2>9, <2>10, <2>11, <2>12
  <1> QED
    BY <1>1, <1>2

\* The new thread owns the slot that Exec took for it.
LEMMA ExecForkStep ==
  ASSUME IInv, NEW t \in Process, NEW u \in Process, ExecFork(t, u)
  PROVE  IInv'
  <1> USE DEF IInv
  <1> DEFINE i == slot[t]
             p == [pcb[i] EXCEPT !.thread = u]
  <1>1. /\ pc[t] = "ExecFork" /\ pc[u] = "None" /\ u # t
        /\ pc' = [pc EXCEPT ![t] = "ExecUnlock", ![u] = "Start"]
        /\ pcb' = [pcb EXCEPT ![i] = p] /\ pid' = [pid EXCEPT ![u] = i]
        /\ UNCHANGED <<bm, bmsem, slot, r2, halted, exited>>
    BY DEF ExecFork, At
  <1>2. /\ i \in bm /\ i \in Slot /\ pcb[i] \in PCB
        /\ \A v \in Alive : pid[v] # i
    BY <1>1 DEF TypeOK, Owners, Forking
  <1>3. /\ p \in PCB /\ p.thread = u /\ p.mutex = pcb[i].mutex
        /\ p.joinsem = pcb[i].joinsem /\ p.exitsem = pcb[i].exitsem
    BY <1>2 DEF PCB
  <1>4. p # NULL
    BY <1>3, ProcessTableAssumption
  <1> HIDE DEF p
  <1>5. /\ \A v \in Process : v \notin {t, u} => pc'[v] = pc[v]
        /\ pc'[t] = "ExecUnlock" /\ pc'[u] = "Start"
        /\ \A v \in Process : v # u => pid'[v] = pid[v]
        /\ pid'[u] = i
        /\ \A j \in Slot : j # i => pcb'[j] = pcb[j]
        /\ pcb'[i] = p
    BY <1>1, <1>2 DEF TypeOK
  <1>6. u \notin exited /\ t \notin exited
    BY <1>1 DEF Owners
  <1>7. Alive' = Alive \cup {u} /\ u \notin Alive
    <2>1. t \in Alive /\ u \notin Alive /\ exited' = exited
      BY <1>1, <1>6 DEF Alive
    <2>2. \A v \in Process : v \in Alive' <=> v \in Alive \/ v = u
      BY <1>5, <1>6, <2>1 DEF Alive
    <2>3. Alive' \subseteq Process /\ Alive \subseteq Process
      BY DEF Alive
    <2> QED
      BY <2>1, <2>2, <2>3
  <1>8. TypeOK'
    BY <1>1, <1>2, <1>3 DEF TypeOK, Label
  <1>9. Lock'
    <2>1. \A v \in Process : InExec(v)' => InExec(v)
      BY <1>1, <1>5 DEF InExec
    <2>2. bmsem' = bmsem
      BY <1>1
    <2> QED
      BY <2>1, <2>2 DEF Lock
  <1>10. Owners'
    <2>1. \A v \in Process : ~Forking(v)' /\ (v # t => ~Forking(v))
      BY <1>1, <1>5 DEF Lock, InExec, Forking
    <2>2. \A j \in Slot : j \in bm' <=> pcb'[j] # NULL
      BY <1>1, <1>2, <1>4, <1>5 DEF Owners
    <2>3. \A v \in exited' : pc'[v] = "User"
      BY <1>1, <1>5, <1>6 DEF Owners, TypeOK
    <2>4. \A v \in Alive : v \in Process /\ pid'[v] = pid[v]
      BY <1>5, <1>7 DEF Alive
    <2>5. \A v, w \in Alive' : pid'[v] = pid'[w] => v = w
      BY <1>2, <1>5, <1>7, <2>4 DEF Owners
    <2>6. \A v \in Alive' : pid'[v] \in bm'
      BY <1>1, <1>2, <1>5, <1>7, <2>4 DEF Owners
    <2>7. \A j \in bm' : \E v \in Alive' : pid'[v] = j
      BY <1>1, <1>5, <1>7, <2>1, <2>4 DEF Owners
    <2> QED
      BY ONLY <2>1, <2>2, <2>3, <2>5, <2>6, <2>7 DEF Owners
  <1>11. Mutexes'
    <2>1. pcb[i].mutex = 0
      BY <1>1, <1>2 DEF Mutexes
    <2>2. \A v \in Process : v # t => ~(pc'[v] \in {"ExecFork", "ExecUnlock"})
      BY <1>1, <1>5 DEF Lock, InExec
    <2> QED
      BY <1>1, <1>3, <1>5, <2>1, <2>2 DEF Mutexes
  <1>12. PCBThreads'
    <2>1. \A v \in Alive : pid'[v] = pid[v] /\ pid[v] \in Slot /\ pid[v] # i
      BY <1>2, <1>5, <1>7 DEF Alive, TypeOK
    <2> QED
      BY <1>3, <1>5, <1>7, <2>1 DEF PCBThreads
  <1>13. Handshake'
    <2>1. ~Held(i)
      <3>1. \A v \in Process : pc[v] = "ExitP" => v \in Alive
        BY DEF Owners, Alive
      <3> QED
        BY <1>2, <3>1 DEF Held
    <2>2. \A j \in bm : j # i => j \in Slot /\ pcb'[j] = pcb[j]
      BY <1>5 DEF TypeOK
    <2>3. \A j \in bm : j # i /\ Held(j) => Held(j)'
      BY <1>1, <1>5, <2>2 DEF Held
    <2>4. \A v \in Process : pc[v] = "JoinRead" => slot[v] # i
      BY <2>1 DEF Handshake
    <2>5. ~(pcb'[i].joinsem + pcb'[i].exitsem > 0)
      BY <1>2, <1>3, <1>5, <2>1 DEF Handshake
    <2>6. \A v \in Process : pc[v] \in {"ExitP", "ExitRemove"} =>
            /\ v \notin {t, u} /\ pid'[v] = pid[v] /\ pid[v] \in bm /\ pid[v] # i
      BY <1>1, <1>2, <1>5 DEF Owners, Alive
    <2>7. \A v \in Process : pc'[v] \in {"JoinP", "JoinRead", "ExitP", "ExitRemove"} =>
            pc'[v] = pc[v] /\ v # u
      BY <1>1, <1>5
    <2>8. bm' = bm /\ slot' = slot /\ r2' = r2
      BY <1>1
    <2>9. \A v \in Process : pc'[v] = "JoinRead" =>
            /\ slot'[v] \in bm' /\ Held(slot[v])'
            /\ pcb'[slot'[v]].joinsem = 0 /\ pcb'[slot'[v]].exitsem = 0
      <3>1. \A v \in Process : pc[v] = "JoinRead" =>
              /\ slot[v] \in bm /\ Held(slot[v])
              /\ pcb[slot[v]].joinsem = 0 /\ pcb[slot[v]].exitsem = 0
        BY DEF Handshake
      <3>2. TAKE v \in Process
      <3>3. HAVE pc'[v] = "JoinRead"
      <3>4. pc[v] = "JoinRead" /\ slot'[v] = slot[v]
        BY <2>7, <2>8, <3>3
      <3>5. /\ slot[v] \in bm /\ slot[v] # i /\ Held(slot[v])
            /\ pcb[slot[v]].joinsem = 0 /\ pcb[slot[v]].exitsem = 0
        BY <2>4, <3>1, <3>4
      <3>6. pcb'[slot[v]] = pcb[slot[v]] /\ Held(slot[v])'
        BY <2>2, <2>3, <2>8, <3>4, <3>5 DEF Held
      <3> QED
        BY <2>8, <3>4, <3>5, <3>6
    <2>10. \A j \in bm' : pcb'[j].joinsem + pcb'[j].exitsem > 0 =>
             pcb'[j].joinsem + pcb'[j].exitsem = 1 /\ Held(j)'
      BY <2>2, <2>3, <2>5, <2>8 DEF Handshake
    <2>11. /\ \A v \in Process : pc'[v] = "ExitP" => pcb'[pid'[v]].exitcode = r2'[v]
           /\ \A v \in Process : pc'[v] \in {"ExitP", "ExitRemove"} => pid'[v] # 0
      <3>1. \A v \in Process : pc[v] = "ExitP" => pcb[pid[v]].exitcode = r2[v]
        BY DEF Handshake
      <3>2. \A v \in Process : pc[v] \in {"ExitP", "ExitRemove"} => pid[v] # 0
        BY DEF Handshake
      <3>3. \A v \in Process : pc'[v] \in {"ExitP", "ExitRemove"} =>
              pc'[v] = pc[v] /\ pid'[v] = pid[v] /\ pcb'[pid[v]] = pcb[pid[v]]
        BY <2>2, <2>6, <2>7
      <3> QED
        BY <2>8, <3>1, <3>2, <3>3
    <2>12. /\ \A v \in Process : pc'[v] = "JoinP" => slot'[v] \in bm'
           /\ \A v, w \in Process :
                pc'[v] = "JoinRead" /\ pc'[w] = "JoinRead" /\ slot'[v] = slot'[w] => v = w
      BY <2>7, <2>8 DEF Handshake
    <2> QED
      BY ONLY <2>9, <2>10, <2>11, <2>12 DEF Handshake
  <1> QED
    BY <1>8, <1>9, <1>10, <1>11, <1>12, <1>13

-----------------------------------------------------------------------------
(* The invariant and the theorems.                                         *)

\* Exit of a process that has not exited: the table has its slot.
LEMMA ExitStep ==
  ASSUME IInv, NEW t \in Process, NEW ec \in ExitCode, EndsAtExit, Exit(t, ec)
  PROVE  IInv'
  <1>1. /\ pc[t] = "User" /\ t \notin exited /\ pid[t] # 0
        /\ UNCHANGED <<bmsem, pid, slot, halted>>
    BY DEF Exit, Call, At
  <1>2. pid[t] \in bm
    BY <1>1 DEF IInv, Owners, Alive
  <1>3. CASE ExitAlone(t, ec)
    <2>1. ec \in ExitCode \cup Slot \cup {-1, 0}
      OBVIOUS
    <2>2. Remove(t) /\ r2' = [r2 EXCEPT ![t] = ec]
      BY <1>3 DEF ExitAlone
    <2> QED
      BY <1>1, <2>1, <2>2, RemoveStep
  <1>4. CASE ExitJoined(t, ec)
    BY <1>1, <1>4, ExitJoinedStep
  <1> QED
    BY <1>2, <1>3, <1>4 DEF Exit, IsExist

\* The joined process gives its slot back.
LEMMA ExitRemoveStep ==
  ASSUME IInv, NEW t \in Process, ExitRemove(t)
  PROVE  IInv'
  <1>1. /\ pc[t] = "ExitRemove" /\ Remove(t)
        /\ UNCHANGED <<bmsem, pid, slot, r2, halted>>
    BY DEF ExitRemove, At
  <1>2. t \notin exited /\ pid[t] # 0
    BY <1>1 DEF IInv, Owners, Handshake
  <1>3. r2[t] \in ExitCode \cup Slot \cup {-1, 0} /\ r2' = [r2 EXCEPT ![t] = r2[t]]
    BY <1>1 DEF IInv, TypeOK
  <1> QED
    BY <1>1, <1>2, <1>3, RemoveStep

\* Initialize leaves the first process in slot 0.
LEMMA InitIInv ==
  ASSUME Init
  PROVE  IInv
  <1>1. 0 \in Slot
    BY ProcessTableAssumption DEF Slot
  <1>2. pcb[0] \in PCB /\ pcb[0] # NULL /\ pcb[0].joinsem = 0 /\ pcb[0].exitsem = 0
    <2>1. pcb[0] = [parentID |-> 0, exitcode |-> 0, JoinStatus |-> -1, joinsem |-> 0,
                    exitsem |-> 0, mutex |-> 1, thread |-> NULL]
      BY <1>1 DEF Init
    <2>2. pcb[0] \in PCB
      BY <1>1, <2>1 DEF PCB
    <2> QED
      BY <2>1, <2>2, ProcessTableAssumption
  <1>3. \A i \in Slot : i # 0 => pcb[i] = NULL
    BY DEF Init
  <1>4. Alive = {Main} /\ pid[Main] = 0
    BY ProcessTableAssumption DEF Init, Alive
  <1>5. TypeOK
    <2>1. pcb \in [Slot -> PCB \cup {NULL}]
      <3>1. \A i \in Slot : pcb[i] \in PCB \cup {NULL}
        BY <1>2, <1>3
      <3>2. pcb = [i \in Slot |-> pcb[i]]
        BY DEF Init
      <3> QED
        BY <3>1, <3>2
    <2>2. pc \in [Process -> Label]
      BY DEF Init, Label
    <2> QED
      BY <1>1, <2>1, <2>2 DEF Init, TypeOK
  <1>6. \A t \in Process : pc[t] \in {"User", "None"}
    BY DEF Init
  <1>7. Lock /\ Mutexes
    BY <1>6 DEF Lock, Mutexes, InExec
  <1>8. Owners
    BY <1>1, <1>2, <1>3, <1>4, <1>6 DEF Init, Owners, Forking
  <1>9. PCBThreads
    BY <1>4 DEF PCBThreads
  <1>10. Handshake
    <2>1. bm = {0} /\ ~(pcb[0].joinsem + pcb[0].exitsem > 0)
      BY <1>2 DEF Init
    <2> QED
      BY <1>6, <2>1 DEF Handshake
  <1> QED
    BY <1>5, <1>7, <1>8, <1>9, <1>10 DEF IInv

\* Every step keeps the invariant, when the last call of a program is Exit.
LEMMA NextIInv ==
  ASSUME IInv, EndsAtExit, [Next]_vars
  PROVE  IInv'
  <1>1. CASE UNCHANGED vars
    <2>1. /\ TypeOK' /\ Lock' /\ Mutexes'
      BY <1>1 DEF vars, IInv, TypeOK, Lock, InExec, Mutexes
    <2>2. Alive' = Alive
      BY <1>1 DEF vars, Alive
    <2>3. Owners' /\ PCBThreads'
      BY <1>1, <2>2 DEF vars, IInv, Owners, Forking, PCBThreads
    <2>4. Handshake'
      BY <1>1 DEF vars, IInv, Handshake, Held
    <2> QED
      BY <2>1, <2>3, <2>4 DEF IInv
  <1>2. ASSUME NEW t \in Process, Halt(t)
        PROVE  IInv'
    <2>1. UNCHANGED <<bm, pcb, bmsem, pc, pid, slot, r2, exited>> /\ halted' \in BOOLEAN
      BY <1>2 DEF Halt
    <2>2. /\ TypeOK' /\ Lock' /\ Mutexes'
      BY <2>1 DEF IInv, TypeOK, Lock, InExec, Mutexes
    <2>3. Alive' = Alive
      BY <2>1 DEF Alive
    <2>4. Owners' /\ PCBThreads'
      BY <2>1, <2>3 DEF IInv, Owners, Forking, PCBThreads
    <2>5. Handshake'
      BY <2>1 DEF IInv, Handshake, Held
    <2> QED
      BY <2>2, <2>4, <2>5 DEF IInv
  <1>3. ASSUME NEW t \in Process, KernelStep(t)
        PROVE  IInv'
    BY <1>3, ExecPStep, ExecRefuseStep, ExecOpenStep, ExecUnlockStep, ExecVStep,
       ExecForkStep, MyStartProcessStep, JoinPStep, JoinReadStep, ExitPStep,
       ExitRemoveStep DEF KernelStep
  <1>4. ASSUME NEW t \in Process, NEW i \in Slot, Join(t, i) \/ JoinRefused(t, i)
        PROVE  IInv'
    BY <1>4, JoinStep, JoinRefusedStep
  <1>5. ASSUME NEW t \in Process, Exec(t)
        PROVE  IInv'
    BY <1>5, ExecStep
  <1>6. ASSUME NEW t \in Process, NEW ec \in ExitCode, Exit(t, ec)
        PROVE  IInv'
    BY <1>6, ExitStep
  <1> QED
    BY <1>1, <1>2, <1>3, <1>4, <1>5, <1>6 DEF Next, Idle, Halted

\* The invariant says who owns each slot, and so how many owners it has.
LEMMA IInvSlots ==
  ASSUME IInv
  PROVE  SlotsAreOwned
  <1> USE DEF IInv
  <1>1. SUFFICES ASSUME NEW i \in Slot
                 PROVE  /\ i \in bm <=> pcb[i] # NULL
                        /\ Cardinality({t \in Alive : pid[t] = i})
                           + Cardinality({t \in Process : pc[t] = "ExecFork" /\ slot[t] = i})
                           = IF i \in bm THEN 1 ELSE 0
    BY DEF SlotsAreOwned
  <1> DEFINE A == {t \in Alive : pid[t] = i}
             E == {t \in Process : pc[t] = "ExecFork" /\ slot[t] = i}
  <1>2. i \in bm <=> pcb[i] # NULL
    BY DEF Owners
  <1>3. CASE i \notin bm
    <2>1. A = {} /\ E = {}
      BY <1>3 DEF Owners, Forking
    <2> QED
      BY <1>2, <1>3, <2>1, FS_EmptySet
  <1>4. ASSUME i \in bm, NEW u \in Alive, pid[u] = i
        PROVE  Cardinality(A) + Cardinality(E) = 1
    <2>1. A = {u} /\ E = {}
      BY <1>4 DEF Owners, Forking
    <2>2. Cardinality({u}) = 1
      BY FS_Singleton
    <2> QED
      BY <2>1, <2>2, FS_EmptySet
  <1>5. ASSUME i \in bm, NEW u \in Process, Forking(u), slot[u] = i
        PROVE  Cardinality(A) + Cardinality(E) = 1
    <2>1. A = {} /\ E = {u}
      BY <1>5 DEF Owners, Forking, Lock, InExec
    <2>2. Cardinality({u}) = 1
      BY FS_Singleton
    <2> QED
      BY <2>1, <2>2, FS_EmptySet
  <1>6. CASE i \in bm
    <2>1. Cardinality(A) + Cardinality(E) = 1
      BY <1>4, <1>5, <1>6 DEF Owners
    <2> QED
      BY <1>2, <1>6, <2>1
  <1> QED
    BY <1>3, <1>6

\* When the last call of a program is Exit, every slot that is marked has a PCB
\* and exactly one owner, for any number of processes and slots and whatever
\* the order of Execs, Exits and the reuse of slots.
THEOREM SlotsHaveOneOwner ==
  ASSUME EndsAtExit
  PROVE  Spec => []SlotsAreOwned
  <1>1. Init => IInv
    BY InitIInv
  <1>2. IInv /\ [Next]_vars => IInv'
    BY NextIInv
  <1>3. IInv => SlotsAreOwned
    BY IInvSlots
  <1> QED
    BY <1>1, <1>2, <1>3, PTL DEF Spec

\* When the last call of a program is Exit, the PCB that JoinUpdate reads is
\* that of a process held in ExitWait, with the code it passed to Exit.
THEOREM JoinReadsTheChild ==
  ASSUME EndsAtExit
  PROVE  Spec => []JoinHandshake
  <1>1. Init => IInv
    BY InitIInv
  <1>2. IInv /\ [Next]_vars => IInv'
    BY NextIInv
  <1>3. IInv => JoinHandshake
    <2>1. SUFFICES ASSUME IInv, NEW t \in Process, pc[t] = "JoinRead"
                   PROVE  /\ pcb[slot[t]] # NULL
                          /\ pc[pcb[slot[t]].thread] = "ExitP"
                          /\ pcb[slot[t]].exitcode = r2[pcb[slot[t]].thread]
      BY DEF JoinHandshake
    <2>2. slot[t] \in bm /\ Held(slot[t])
      BY <2>1 DEF IInv, Handshake
    <2>3. slot[t] \in Slot /\ pcb[slot[t]] # NULL
      BY <2>1, <2>2 DEF IInv, Owners, TypeOK
    <2> QED
      BY <2>1, <2>2, <2>3 DEF IInv, Handshake, Held
  <1> QED
    BY <1>1, <1>2, <1>3, PTL DEF Spec

=============================================================================
