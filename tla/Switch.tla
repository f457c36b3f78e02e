------------------------------- MODULE Switch -------------------------------
(***************************************************************************)
(* SWITCH and ThreadRoot for the i386, with StackAllocate that prepares    *)
(* the first switch to a thread.  What the C++ code between two switches   *)
(* does with the machine is the compiler's calling convention.             *)
(***************************************************************************)
EXTENDS Integers, Sequences

CONSTANTS
  Thread, main,
  StackSize      \* in words; the frames of the model take 14

VARIABLES
  cpu,            \* the registers: esp is <<thread, index>>, others hold a value
  pc,
  stack,          \* [Thread -> [0..StackSize - 1 -> word]]
  machineState,   \* the registers saved in a Thread, stackTop as esp
  eax_save,
  forked, finished

vars == <<cpu, pc, stack, machineState, eax_save, forked, finished>>

CallerSaved == {"eax", "ecx", "edx"}
CalleeSaved == {"ebx", "ebp", "esi", "edi"}
Register == CallerSaved \cup CalleeSaved \cup {"esp"}

running == cpu.esp[1]

\* The words the program tells apart: every one is a pair.
Code(name) == <<"code", name>>
Procedure(t) == <<"func", t>>
Argument(t) == <<"arg", t>>
Pointer(t) == <<"thread", t>>
Local(t) == <<"local", t>>
Garbage == <<"garbage", "">>   \* memory that nobody has written yet

\* k(%esp) in words, of any stack pointer
Word(esp, k) == stack[esp[1]][esp[2] + k]
Plus(esp, k) == <<esp[1], esp[2] + k>>

\* The stack with words pushed on it, the last one on top.
Pushed(esp, words) ==
  [stack EXCEPT ![esp[1]] = [i \in DOMAIN @ |->
     IF i < esp[2] /\ i >= esp[2] - Len(words) THEN words[esp[2] - i] ELSE @[i]]]

\* StackAllocate, for a thread that is to call func(arg) with arg its own
Allocated(t) ==
  LET stackTop == <<t, StackSize - 5>> IN
  /\ stack' = [stack EXCEPT ![t][StackSize - 5] = Code("ThreadRoot"),
                            ![t][0] = <<"FENCEPOST", "">>]
  /\ machineState' = [machineState EXCEPT ![t] =
       [@ EXCEPT !.esp = stackTop, !.pc = Code("ThreadRoot"),
                 !.ecx = Code("InterruptEnable"), !.esi = Procedure(t),
                 !.edx = Argument(t), !.edi = Code("ThreadFinish")]]

\* Mutant: ebx is saved after it has served to hold the return address.
SavedLate(esp, memory, registers) ==
  [r \in Register \cup {"pc"} |->
     CASE r \in {"pc", "ebx"} -> memory[esp[1]][esp[2]]
       [] r = "esp" -> esp
       [] OTHER -> registers[r]]

\* What SWITCH saves of t1: ebx before it serves to hold eax and the return address.
Saved(esp, memory, registers) ==
  [r \in Register \cup {"pc"} |->
     CASE r = "pc" -> memory[esp[1]][esp[2]]
       [] r = "esp" -> esp
       [] OTHER -> registers[r]]

\* SWITCH, with the stack as its caller left it.  The program counter that is
\* restored goes to 4(%esp), the place of t1; ret takes the word at 0(%esp).
SWITCH(esp, memory, registers) ==
  LET t1 == memory[esp[1]][esp[2] + 1][2]
      t2 == memory[esp[1]][esp[2] + 2][2]
      states == [machineState EXCEPT ![t1] = Saved(esp, memory, registers)]
      new == states[t2]
  IN  /\ machineState' = states
      /\ eax_save' = new.eax
      /\ stack' = [memory EXCEPT ![new.esp[1]][new.esp[2] + 1] = new.pc]
      /\ cpu' = [r \in Register |-> IF r = "esp" THEN Plus(new.esp, 1) ELSE new[r]]
      /\ pc' = memory[new.esp[1]][new.esp[2]]

-----------------------------------------------------------------------------
(* The steps of the running thread.                                        *)

Init ==
  /\ cpu = [r \in Register |-> CASE r = "esp" -> <<main, StackSize - 7>>
                                 [] r \in CalleeSaved -> Local(main)
                                 [] OTHER -> Garbage]
  /\ pc = Code("body")
  /\ stack = [t \in Thread |-> [i \in 0..(StackSize - 1) |-> Garbage]]
  /\ machineState = [t \in Thread |-> [r \in Register \cup {"pc"} |-> Garbage]]
  /\ eax_save = Garbage
  /\ forked = {main}
  /\ finished = {}

Fork(t) ==
  /\ pc = Code("body") /\ t \notin forked /\ running \notin finished
  /\ Allocated(t)
  /\ forked' = forked \cup {t}
  /\ UNCHANGED <<cpu, pc, eax_save, finished>>

\* pushl ebp, movl, pushl InitialArg, and the call of StartupPC
ThreadRoot ==
  /\ pc = Code("ThreadRoot")
  /\ stack' = Pushed(cpu.esp, <<cpu.ebp, cpu.edx, Code("root InitialPC")>>)
  /\ cpu' = [cpu EXCEPT !.ebp = Plus(cpu.esp, -1), !.esp = Plus(cpu.esp, -3)]
  /\ pc' = cpu.ecx
  /\ UNCHANGED <<machineState, eax_save, forked, finished>>

CallInitialPC ==
  /\ pc = Code("root InitialPC")
  /\ stack' = Pushed(cpu.esp, <<Code("root WhenDonePC")>>)
  /\ cpu' = [cpu EXCEPT !.esp = Plus(cpu.esp, -1)]
  /\ pc' = cpu.esi
  /\ UNCHANGED <<machineState, eax_save, forked, finished>>

CallWhenDonePC ==
  /\ pc = Code("root WhenDonePC")
  /\ stack' = Pushed(cpu.esp, <<Code("NOT REACHED")>>)
  /\ cpu' = [cpu EXCEPT !.esp = Plus(cpu.esp, -1)]
  /\ pc' = cpu.edi
  /\ UNCHANGED <<machineState, eax_save, forked, finished>>

\* A compiled function saves what it must keep and uses every register.
Prologue ==
  /\ pc \in {Code("InterruptEnable"), Code("ThreadFinish")} \cup {Procedure(t) : t \in Thread}
  /\ stack' = Pushed(cpu.esp, <<cpu.ebp, cpu.ebx, cpu.esi, cpu.edi>>)
  /\ cpu' = [r \in Register |-> CASE r = "esp" -> Plus(cpu.esp, -4)
                                  [] r \in CalleeSaved -> Local(running)
                                  [] OTHER -> <<"scratch", running>>]
  /\ pc' = Code("body")
  /\ finished' = IF pc = Code("ThreadFinish") THEN finished \cup {running} ELSE finished
  /\ UNCHANGED <<machineState, eax_save, forked>>

\* The ASSERT of CheckOverflow holds: the frames of the model fit the stack.  The
\* main thread has no stack that was allocated.
CheckOverflow(t) == t # main => stack[t][0] = <<"FENCEPOST", "">>

\* Scheduler::Run on a ready thread: the arguments, the return address, SWITCH.
Run(next) ==
  /\ pc = Code("body") /\ next \in forked \ finished /\ next # running
  /\ CheckOverflow(running)
  /\ SWITCH(Plus(cpu.esp, -3),
            Pushed(cpu.esp, <<Pointer(next), Pointer(running), Code("Run")>>), cpu)
  /\ UNCHANGED <<forked, finished>>

\* SWITCH has returned: Run drops the arguments.
Resume ==
  /\ pc = Code("Run")
  /\ cpu' = [cpu EXCEPT !.esp = Plus(cpu.esp, 2)]
  /\ pc' = Code("body")
  /\ UNCHANGED <<stack, machineState, eax_save, forked, finished>>

\* The main thread stays in main, and Finish does not return.
Return ==
  /\ pc = Code("body") /\ running \notin finished \cup {main}
  /\ cpu' = [cpu EXCEPT !.edi = Word(cpu.esp, 0), !.esi = Word(cpu.esp, 1),
                        !.ebx = Word(cpu.esp, 2), !.ebp = Word(cpu.esp, 3),
                        !.esp = Plus(cpu.esp, 5)]
  /\ pc' = Word(cpu.esp, 4)
  /\ UNCHANGED <<stack, machineState, eax_save, forked, finished>>

Next ==
  \/ ThreadRoot \/ CallInitialPC \/ CallWhenDonePC \/ Prologue \/ Resume \/ Return
  \/ \E t \in Thread : Fork(t) \/ Run(t)

Spec == Init /\ [][Next]_vars

-----------------------------------------------------------------------------
(* Properties.                                                             *)

\* A thread goes on where it was, on its own stack and with its own registers,
\* however often SWITCH ran in between; a new one calls its own procedure with its
\* own argument, and Finish after that, though its calls may use all registers.
SwitchKeepsThreads ==
  /\ pc = Code("body") => \A r \in CalleeSaved : cpu[r] = Local(running)
  /\ \A t \in Thread : pc = Procedure(t) => t = running /\ Word(cpu.esp, 1) = Argument(t)
  /\ pc \in {Code(c) : c \in {"InterruptEnable", "ThreadFinish", "ThreadRoot", "Run", "body",
                             "root InitialPC", "root WhenDonePC"}}
            \cup {Procedure(t) : t \in Thread}
  /\ pc = Code("ThreadFinish") => running # main /\ running \notin finished

=============================================================================
