------------------------------ MODULE SysCalls ------------------------------
(***************************************************************************)
(* The system calls of ExceptionHandler for user semaphores (with STable), *)
(* for numbers, characters and strings on the console and in a file, and   *)
(* for the beginning and the end of programs.  Semaphores are those of     *)
(* CountingSemaphore, which Threads implements; a SynchConsole::Read or    *)
(* Write is one step, as SynchConsole shows it to be for other threads.    *)
(*                                                                         *)
(* A character is its code less 48, so a digit is its own value.  An int   *)
(* has Width bits and at most Digits decimal digits, 32 and 10 in the code.*)
(***************************************************************************)
EXTENDS Integers, Sequences, SequencesExt

CONSTANTS
  Process,
  Initial,          \* processes that run from the start
  Program,          \* Program[p][i]: calls from which p makes its i-th one
  MAX_SEMAPHORES,
  Width, Digits,
  Keyboard,         \* what may be typed
  Memory,           \* the strings in a program's memory, by their address
  OpenFileList,     \* by file id from 2: the type of the open file, or NULL
  Room,             \* characters a Write may find room for in its file
  NULL

VARIABLES
  semTab,     \* semaphores by slot; the bits of bm are those of its entries
  ip,         \* ip[p]: number of the call p is in or about to make; 0: not started
  pc,         \* "Idle", "P": asleep in Down, "Write": in PrintString,
              \* "Join": asleep in joinsem, "Exit": asleep in exitsem
  arg,        \* slot of a Down; count and rest of a PrintString; child of a Join
  life,       \* "None", "Alive"; then, with the parent's Join, "Joined", "Exited",
              \* "Released"; then, when the PCB is gone, "Gone"
  halted,     \* the process that has stopped the machine, or NULL
  keyboard,   \* typed and not read
  screen,     \* history: <<process, character>> shown
  done        \* history: the last call that returned, its input, output and r2

vars == <<semTab, ip, pc, arg, life, halted, keyboard, screen, done>>
processVars == <<life, halted>>

Newline == 10 - 48
CtrlA == 1 - 48
Nul == 0 - 48
Plus == 43 - 48
Minus == 45 - 48

Half == 2^(Width - 1)
Wrap(n) == ((n + Half) % 2^Width) - Half

Slot == 0..(MAX_SEMAPHORES - 1)
Calls(p) == Program[p][ip[p]]

\* Process p is about to make its next call.
Running(p) == pc[p] = "Idle" /\ ip[p] \in DOMAIN Program[p]

\* The input of a call that reads nothing.
Nothing == [text |-> <<>>, rest |-> 0, size |-> 0]

\* The call returns with r2, and IncPCReg.
Answer(p, call, input, output, r2) ==
  /\ done' = [call |-> call, input |-> input, output |-> output, r2 |-> r2]
  /\ pc' = [pc EXCEPT ![p] = "Idle"]
  /\ arg' = [arg EXCEPT ![p] = <<>>]

Show(p, text) == screen' = screen \o [i \in 1..Len(text) |-> <<p, text[i]>>]

Init ==
  /\ semTab = [i \in Slot |-> NULL]
  /\ ip = [p \in Process |-> IF p \in Initial THEN 1 ELSE 0]
  /\ pc = [p \in Process |-> "Idle"]
  /\ arg = [p \in Process |-> <<>>]
  /\ life = [p \in Process |-> IF p \in Initial THEN "Alive" ELSE "None"]
  /\ halted = NULL
  /\ keyboard \in Keyboard
  /\ screen = <<>>
  /\ done = [call |-> [op |-> "None"], input |-> Nothing, output |-> <<>>, r2 |-> 0]

Advance(p) == ip' = [ip EXCEPT ![p] = @ + 1]

-----------------------------------------------------------------------------
(* User semaphores.                                                        *)

Named(name) == {i \in Slot : semTab[i] # NULL /\ semTab[i].name = name}
Free == {i \in Slot : semTab[i] = NULL}
First(S) == CHOOSE i \in S : \A j \in S : i <= j

\* The fields init, ups and downs are history.
NewSemaphore(name, init) ==
  [name |-> name, value |-> init, init |-> init, ups |-> 0, downs |-> 0]

\* Mutant: a semaphore that exists is set to the new value.
CreateResets(name, init) ==
  IF Named(name) \cup Free = {} THEN semTab
  ELSE [semTab EXCEPT ![First(IF Named(name) # {} THEN Named(name) ELSE Free)] =
          NewSemaphore(name, init)]

\* STable::Create; the table is as before when it returns -1.
Create(name, init) ==
  IF Named(name) # {} \/ Free = {} THEN semTab
  ELSE [semTab EXCEPT ![First(Free)] = NewSemaphore(name, init)]

CreateSemaphore(p, call) ==
  /\ call.op = "CreateSemaphore"
  /\ semTab' = Create(call.name, call.semval)
  /\ Answer(p, call, Nothing, <<>>, IF Named(call.name) # {} \/ Free = {} THEN -1 ELSE 0)
  /\ Advance(p)
  /\ UNCHANGED <<processVars, keyboard, screen>>

\* Mutant: Signal finds the semaphore and does not raise it.
SignalNothing(name) == semTab

\* STable::Signal with the V of the semaphore.
Signal(name) ==
  IF Named(name) = {} THEN semTab
  ELSE [semTab EXCEPT ![First(Named(name))] =
          [@ EXCEPT !.value = @ + 1, !.ups = @ + 1]]

Up(p, call) ==
  /\ call.op = "Up"
  /\ semTab' = Signal(call.name)
  /\ Answer(p, call, Nothing, <<>>, IF Named(call.name) = {} THEN -1 ELSE 0)
  /\ Advance(p)
  /\ UNCHANGED <<processVars, keyboard, screen>>

\* STable::Wait as far as the P.
Down(p, call) ==
  /\ call.op = "Down"
  /\ IF Named(call.name) = {}
     THEN /\ Answer(p, call, Nothing, <<>>, -1)
          /\ Advance(p)
     ELSE /\ pc' = [pc EXCEPT ![p] = "P"]
          /\ arg' = [arg EXCEPT ![p] = <<First(Named(call.name))>>]
          /\ UNCHANGED <<ip, done>>
  /\ UNCHANGED <<semTab, processVars, keyboard, screen>>

\* Mutant: P does not wait.
MayPassAlways(i) == TRUE

\* Semaphore::P waits while the value is 0, not while it is below 1.
MayPass(i) == semTab[i].value # 0

P(p) ==
  /\ pc[p] = "P" /\ MayPass(arg[p][1])
  /\ semTab' = [semTab EXCEPT ![arg[p][1]] = [@ EXCEPT !.value = @ - 1, !.downs = @ + 1]]
  /\ Answer(p, [op |-> "Down"], Nothing, <<>>, 0)
  /\ Advance(p)
  /\ UNCHANGED <<processVars, keyboard, screen>>

-----------------------------------------------------------------------------
(* Numbers.                                                                *)

\* C's division and remainder, which round towards 0.
Quot(n) == IF n < 0 THEN -((-n) \div 10) ELSE n \div 10
Rem(n) == n - (10 * Quot(n))

\* The loop that fills a buffer from its end; nothing for 0.
RECURSIVE DigitsOf(_)
DigitsOf(n) == IF n = 0 THEN <<>> ELSE Append(DigitsOf(Quot(n)), Rem(n))

\* What PrintInt shows.  The loop leaves a 0 before the digits; the minus sign
\* overwrites the first digit, and the output begins at that 0.
Printed(number) ==
  IF number = 0 THEN <<0>>
  ELSE IF number > 0 THEN DigitsOf(number)
  ELSE <<0, Minus>> \o Tail(DigitsOf(Wrap(-number)))

PrintInt(p, call) ==
  /\ call.op = "PrintInt"
  /\ Show(p, Printed(call.number))
  /\ Answer(p, call, Nothing, Printed(call.number), 12)   \* r2 keeps the call's number
  /\ Advance(p)
  /\ UNCHANGED <<semTab, processVars, keyboard>>

\* SynchConsole::Read of n > 0 bytes: the characters up to the end of the line or
\* n of them, what is left, and the value returned.  It waits for them.
EndOfLine == {Newline, CtrlA}
Ends(n) == {i \in DOMAIN keyboard : keyboard[i] \in EndOfLine /\ i <= n}
CanRead(n) == Len(keyboard) >= n \/ Ends(n) # {}
Read(n) ==
  IF Ends(n) = {} THEN [text |-> SubSeq(keyboard, 1, n), rest |-> n, size |-> n]
  ELSE LET e == First(Ends(n))
       IN  [text |-> SubSeq(keyboard, 1, e - 1), rest |-> e,
            size |-> IF keyboard[e] = CtrlA THEN -1 ELSE e - 1]

\* Mutant: the sign is taken for a digit to drop.
NumberUnsigned(text) == FoldLeft(LAMBDA n, c : Wrap((10 * n) + c), 0, Tail(text))

\* The loop of ReadInt over the characters after the sign.
Number(text) ==
  LET signed == text[1] \in {Minus, Plus}
      body == IF signed THEN Tail(text)
              ELSE IF Len(text) = Digits + 1 THEN SubSeq(text, 1, Digits)
              ELSE text
      n == IF \E i \in DOMAIN body : body[i] \notin 0..9 THEN 0
           ELSE FoldLeft(LAMBDA k, c : Wrap((10 * k) + c), 0, body)
  IN  IF text[1] = Minus THEN Wrap(-n) ELSE n

ReadInt(p, call) ==
  LET r == Read(Digits + 1) IN
  /\ call.op = "ReadInt" /\ CanRead(Digits + 1)
  /\ keyboard' = SubSeq(keyboard, r.rest + 1, Len(keyboard))
  /\ Answer(p, call, r, <<>>, IF r.size > 0 THEN Number(r.text) ELSE 0)
  /\ Advance(p)
  /\ UNCHANGED <<semTab, processVars, screen>>

-----------------------------------------------------------------------------
(* Characters and strings.                                                 *)

\* The buffer of MaxString bytes is larger than a line.  After the end of the
\* stream Read returns -1 and the first character of the buffer is the answer.
ReadChar(p, call) ==
  LET n == Len(keyboard) + 1
      r == Read(n)
  IN  /\ call.op = "ReadChar" /\ CanRead(n)
      /\ keyboard' = SubSeq(keyboard, r.rest + 1, Len(keyboard))
      /\ Answer(p, call, r, <<>>,
                IF r.size = 0 \/ r.size > 1 THEN 0
                ELSE 48 + IF r.text = <<>> THEN Nul ELSE r.text[1])
      /\ Advance(p)
      /\ UNCHANGED <<semTab, processVars, screen>>

ReadString(p, call) ==
  LET r == Read(call.len) IN
  /\ call.op = "ReadString" /\ CanRead(call.len)
  /\ keyboard' = SubSeq(keyboard, r.rest + 1, Len(keyboard))
  /\ Answer(p, call, r, <<>>, r.size)
  /\ Advance(p)
  /\ UNCHANGED <<semTab, processVars, screen>>

PrintChar(p, call) ==
  /\ call.op = "PrintChar"
  /\ Show(p, <<call.char>>)
  /\ Answer(p, call, Nothing, <<call.char>>, 16)   \* r2 keeps the call's number
  /\ Advance(p)
  /\ UNCHANGED <<semTab, processVars, keyboard>>

\* The loop of one Write for each character of the string at an address.
WriteString(p, text) ==
  /\ pc' = [pc EXCEPT ![p] = "Write"]
  /\ arg' = [arg EXCEPT ![p] = <<0>> \o text]
  /\ UNCHANGED <<semTab, processVars, ip, keyboard, screen, done>>

\* User2System copies the string first.
PrintString(p, call) == call.op = "PrintString" /\ WriteString(p, call.text)

Write(p) ==
  /\ pc[p] = "Write"
  /\ IF Len(arg[p]) > 1
     THEN /\ Show(p, <<arg[p][2]>>)
          /\ arg' = [arg EXCEPT ![p] = <<@[1] + 1>> \o Tail(Tail(@))]
          /\ UNCHANGED <<ip, pc, done>>
     ELSE /\ Answer(p, [op |-> "WriteString"], Nothing, <<>>, arg[p][1])
          /\ Advance(p)
          /\ UNCHANGED screen
  /\ UNCHANGED <<semTab, processVars, keyboard>>

-----------------------------------------------------------------------------
(* The beginning and the end of programs: what ProcessTable says of one    *)
(* parent, its children and their exit code 0.                             *)

\* Interrupt::Halt.
Stop(p) ==
  /\ halted' = p
  /\ UNCHANGED <<semTab, ip, pc, arg, life, keyboard, screen, done>>

Halt(p, call) == call.op = "Halt" /\ Stop(p)

\* Exec of a program that can be loaded.
Exec(p, call) ==
  /\ call.op = "Exec"
  /\ ip' = [ip EXCEPT ![p] = @ + 1, ![call.process] = 1]
  /\ life' = [life EXCEPT ![call.process] = "Alive"]
  /\ UNCHANGED <<semTab, pc, arg, halted, keyboard, screen, done>>

\* PTable::JoinUpdate as far as the P of joinsem, for a child of the caller.
Join(p, call) ==
  /\ call.op = "Join"
  /\ IF life[call.process] = "Gone"
     THEN /\ Answer(p, call, Nothing, <<>>, -1)
          /\ Advance(p)
          /\ UNCHANGED life
     ELSE /\ pc' = [pc EXCEPT ![p] = "Join"]
          /\ arg' = [arg EXCEPT ![p] = <<call.process>>]
          /\ life' = [life EXCEPT ![call.process] = "Joined"]
          /\ UNCHANGED <<ip, done>>
  /\ UNCHANGED <<semTab, halted, keyboard, screen>>

\* The child has done JoinRelease; its exit code is 0, and ExitRelease follows.
JoinP(p) ==
  /\ pc[p] = "Join" /\ life[arg[p][1]] = "Exited"
  /\ life' = [life EXCEPT ![arg[p][1]] = "Released"]
  /\ Answer(p, [op |-> "Join"], Nothing, <<>>, 0)
  /\ Advance(p)
  /\ UNCHANGED <<semTab, halted, keyboard, screen>>

\* PTable::ExitUpdate(0) of a child: it waits for the parent that has joined it, and is
\* removed at once if none has.  It returns to the program in any case.
ExitChild(p, call) ==
  \/ /\ life[p] = "Joined"
     /\ life' = [life EXCEPT ![p] = "Exited"]
     /\ pc' = [pc EXCEPT ![p] = "Exit"]
     /\ UNCHANGED <<semTab, ip, arg, halted, keyboard, screen, done>>
  \/ /\ life[p] \in {"Alive", "Gone"}
     /\ life' = [life EXCEPT ![p] = "Gone"]
     /\ Answer(p, call, Nothing, <<>>, IF life[p] = "Gone" THEN -1 ELSE 0)
     /\ Advance(p)
     /\ UNCHANGED <<semTab, halted, keyboard, screen>>

\* The first process halts the machine.
Exit(p, call) ==
  /\ call.op = "Exit"
  /\ IF p \in Initial THEN Stop(p) ELSE ExitChild(p, call)

\* ExitWait returns, and Remove.
ExitP(p) ==
  /\ pc[p] = "Exit" /\ life[p] = "Released"
  /\ life' = [life EXCEPT ![p] = "Gone"]
  /\ Answer(p, [op |-> "Exit"], Nothing, <<>>, 0)
  /\ Advance(p)
  /\ UNCHANGED <<semTab, halted, keyboard, screen>>

-----------------------------------------------------------------------------
(* WriteInt2File.                                                          *)

\* What it gives to the Write of a file: nothing for a negative number.
Written(number) ==
  IF number = 0 THEN <<0>> ELSE IF number > 0 THEN DigitsOf(number) ELSE <<>>

\* On the console, file id 1, the number is taken for the address of a string, and
\* one that is no address ends the machine.
WriteInt2Console(p, call) ==
  /\ call.id = 1
  /\ \/ call.number \in DOMAIN Memory /\ WriteString(p, Memory[call.number])
     \/ call.number \notin DOMAIN Memory /\ Stop(p)

\* There is no such id, no file is open with it, or one that is read only.
WriteRefused(id) == id # 1 /\ (id \in DOMAIN OpenFileList => OpenFileList[id] \in {NULL, 1})

\* The result of a Write of size characters out of len.
WriteResult(len, size) == IF len # size THEN -2 ELSE size

WriteInt2File(p, call) ==
  /\ call.op = "WriteInt2File"
  /\ \/ WriteInt2Console(p, call)
     \/ /\ call.id # 1
        /\ \/ WriteRefused(call.id) /\ Answer(p, call, Nothing, <<>>, -1)
           \/ /\ ~WriteRefused(call.id)
              /\ LET text == Written(call.number)
                 IN  \E room \in Room :
                       LET size == IF room < Len(text) THEN room ELSE Len(text)
                       IN  Answer(p, call, Nothing, SubSeq(text, 1, size),
                                  WriteResult(Len(text), size))
        /\ Advance(p)
        /\ UNCHANGED <<semTab, processVars, keyboard, screen>>

-----------------------------------------------------------------------------

SemaphoreCall(p, call) == CreateSemaphore(p, call) \/ Up(p, call) \/ Down(p, call)
NumberCall(p, call) == PrintInt(p, call) \/ WriteInt2File(p, call) \/ ReadInt(p, call)
TextCall(p, call) ==
  ReadChar(p, call) \/ ReadString(p, call) \/ PrintChar(p, call) \/ PrintString(p, call)

ProcessCall(p, call) == Exec(p, call) \/ Join(p, call) \/ Exit(p, call) \/ Halt(p, call)

Step(p) ==
  /\ halted = NULL
  /\ \/ /\ Running(p)
        /\ \E call \in Calls(p) :
             \/ SemaphoreCall(p, call) \/ NumberCall(p, call)
             \/ TextCall(p, call) \/ ProcessCall(p, call)
     \/ P(p) \/ Write(p) \/ JoinP(p) \/ ExitP(p)

Next == \E p \in Process : Step(p)

\* Threads runs every ready thread, and a semaphore's waiters in their order.
Spec == Init /\ [][Next]_vars /\ \A p \in Process : WF_vars(Step(p))

-----------------------------------------------------------------------------
(* Properties.                                                             *)

\* Type correctness, and the value of every semaphore is what its Ups and Downs
\* make of its initial value; a process sleeps only on a semaphore that exists.
TypeOK ==
  /\ \A i \in Slot : semTab[i] # NULL =>
       semTab[i].value = semTab[i].init + semTab[i].ups - semTab[i].downs
  /\ \A p \in Process :
       /\ ip[p] \in 0..(Len(Program[p]) + 1)
       /\ pc[p] \in {"Idle", "P", "Write", "Join", "Exit"}
       /\ life[p] \in {"None", "Alive", "Joined", "Exited", "Released", "Gone"}
       /\ pc[p] = "P" => semTab[arg[p][1]] # NULL
  /\ halted \in Process \cup {NULL}
  /\ done.r2 \in -Half..(Half - 1)

\* Down is paid for: it has returned at most as often as the initial value and the
\* Ups allow, for every semaphore created with a value that is not negative.
\* The types of the variables are part of it.
DownsArePaid ==
  /\ TypeOK
  /\ \A i \in Slot : (semTab[i] # NULL /\ semTab[i].init >= 0) =>
                       semTab[i].downs <= semTab[i].init + semTab[i].ups

\* The value of a sequence of digits, by the weight of each.
Decimal(text) ==
  LET n == Len(text)
      RECURSIVE Sum(_)
      Sum(i) == IF i = 0 THEN 0 ELSE Sum(i - 1) + (text[i] * 10^(n - i))
  IN  Sum(n)

IsNumeral(text) == text # <<>> /\ \A i \in DOMAIN text : text[i] \in 0..9

IsNumeralOf(text, number) ==
  /\ IsNumeral(text) /\ (Len(text) > 1 => text[1] # 0)
  /\ Decimal(text) = number

\* For a number that is not negative, what PrintInt shows, and what WriteInt2File has
\* put in a file when it answers with a count, is its numeral without leading zeros,
\* and ReadInt would read it back.  The count is its length, and a WriteInt2File that
\* wrote a part of it does not answer with a count.
NumbersRoundTrip ==
  LET call == done.call
      text == done.output
  IN  /\ call.op = "PrintInt" /\ call.number >= 0 =>
           IsNumeralOf(text, call.number) /\ Number(text) = call.number
      /\ call.op = "WriteInt2File" /\ call.number >= 0 /\ done.r2 >= 0 =>
           /\ IsNumeralOf(text, call.number) /\ Number(text) = call.number
           /\ done.r2 = Len(text)

\* ReadInt returns the number typed, with or without a sign, when it is one and
\* an int can hold it, and 0 for a line that is not a number.  (After ctrl-A, the
\* end of the stream, it returns 0 whatever was typed.)
ReadIntReads ==
  (done.call.op = "ReadInt" /\ done.input.size > 0) =>
    LET text == done.input.text
        signed == text[1] \in {Plus, Minus}
        body == IF signed THEN Tail(text) ELSE text
        value == IF text[1] = Minus THEN -Decimal(body) ELSE Decimal(body)
    IN  Len(body) <= Digits =>
          IF IsNumeral(body)
          THEN value \in -Half..(Half - 1) => done.r2 = value
          ELSE done.r2 = 0

\* What the system calls make of numbers: NumbersRoundTrip for the ones that are
\* written and ReadIntReads for the ones that are read, over the same conversions.
NumbersAreRight == NumbersRoundTrip /\ ReadIntReads

=============================================================================
