---------------------------- MODULE SynchConsole ----------------------------
(***************************************************************************)
(* The console: the Console device, with a buffer of one character in each *)
(* direction and an interrupt for each, and SynchConsole, through which    *)
(* threads read and write lines.  Semaphores are those of                  *)
(* CountingSemaphore, which Threads implements; a step runs from one P or  *)
(* V to the next.                                                          *)
(***************************************************************************)
EXTENDS Integers, Sequences

CONSTANTS
  Thread,
  Char,       \* ordinary characters
  MaxBytes,   \* bound: numBytes of a Read or Write
  MaxCalls,   \* bound: number of Reads and Writes
  MaxTyped    \* bound: number of characters typed

\* '\012', '\001' and the byte that a char cannot tell from EOF.
Newline == "newline"
CtrlA == "ctrl-A"
EOF == "EOF"

ASSUME ConsoleAssumption ==
  /\ Char \cap {Newline, CtrlA, EOF} = {}
  /\ MaxBytes \in Nat /\ MaxCalls \in Nat /\ MaxTyped \in Nat

VARIABLES
  incoming, putBusy,                  \* fields of Console
  synchReadAvail, synchWriteAvail,    \* values of the four semaphores
  RLineBlock, WLineBlock,
  pc, call, numBytes, loop,           \* of the call a thread is in
  calls,                              \* number of calls so far
  keyboard,                           \* history: what has been typed
  taken,                              \* history: <<call, character>> read
  display                             \* history: call of each character shown

semaphores == <<synchReadAvail, synchWriteAvail, RLineBlock, WLineBlock>>
history == <<keyboard, taken, display>>
vars == <<incoming, putBusy, semaphores, pc, call, numBytes, loop, calls,
          history>>

-----------------------------------------------------------------------------

\* "WriteP", "ReadP": in the P of the line's lock.  "Put", "Get": about to
\* call PutChar, GetChar.  "PutP", "GetP": in the P for one character.
Label == {"Idle", "WriteP", "Put", "PutP", "ReadP", "GetP", "Get"}

\* The constructor of Console: nothing read, nothing being written.
ConsoleInit == incoming = EOF /\ putBusy = FALSE

Init ==
  /\ ConsoleInit
  /\ synchReadAvail = 0 /\ synchWriteAvail = 0
  /\ RLineBlock = 1 /\ WLineBlock = 1
  /\ pc = [t \in Thread |-> "Idle"]
  /\ call = [t \in Thread |-> 0]
  /\ numBytes = [t \in Thread |-> 0]
  /\ loop = [t \in Thread |-> 0]
  /\ calls = 0
  /\ keyboard = <<>> /\ taken = <<>> /\ display = <<>>

Goto(t, l) == pc' = [pc EXCEPT ![t] = l]

\* Thread t calls Read or Write for n bytes and gets as far as the lock's P.
Begin(t, n, l) ==
  /\ pc[t] = "Idle" /\ calls < MaxCalls
  /\ calls' = calls + 1
  /\ call' = [call EXCEPT ![t] = calls + 1]
  /\ numBytes' = [numBytes EXCEPT ![t] = n]
  /\ loop' = [loop EXCEPT ![t] = 0]
  /\ Goto(t, l)
  /\ UNCHANGED <<incoming, putBusy, semaphores, history>>

\* The call is over; its local variables are gone.
Return(t) ==
  /\ Goto(t, "Idle")
  /\ call' = [call EXCEPT ![t] = 0]
  /\ numBytes' = [numBytes EXCEPT ![t] = 0]
  /\ loop' = [loop EXCEPT ![t] = 0]

-----------------------------------------------------------------------------
(* SynchConsole::Write                                                     *)

Write(t, n) == Begin(t, n, "WriteP")

WriteP(t) ==
  /\ pc[t] = "WriteP" /\ WLineBlock > 0
  /\ WLineBlock' = WLineBlock - 1
  /\ Goto(t, "Put")
  /\ UNCHANGED <<incoming, putBusy, synchReadAvail, synchWriteAvail,
                 RLineBlock, call, numBytes, loop, calls, history>>

\* The for test: Console::PutChar, or the V of the lock and return.
Put(t) ==
  /\ pc[t] = "Put"
  /\ IF loop[t] < numBytes[t]
     THEN /\ putBusy' = TRUE
          /\ display' = Append(display, call[t])
          /\ Goto(t, "PutP")
          /\ UNCHANGED <<WLineBlock, call, numBytes, loop>>
     ELSE /\ WLineBlock' = WLineBlock + 1
          /\ Return(t)
          /\ UNCHANGED <<putBusy, display>>
  /\ UNCHANGED <<incoming, synchReadAvail, synchWriteAvail, RLineBlock, calls,
                 keyboard, taken>>

\* Mutation of PutP: does not wait for the display.
PutPNoWait(t) ==
  /\ pc[t] = "PutP"
  /\ loop' = [loop EXCEPT ![t] = @ + 1]
  /\ Goto(t, "Put")
  /\ UNCHANGED <<incoming, putBusy, semaphores, call, numBytes, calls, history>>

\* Mutation of PutP: the lock is given up after every character.
PutPUnlocks(t) ==
  /\ pc[t] = "PutP" /\ synchWriteAvail > 0
  /\ synchWriteAvail' = synchWriteAvail - 1
  /\ WLineBlock' = WLineBlock + 1
  /\ loop' = [loop EXCEPT ![t] = @ + 1]
  /\ Goto(t, "WriteP")
  /\ UNCHANGED <<incoming, putBusy, synchReadAvail, RLineBlock, call,
                 numBytes, calls, history>>

PutP(t) ==
  /\ pc[t] = "PutP" /\ synchWriteAvail > 0
  /\ synchWriteAvail' = synchWriteAvail - 1
  /\ loop' = [loop EXCEPT ![t] = @ + 1]
  /\ Goto(t, "Put")
  /\ UNCHANGED <<incoming, putBusy, synchReadAvail, RLineBlock, WLineBlock,
                 call, numBytes, calls, history>>

-----------------------------------------------------------------------------
(* SynchConsole::Read                                                      *)

Read(t, n) == Begin(t, n, "ReadP")

\* With no bytes to read the loop is not entered and the lock is free again.
ReadP(t) ==
  /\ pc[t] = "ReadP" /\ RLineBlock > 0
  /\ IF numBytes[t] = 0
     THEN Return(t) /\ UNCHANGED RLineBlock
     ELSE /\ RLineBlock' = RLineBlock - 1
          /\ Goto(t, "GetP")
          /\ UNCHANGED <<call, numBytes, loop>>
  /\ UNCHANGED <<incoming, putBusy, synchReadAvail, synchWriteAvail,
                 WLineBlock, calls, history>>

GetP(t) ==
  /\ pc[t] = "GetP" /\ synchReadAvail > 0
  /\ synchReadAvail' = synchReadAvail - 1
  /\ Goto(t, "Get")
  /\ UNCHANGED <<incoming, putBusy, synchWriteAvail, RLineBlock, WLineBlock,
                 call, numBytes, loop, calls, history>>

\* Console::GetChar returns incoming and leaves nothing in its place.
GetChar == incoming' = EOF

\* What Read does with the character.
Get(t) ==
  /\ pc[t] = "Get"
  /\ GetChar
  /\ taken' = IF incoming = EOF THEN taken
              ELSE Append(taken, <<call[t], incoming>>)
  /\ LET stored == IF incoming \in Char THEN loop[t] + 1 ELSE loop[t] IN
     IF incoming \in {Newline, CtrlA} \/ stored = numBytes[t]
     THEN RLineBlock' = RLineBlock + 1 /\ Return(t)
     ELSE /\ loop' = [loop EXCEPT ![t] = stored]
          /\ Goto(t, "GetP")
          /\ UNCHANGED <<RLineBlock, call, numBytes>>
  /\ UNCHANGED <<putBusy, synchReadAvail, synchWriteAvail, WLineBlock, calls,
                 keyboard, display>>

-----------------------------------------------------------------------------
(* The device's interrupts.                                                *)

\* Mutation of CheckCharAvail: reads into a full buffer.
CheckCharAvailOverwrites(c) ==
  /\ Len(keyboard) < MaxTyped
  /\ incoming' = c
  /\ keyboard' = Append(keyboard, c)
  /\ synchReadAvail' = synchReadAvail + 1
  /\ UNCHANGED <<putBusy, synchWriteAvail, RLineBlock, WLineBlock, pc, call,
                 numBytes, loop, calls, taken, display>>

\* Mutation of CheckCharAvail: the handler is not called.
CheckCharAvailSilent(c) ==
  /\ Len(keyboard) < MaxTyped
  /\ incoming = EOF
  /\ incoming' = c
  /\ keyboard' = Append(keyboard, c)
  /\ UNCHANGED <<putBusy, semaphores, pc, call, numBytes, loop, calls, taken,
                 display>>

\* The poll finds character c on the keyboard and the buffer empty.
CheckCharAvail(c) ==
  /\ Len(keyboard) < MaxTyped
  /\ incoming = EOF
  /\ incoming' = c
  /\ keyboard' = Append(keyboard, c)
  /\ synchReadAvail' = synchReadAvail + 1
  /\ UNCHANGED <<putBusy, synchWriteAvail, RLineBlock, WLineBlock, pc, call,
                 numBytes, loop, calls, taken, display>>

\* Mutation of WriteDone: the handler is not called.
WriteDoneSilent ==
  /\ putBusy
  /\ putBusy' = FALSE
  /\ UNCHANGED <<incoming, semaphores, pc, call, numBytes, loop, calls, history>>

\* The write interrupt PutChar has scheduled.
WriteDone ==
  /\ putBusy
  /\ putBusy' = FALSE
  /\ synchWriteAvail' = synchWriteAvail + 1
  /\ UNCHANGED <<incoming, synchReadAvail, RLineBlock, WLineBlock, pc, call,
                 numBytes, loop, calls, history>>

\* The poll finds a character buffered, or none typed.
PollNothing == UNCHANGED vars

Step(t) == WriteP(t) \/ Put(t) \/ PutP(t) \/ ReadP(t) \/ GetP(t) \/ Get(t)

Next ==
  \/ \E t \in Thread :
       \/ Step(t)
       \/ \E n \in 0..MaxBytes : Write(t, n) \/ Read(t, n)
  \/ \E c \in Char \cup {Newline, CtrlA, EOF} : CheckCharAvail(c)
  \/ WriteDone \/ PollNothing

Spec == Init /\ [][Next]_vars

\* Ready threads run (ReadyRuns of Threads) and scheduled interrupts arrive.
FairSpec ==
  Spec /\ WF_vars(WriteDone) /\ \A t \in Thread : WF_vars(Step(t))

-----------------------------------------------------------------------------

\* Every variable keeps its type; the line locks are 0 or 1, and a Read never
\* stores more than numBytes characters.
TypeOK ==
  /\ incoming \in Char \cup {Newline, CtrlA, EOF}
  /\ putBusy \in BOOLEAN
  /\ synchReadAvail \in Nat /\ synchWriteAvail \in {0, 1}
  /\ RLineBlock \in {0, 1} /\ WLineBlock \in {0, 1}
  /\ pc \in [Thread -> Label]
  /\ call \in [Thread -> 0..MaxCalls]
  /\ numBytes \in [Thread -> 0..MaxBytes]
  /\ loop \in [Thread -> 0..MaxBytes]
  /\ \A t \in Thread : loop[t] <= numBytes[t]
  /\ calls \in 0..MaxCalls

\* PutChar's ASSERT(putBusy == FALSE): a thread that is about to show a
\* character finds the display idle, because it has waited for the interrupt
\* of the one before under the line's lock.  The types of the variables are part
\* of it.
DisplayIsFree ==
  /\ TypeOK
  /\ \A t \in Thread : pc[t] = "Put" => ~putBusy /\ synchWriteAvail = 0

\* No call's entries in a history are separated by another call's.
Whole(q) ==
  \A i, j, k \in 1..Len(q) : i < j /\ j < k /\ q[i] = q[k] => q[j] = q[i]

\* The characters of one Write are together on the display and those of one Read
\* follow each other on the keyboard, whatever other threads write and read: the
\* locks of the two lines hold for a whole call.
LinesAreWhole ==
  /\ Whole(display)
  /\ Whole([i \in 1..Len(taken) |-> taken[i][1]])

\* Interrupts and Reads hand on every character typed, once and in order; the
\* byte that looks like EOF is dropped, and nothing else.
InputInOrder ==
  LET NotEOF(c) == c # EOF
      read == [i \in 1..Len(taken) |-> taken[i][2]]
  IN SelectSeq(Append(read, incoming), NotEOF) = SelectSeq(keyboard, NotEOF)

\* The lock of the display is always released again: every character a Write
\* shows is followed by the interrupt it waits for.
LineIsFreed == WLineBlock = 0 ~> WLineBlock = 1

\* A character that a Read waits for reaches it: a reader in the P for one
\* character goes on once something is in the buffer.
ReaderIsWoken ==
  \A t \in Thread : pc[t] = "GetP" /\ incoming # EOF ~> pc[t] # "GetP"

\* Nobody waits for ever on either side of the console: not for the display, and
\* not for a character that has been typed.
ConsoleGoesOn == LineIsFreed /\ ReaderIsWoken

=============================================================================
