----------------------------- MODULE MCSysCalls -----------------------------
(***************************************************************************)
(* The programs test/PingPong.c, test/Ping.c and test/Pong.c, with two     *)
(* rounds instead of 1000, from their first call to the Halt that follows  *)
(* the return from main.  Beside them a program makes any two calls that   *)
(* leave the values of their semaphores alone, and then runs on without    *)
(* another one.  An int has 8 bits and three digits.  Three semaphores fit *)
(* in the table.  File 2 can be written, 3 is read only, 4 is not open.    *)
(*                                                                         *)
(* Or, as part says, programs that use files: any sequence of calls of     *)
(* StubFileSystem on two names, with places for four open files beside     *)
(* stdin and stdout, which are alike, and nine descriptors.                *)
(***************************************************************************)
EXTENDS SysCalls

CONSTANTS PingPong, Ping, Pong, Other

VARIABLES part, descriptor, content, openFileList, status

Files == INSTANCE StubFileSystem WITH
  NumFiles <- 6, MaxDescriptor <- 9, Name <- {"a", "b"},
  Existing <- {NULL, <<"1", "\n", "1">>},
  Request <- {<<"a", 0>>, <<"b", 1>>, <<"b", 2>>},
  Text <- {<<"1", "\n">>}, FloatText <- {<<"1", ".", "0">>}, Count <- {3}, MaxLength <- 3

fileVars == <<descriptor, content, openFileList, status>>

MCProcess == {PingPong, Ping, Pong, Other}
MCInitial == {PingPong}

A == 65 - 48
B == 66 - 48

Call(op) == {[op |-> op]}
Sem(op, name) == {[op |-> op, name |-> name]}
New(name, semval) == {[op |-> "CreateSemaphore", name |-> name, semval |-> semval]}
Text(text) == {[op |-> "PrintString", text |-> text]}
Child(op, process) == {[op |-> op, process |-> process]}

\* Other makes a semaphore or reads first.  It knows the name of one of their
\* semaphores and tries to create it again, with a value that would spoil their turns.
Preparation ==
  New("Other", 1) \cup New("Other", -1)
    \cup Call("ReadInt") \cup [op : {"ReadString"}, len : {1, 2}]

OtherCall ==
  New("First", 2) \cup New("Last", 0)
    \cup Sem("Up", "Other") \cup Sem("Down", "Other") \cup Sem("Up", "None")
    \cup [op : {"PrintInt"}, number : {-128, 0, 10, 127}]
    \cup [op : {"WriteInt2File"}, number : {-128, 0, 10}, id : {1, 2}]
    \cup [op : {"WriteInt2File"}, number : {10}, id : {3, 4, 5}]
    \cup Call("ReadInt") \cup Call("ReadChar")
    \cup {[op |-> "PrintChar", char |-> A]} \cup Text(<<B, A>>)

Turn(mine, char, other) == <<Sem("Down", mine), Text(<<char>>), Sem("Up", other)>>

\* __start of test/start.s behind main: Exit, which returns, and what lies behind it,
\* the stub of Halt.
Return == <<Call("Exit"), Call("Halt")>>

MCProgram == [p \in MCProcess |->
  CASE p = PingPong -> <<New("First", 1), New("Second", 0), Child("Exec", Other),
                         Child("Exec", Ping), Child("Exec", Pong),
                         Child("Join", Ping), Child("Join", Pong),
                         Text(<<Newline>>), Call("Halt")>>
    [] p = Ping -> Turn("First", A, "Second") \o Turn("First", A, "Second") \o Return
    [] p = Pong -> Turn("Second", B, "First") \o Turn("Second", B, "First") \o Return
    [] p = Other -> <<Preparation, OtherCall>>]

MCMemory == [address \in {0, 10} |-> IF address = 0 THEN <<>> ELSE <<A>>]
MCOpenFileList == [id \in 2..4 |-> CASE id = 2 -> 0 [] id = 3 -> 1 [] id = 4 -> NULL]

MCKeyboard == {<<1, 2, Newline, Minus, 1, 2, 8, Newline, 5, Newline>>,
               <<Minus, Newline, A, Newline, 9, 9, 9, Newline>>,
               <<Plus, 1, 2, 7, 1, 2, 7, 1, CtrlA, Newline>>}

\* Ping and Pong take turns on the screen, A first, whatever Other does: the
\* semaphores First and Second pass the turn to and fro.
TurnsAlternate ==
  LET shown == SelectSeq(screen, LAMBDA s : s[1] \in {Ping, Pong})
  IN  \A i \in DOMAIN shown : shown[i][1] = IF i % 2 = 1 THEN Ping ELSE Pong

MCInit ==
  /\ part \in {"SysCalls", "Files"}
  /\ IF part = "SysCalls"
     THEN Init /\ descriptor = <<>> /\ content = <<>> /\ openFileList = <<>> /\ status = "Ended"
     ELSE /\ semTab = [i \in Slot |-> NULL]
          /\ ip = [p \in Process |-> 0]
          /\ pc = [p \in Process |-> "Idle"]
          /\ arg = [p \in Process |-> <<>>]
          /\ life = [p \in Process |-> "None"] /\ halted = NULL
          /\ keyboard = <<>> /\ screen = <<>>
          /\ done = [call |-> [op |-> "None"], input |-> Nothing, output |-> <<>>, r2 |-> 0]
          /\ Files!Init /\ openFileList[0] = openFileList[1]

MCNext ==
  \/ part = "SysCalls" /\ Next /\ UNCHANGED <<part, fileVars>>
  \/ part = "Files" /\ Files!Next /\ UNCHANGED <<part, vars>>

MCSpec ==
  /\ MCInit /\ [][MCNext]_<<part, vars, fileVars>>
  /\ \A p \in Process : WF_vars(Step(p))

Shown(p) == Len(SelectSeq(screen, LAMBDA s : s[1] = p))

\* The machine halts, even when Other sleeps for ever, and not too early: unless it
\* was Other that gave an address that is none, Ping has got through all its rounds
\* and Pong through all but perhaps the last.  That one may be missing, since the
\* program that gets out of Exit first runs into Halt.
RoundsFinish ==
  <>(part = "SysCalls" =>
       /\ halted # NULL
       /\ halted # Other => Shown(Ping) = 2 /\ Shown(Pong) \in {1, 2})

\* StubFileSystem: a number of the table leads to the file it was given for.
NumbersReachTheirFile == part = "Files" => Files!NumbersReachTheirFile

=============================================================================
