------------------------- MODULE SynchConsoleProofs -------------------------
(* Proofs of DisplayIsFree and LinesAreWhole of SynchConsole, for any      *)
(* threads, characters and bounds.                                         *)
EXTENDS SynchConsole, TLAPS, SequenceTheorems

-----------------------------------------------------------------------------
(* The inductive invariant.                                                *)

Writing(t) == pc[t] \in {"Put", "PutP"}
Reading(t) == pc[t] \in {"GetP", "Get"}

\* The line locks: a thread past the P of one is alone there and has its unit.
Locks ==
  /\ \A t, u \in Thread : Writing(t) /\ Writing(u) => t = u
  /\ \A t, u \in Thread : Reading(t) /\ Reading(u) => t = u
  /\ \A t \in Thread : Writing(t) => WLineBlock = 0
  /\ \A t \in Thread : Reading(t) => RLineBlock = 0

\* For a thread that waits for the display either the interrupt is to come or
\* its signal has been given; with no such thread there is neither.
Display ==
  /\ \A t \in Thread : pc[t] = "PutP" => synchWriteAvail = IF putBusy THEN 0 ELSE 1
  /\ (\A t \in Thread : pc[t] # "PutP") => ~putBusy /\ synchWriteAvail = 0

\* Inside the loop of a call there are characters left; a Read starts at 0.
Inside ==
  \A t \in Thread :
    /\ pc[t] \in {"PutP", "GetP", "Get"} => loop[t] < numBytes[t]
    /\ pc[t] = "ReadP" => loop[t] = 0

\* Calls under way have names of their own.
Calls ==
  /\ \A t \in Thread : pc[t] # "Idle" => call[t] <= calls
  /\ \A t, u \in Thread :
       pc[t] # "Idle" /\ pc[u] # "Idle" /\ call[t] = call[u] => t = u

Occurs(x, q) == \E i \in 1..Len(q) : q[i] = x

\* A history of calls: a call that waits for its lock is not in it, and one that
\* has the lock and is in it comes last.
Line(q, waiting, active) ==
  /\ q \in Seq(0..MaxCalls)
  /\ Whole(q)
  /\ \A c \in 0..MaxCalls : Occurs(c, q) => c <= calls
  /\ \A t \in Thread : pc[t] = waiting => ~Occurs(call[t], q)
  /\ \A t \in Thread :
       pc[t] \in active /\ Occurs(call[t], q) => q[Len(q)] = call[t]

\* The calls that have taken characters, in order.
Takers == [i \in 1..Len(taken) |-> taken[i][1]]

Lines ==
  /\ taken \in Seq((0..MaxCalls) \X (Char \cup {Newline, CtrlA, EOF}))
  /\ Line(display, "WriteP", {"Put", "PutP"})
  /\ Line(Takers, "ReadP", {"GetP", "Get"})

IInv == TypeOK /\ Locks /\ Display /\ Inside /\ Calls /\ Lines

-----------------------------------------------------------------------------
(* Histories.  After these lemmas Whole and Occurs are not expanded.       *)

\* An entry at the end keeps calls together when its call is new or the last.
LEMMA AppendWhole ==
  ASSUME NEW S, NEW q \in Seq(S), NEW x \in S,
         Whole(q), Occurs(x, q) => q[Len(q)] = x
  PROVE  /\ Append(q, x) \in Seq(S)
         /\ Whole(Append(q, x))
         /\ \A y : Occurs(y, Append(q, x)) <=> y = x \/ Occurs(y, q)
         /\ Append(q, x)[Len(Append(q, x))] = x
  <1> DEFINE r == Append(q, x)
             n == Len(q)
  <1>1. /\ n \in Nat /\ r \in Seq(S) /\ Len(r) = n + 1 /\ r[n + 1] = x
        /\ \A i \in 1..n : r[i] = q[i]
    OBVIOUS
  <1>2. Whole(r)
    <2> SUFFICES ASSUME NEW i \in 1..(n + 1), NEW j \in 1..(n + 1),
                        NEW k \in 1..(n + 1), i < j, j < k, r[i] = r[k]
                 PROVE  r[j] = r[i]
      BY <1>1 DEF Whole
    <2>1. i \in 1..n /\ j \in 1..n /\ r[i] = q[i] /\ r[j] = q[j]
      BY <1>1
    <2>2. CASE k \in 1..n
      BY <1>1, <2>1, <2>2 DEF Whole
    <2>3. CASE k = n + 1
      <3>1. q[i] = x /\ q[n] = x
        BY <1>1, <2>1, <2>3 DEF Occurs
      <3>2. CASE j = n
        BY <2>1, <3>1, <3>2
      <3>3. CASE j < n
        <4>1. n \in 1..n
          BY <1>1, <2>1
        <4> QED
          BY <2>1, <3>1, <3>3, <4>1 DEF Whole
      <3> QED
        BY <1>1, <2>1, <3>2, <3>3
    <2> QED
      BY <1>1, <2>2, <2>3
  <1>3. ASSUME NEW y
        PROVE  Occurs(y, r) <=> y = x \/ Occurs(y, q)
    <2>1. 1..(n + 1) = (1..n) \cup {n + 1}
      BY <1>1
    <2> QED
      BY <1>1, <2>1 DEF Occurs
  <1> QED
    BY <1>1, <1>2, <1>3

\* The first character taken or shown is the first of its call.
LEMMA EmptyWhole == Whole(<<>>) /\ \A x : ~Occurs(x, <<>>)
  BY DEF Whole, Occurs

\* An entry added to taken adds its call to Takers.
LEMMA AppendTakers ==
  ASSUME NEW A, NEW B, taken \in Seq(A \X B), NEW c \in A, NEW b \in B,
         taken' = Append(taken, <<c, b>>)
  PROVE  /\ taken' \in Seq(A \X B)
         /\ Takers \in Seq(A)
         /\ Takers' = Append(Takers, c)
  <1>1. /\ Len(taken) \in Nat /\ Len(taken') = Len(taken) + 1
        /\ \A i \in 1..Len(taken) : taken'[i] = taken[i] /\ taken[i] \in A \X B
        /\ taken'[Len(taken) + 1] = <<c, b>> /\ taken' \in Seq(A \X B)
    OBVIOUS
  <1>2. Takers \in Seq(A) /\ Len(Takers) = Len(taken)
    BY <1>1 DEF Takers
  <1>3. Takers' \in Seq(A) /\ Len(Takers') = Len(taken) + 1
    BY <1>1 DEF Takers
  <1>4. /\ Append(Takers, c) \in Seq(A)
        /\ Len(Append(Takers, c)) = Len(taken) + 1
        /\ \A i \in 1..Len(taken) : Append(Takers, c)[i] = Takers[i]
        /\ Append(Takers, c)[Len(taken) + 1] = c
    BY <1>2
  <1>5. ASSUME NEW i \in 1..(Len(taken) + 1)
        PROVE  Takers'[i] = Append(Takers, c)[i]
    <2>1. CASE i \in 1..Len(taken)
      BY <1>1, <1>4, <2>1 DEF Takers
    <2>2. CASE i = Len(taken) + 1
      BY <1>1, <1>4, <2>2 DEF Takers
    <2>3. i \in 1..Len(taken) \/ i = Len(taken) + 1
      BY <1>1
    <2> QED
      BY <2>1, <2>2, <2>3
  <1>6. Takers' = Append(Takers, c)
    BY <1>3, <1>4, <1>5, SeqEqual
  <1> QED
    BY <1>1, <1>2, <1>6

-----------------------------------------------------------------------------
(* Steps that leave the histories alone.                                   *)

\* A step that leaves the histories alone keeps them in order when no thread
\* gets past a lock it was not waiting for, and a call that starts is new.
LEMMA SameLines ==
  ASSUME IInv, TypeOK', UNCHANGED <<taken, display>>, calls <= calls',
         \A t \in Thread :
           \/ pc'[t] \in {"Idle", pc[t]} /\ (pc'[t] # "Idle" => call'[t] = call[t])
           \/ pc[t] = "WriteP" /\ pc'[t] = "Put" /\ call'[t] = call[t]
           \/ Writing(t) /\ Writing(t)' /\ call'[t] = call[t]
           \/ pc[t] = "ReadP" /\ pc'[t] = "GetP" /\ call'[t] = call[t]
           \/ Reading(t) /\ Reading(t)' /\ call'[t] = call[t]
           \/ call'[t] > calls
  PROVE  Lines'
  <1>1. Takers' = Takers
    BY DEF Takers
  <1>2. /\ taken' = taken /\ display' = display
        /\ calls \in Nat /\ calls' \in Nat
        /\ \A t \in Thread : call[t] \in 0..MaxCalls /\ call'[t] \in 0..MaxCalls
    BY ConsoleAssumption DEF IInv, TypeOK
  <1>3. ASSUME NEW q, Line(q, "WriteP", {"Put", "PutP"})
        PROVE  \A t \in Thread :
                 /\ pc'[t] = "WriteP" => ~Occurs(call'[t], q)
                 /\ pc'[t] \in {"Put", "PutP"} /\ Occurs(call'[t], q) =>
                      q[Len(q)] = call'[t]
    BY <1>2, <1>3 DEF Line, Writing, Reading
  <1>4. ASSUME NEW q, Line(q, "ReadP", {"GetP", "Get"})
        PROVE  \A t \in Thread :
                 /\ pc'[t] = "ReadP" => ~Occurs(call'[t], q)
                 /\ pc'[t] \in {"GetP", "Get"} /\ Occurs(call'[t], q) =>
                      q[Len(q)] = call'[t]
    BY <1>2, <1>4 DEF Line, Writing, Reading
  <1>5. Line(display, "WriteP", {"Put", "PutP"})'
    BY <1>2, <1>3 DEF IInv, Lines, Line
  <1>6. Line(Takers, "ReadP", {"GetP", "Get"})'
    BY <1>1, <1>2, <1>4 DEF IInv, Lines, Line
  <1> QED
    BY <1>2, <1>5, <1>6 DEF IInv, Lines

-----------------------------------------------------------------------------
(* One lemma for each action; Put has two.                                 *)

\* A call of Read or Write starts.
LEMMA BeginStep ==
  ASSUME IInv, NEW t \in Thread, NEW n \in 0..MaxBytes, NEW l \in {"WriteP", "ReadP"},
         Begin(t, n, l)
  PROVE  IInv'
  <1> USE ConsoleAssumption DEF IInv
  <1>1. TypeOK'
    BY DEF Begin, Goto, semaphores, history, TypeOK, Label, Locks, Writing, Reading, Inside, Display
  <1>2. Locks'
    BY <1>1 DEF Begin, Goto, semaphores, history, TypeOK, Label, Locks, Writing, Reading
  <1>3. Display'
    BY <1>1 DEF Begin, Goto, semaphores, history, TypeOK, Label, Locks, Writing, Display
  <1>4. Inside'
    BY <1>1 DEF Begin, Goto, semaphores, history, TypeOK, Label, Inside
  <1>5. Calls'
    BY <1>1 DEF Begin, Goto, semaphores, history, TypeOK, Label, Calls
  <1>6. Lines'
    BY <1>1, SameLines DEF Begin, Goto, semaphores, history, TypeOK, Label, Writing, Reading, Locks
  <1> QED
    BY <1>1, <1>2, <1>3, <1>4, <1>5, <1>6

\* A writer gets the lock of its line.
LEMMA WritePStep ==
  ASSUME IInv, NEW t \in Thread, WriteP(t)
  PROVE  IInv'
  <1> USE ConsoleAssumption DEF IInv
  <1>1. TypeOK'
    BY DEF WriteP, Goto, history, TypeOK, Label, Locks, Writing, Reading, Inside, Display
  <1>2. Locks'
    BY <1>1 DEF WriteP, Goto, history, TypeOK, Label, Locks, Writing, Reading
  <1>3. Display'
    BY <1>1 DEF WriteP, Goto, history, TypeOK, Label, Locks, Writing, Display
  <1>4. Inside'
    BY <1>1 DEF WriteP, Goto, history, TypeOK, Label, Inside
  <1>5. Calls'
    BY <1>1 DEF WriteP, Goto, history, TypeOK, Label, Calls
  <1>6. Lines'
    BY <1>1, SameLines DEF WriteP, Goto, history, TypeOK, Label, Writing, Reading, Locks
  <1> QED
    BY <1>1, <1>2, <1>3, <1>4, <1>5, <1>6

\* A writer gets the signal of the display.
LEMMA PutPStep ==
  ASSUME IInv, NEW t \in Thread, PutP(t)
  PROVE  IInv'
  <1> USE ConsoleAssumption DEF IInv
  <1>1. TypeOK'
    BY DEF PutP, Goto, history, TypeOK, Label, Locks, Writing, Reading, Inside, Display
  <1>2. Locks'
    BY <1>1 DEF PutP, Goto, history, TypeOK, Label, Locks, Writing, Reading
  <1>3. Display'
    BY <1>1 DEF PutP, Goto, history, TypeOK, Label, Locks, Writing, Display
  <1>4. Inside'
    BY <1>1 DEF PutP, Goto, history, TypeOK, Label, Inside
  <1>5. Calls'
    BY <1>1 DEF PutP, Goto, history, TypeOK, Label, Calls
  <1>6. Lines'
    BY <1>1, SameLines DEF PutP, Goto, history, TypeOK, Label, Writing, Reading, Locks
  <1> QED
    BY <1>1, <1>2, <1>3, <1>4, <1>5, <1>6

\* A writer shows a character.
LEMMA PutCharStep ==
  ASSUME IInv, NEW t \in Thread, Put(t), loop[t] < numBytes[t]
  PROVE  IInv'
  <1> USE ConsoleAssumption DEF IInv
  <1>0. /\ pc[t] = "Put" /\ pc' = [pc EXCEPT ![t] = "PutP"]
        /\ putBusy' = TRUE /\ display' = Append(display, call[t])
        /\ UNCHANGED <<incoming, semaphores, call, numBytes, loop, calls, taken>>
    BY DEF Put, Goto, semaphores
  <1>1. TypeOK'
    BY <1>0 DEF TypeOK, Label, semaphores
  <1>2. Locks'
    BY <1>0 DEF TypeOK, Locks, Writing, Reading, semaphores
  <1>3. Display'
    <2>1. synchWriteAvail = 0
      BY <1>0 DEF Locks, Writing, Display
    <2> QED
      BY <1>0, <2>1 DEF Display, TypeOK, semaphores
  <1>4. Inside'
    BY <1>0 DEF Inside, TypeOK
  <1>5. Calls'
    BY <1>0 DEF Calls, TypeOK
  <1>6. Lines'
    <2>1. /\ display' \in Seq(0..MaxCalls) /\ Whole(display')
          /\ \A y : Occurs(y, display') <=> y = call[t] \/ Occurs(y, display)
          /\ display'[Len(display')] = call[t]
      <3>1. /\ display \in Seq(0..MaxCalls) /\ call[t] \in 0..MaxCalls
            /\ Whole(display)
            /\ Occurs(call[t], display) => display[Len(display)] = call[t]
        BY <1>0 DEF Lines, Line, TypeOK
      <3> QED
        BY <1>0, <3>1, AppendWhole
    <2>2. \A u \in Thread : u # t => pc'[u] = pc[u] /\ pc[u] \notin {"Put", "PutP"}
      BY <1>0 DEF Locks, Writing, TypeOK
    <2>3. \A u \in Thread : pc[u] = "WriteP" => call[u] # call[t]
      BY <1>0 DEF Calls
    <2>4. Line(display, "WriteP", {"Put", "PutP"})'
      BY <1>0, <2>1, <2>2, <2>3 DEF Lines, Line, TypeOK, Calls
    <2>5. Takers' = Takers
      BY <1>0 DEF Takers
    <2>6. Line(Takers, "ReadP", {"GetP", "Get"})'
      BY <1>0, <2>5 DEF Lines, Line, TypeOK
    <2> QED
      BY <1>0, <2>4, <2>6 DEF Lines
  <1> QED
    BY <1>1, <1>2, <1>3, <1>4, <1>5, <1>6

\* A writer is done and gives its lock back.
LEMMA WriteEndsStep ==
  ASSUME IInv, NEW t \in Thread, Put(t), ~(loop[t] < numBytes[t])
  PROVE  IInv'
  <1> USE ConsoleAssumption DEF IInv
  <1>0. /\ pc[t] = "Put" /\ pc' = [pc EXCEPT ![t] = "Idle"]
        /\ WLineBlock' = WLineBlock + 1
        /\ call' = [call EXCEPT ![t] = 0]
        /\ numBytes' = [numBytes EXCEPT ![t] = 0]
        /\ loop' = [loop EXCEPT ![t] = 0]
        /\ UNCHANGED <<incoming, putBusy, synchReadAvail, synchWriteAvail,
                       RLineBlock, calls, taken, display>>
    BY DEF Put, Goto, Return
  <1>1. TypeOK'
    BY <1>0 DEF TypeOK, Label, Locks, Writing
  <1>2. Locks'
    BY <1>0 DEF TypeOK, Locks, Writing, Reading
  <1>3. Display'
    BY <1>0 DEF TypeOK, Locks, Writing, Display
  <1>4. Inside'
    BY <1>0 DEF Inside, TypeOK
  <1>5. Calls'
    BY <1>0 DEF Calls, TypeOK
  <1>6. Lines'
    BY <1>0, <1>1, SameLines DEF TypeOK, Writing, Reading
  <1> QED
    BY <1>1, <1>2, <1>3, <1>4, <1>5, <1>6

\* A reader gets the lock of its line, or has nothing to read.
LEMMA ReadPStep ==
  ASSUME IInv, NEW t \in Thread, ReadP(t)
  PROVE  IInv'
  <1> USE ConsoleAssumption DEF IInv
  <1>1. TypeOK'
    BY DEF ReadP, Goto, Return, history, TypeOK, Label, Locks, Writing, Reading, Inside, Display
  <1>2. Locks'
    BY <1>1 DEF ReadP, Goto, Return, history, TypeOK, Label, Locks, Writing, Reading
  <1>3. Display'
    BY <1>1 DEF ReadP, Goto, Return, history, TypeOK, Label, Locks, Writing, Display
  <1>4. Inside'
    <2>1. CASE numBytes[t] = 0
      BY <2>1 DEF ReadP, Goto, Return, TypeOK, Inside
    <2>2. CASE numBytes[t] # 0
      <3>1. loop[t] = 0
        BY DEF Inside, ReadP
      <3> QED
        BY <2>2, <3>1 DEF ReadP, Goto, TypeOK, Inside
    <2> QED
      BY <2>1, <2>2
  <1>5. Calls'
    BY <1>1 DEF ReadP, Goto, Return, history, TypeOK, Label, Calls
  <1>6. Lines'
    BY <1>1, SameLines DEF ReadP, Goto, Return, history, TypeOK, Label, Writing, Reading, Locks
  <1> QED
    BY <1>1, <1>2, <1>3, <1>4, <1>5, <1>6

\* A reader gets the signal of a character.
LEMMA GetPStep ==
  ASSUME IInv, NEW t \in Thread, GetP(t)
  PROVE  IInv'
  <1> USE ConsoleAssumption DEF IInv
  <1>1. TypeOK'
    BY DEF GetP, Goto, history, TypeOK, Label, Locks, Writing, Reading, Inside, Display
  <1>2. Locks'
    BY <1>1 DEF GetP, Goto, history, TypeOK, Label, Locks, Writing, Reading
  <1>3. Display'
    BY <1>1 DEF GetP, Goto, history, TypeOK, Label, Locks, Writing, Display
  <1>4. Inside'
    BY <1>1 DEF GetP, Goto, history, TypeOK, Label, Inside
  <1>5. Calls'
    BY <1>1 DEF GetP, Goto, history, TypeOK, Label, Calls
  <1>6. Lines'
    BY <1>1, SameLines DEF GetP, Goto, history, TypeOK, Label, Writing, Reading, Locks
  <1> QED
    BY <1>1, <1>2, <1>3, <1>4, <1>5, <1>6

\* A reader takes a character, and is done or goes on.
LEMMA GetStep ==
  ASSUME IInv, NEW t \in Thread, Get(t)
  PROVE  IInv'
  <1> USE ConsoleAssumption DEF IInv
  <1> DEFINE Ends == /\ pc' = [pc EXCEPT ![t] = "Idle"]
                     /\ RLineBlock' = RLineBlock + 1
                     /\ call' = [call EXCEPT ![t] = 0]
                     /\ numBytes' = [numBytes EXCEPT ![t] = 0]
                     /\ loop' = [loop EXCEPT ![t] = 0]
             GoesOn == /\ pc' = [pc EXCEPT ![t] = "GetP"]
                       /\ \E n \in {loop[t], loop[t] + 1} :
                            loop' = [loop EXCEPT ![t] = n] /\ n < numBytes[t]
                       /\ UNCHANGED <<RLineBlock, call, numBytes>>
  <1>0. /\ pc[t] = "Get" /\ incoming' = EOF
        /\ \/ UNCHANGED taken
           \/ taken' = Append(taken, <<call[t], incoming>>)
        /\ UNCHANGED <<putBusy, synchReadAvail, synchWriteAvail, WLineBlock,
                       calls, display>>
    BY DEF Get, GetChar
  <1>1. Ends \/ GoesOn
    <2> DEFINE stored == IF incoming \in Char THEN loop[t] + 1 ELSE loop[t]
    <2>1. \/ RLineBlock' = RLineBlock + 1 /\ Return(t)
          \/ /\ stored # numBytes[t]
             /\ loop' = [loop EXCEPT ![t] = stored]
             /\ Goto(t, "GetP")
             /\ UNCHANGED <<RLineBlock, call, numBytes>>
      BY DEF Get
    <2>2. stored \in {loop[t], loop[t] + 1} /\ stored <= numBytes[t]
      BY <1>0 DEF Inside, TypeOK
    <2>3. stored \in Nat /\ numBytes[t] \in Nat
      BY <2>2 DEF TypeOK
    <2> HIDE DEF stored
    <2> QED
      BY <2>1, <2>2, <2>3 DEF Return, Goto
  <1>2. TypeOK'
    <2>1. CASE Ends
      BY <1>0, <2>1 DEF TypeOK, Label, Locks, Reading
    <2>2. CASE GoesOn
      BY <1>0, <2>2 DEF TypeOK, Label
    <2> QED
      BY <1>1, <2>1, <2>2
  <1>3. Locks'
    <2>1. CASE Ends
      BY <1>0, <2>1 DEF TypeOK, Locks, Writing, Reading
    <2>2. CASE GoesOn
      BY <1>0, <2>2 DEF TypeOK, Locks, Writing, Reading
    <2> QED
      BY <1>1, <2>1, <2>2
  <1>4. Display'
    BY <1>0, <1>1 DEF TypeOK, Display
  <1>5. Inside'
    BY <1>0, <1>1 DEF TypeOK, Inside
  <1>6. Calls'
    BY <1>0, <1>1 DEF TypeOK, Calls
  <1>7. Lines'
    <2>1. CASE UNCHANGED taken
      BY <1>0, <1>1, <1>2, <2>1, SameLines DEF TypeOK, Writing, Reading
    <2>2. CASE taken' = Append(taken, <<call[t], incoming>>)
      <3> DEFINE Got == Char \cup {Newline, CtrlA, EOF}
      <3>1. call[t] \in 0..MaxCalls /\ incoming \in Got /\ taken \in Seq((0..MaxCalls) \X Got)
        BY DEF TypeOK, Lines
      <3>2. /\ taken' \in Seq((0..MaxCalls) \X Got)
            /\ Takers \in Seq(0..MaxCalls)
            /\ Takers' = Append(Takers, call[t])
        <4> HIDE DEF Got
        <4> QED
          BY <2>2, <3>1, AppendTakers
      <3>3. Whole(Takers) /\ (Occurs(call[t], Takers) => Takers[Len(Takers)] = call[t])
        BY <1>0 DEF Lines, Line
      <3>4. /\ Takers' \in Seq(0..MaxCalls) /\ Whole(Takers')
            /\ \A y : Occurs(y, Takers') <=> y = call[t] \/ Occurs(y, Takers)
            /\ Takers'[Len(Takers')] = call[t]
        BY <3>1, <3>2, <3>3, AppendWhole
      <3>5. \A u \in Thread : u # t => /\ pc'[u] = pc[u] /\ call'[u] = call[u]
                                      /\ pc[u] \notin {"GetP", "Get"}
        BY <1>0, <1>1 DEF Locks, Reading, TypeOK
      <3>6. /\ pc'[t] = "Idle" \/ (pc'[t] = "GetP" /\ call'[t] = call[t])
            /\ \A u \in Thread : pc[u] = "ReadP" => call[u] # call[t]
            /\ call[t] <= calls /\ calls' = calls
        BY <1>0, <1>1 DEF Calls, TypeOK
      <3>7. Line(Takers, "ReadP", {"GetP", "Get"})'
        BY <3>4, <3>5, <3>6 DEF Lines, Line
      <3>8. Line(display, "WriteP", {"Put", "PutP"})'
        BY <1>0, <3>5, <3>6 DEF Lines, Line
      <3> QED
        BY <3>2, <3>7, <3>8 DEF Lines
    <2> QED
      BY <1>0, <2>1, <2>2
  <1> QED
    BY <1>2, <1>3, <1>4, <1>5, <1>6, <1>7

\* The read interrupt.
LEMMA CheckCharAvailStep ==
  ASSUME IInv, NEW c \in Char \cup {Newline, CtrlA, EOF}, CheckCharAvail(c)
  PROVE  IInv'
  <1> USE ConsoleAssumption DEF IInv
  <1>1. TypeOK'
    BY DEF CheckCharAvail, TypeOK, Label, Locks, Writing, Reading, Inside, Display
  <1>2. Locks'
    BY <1>1 DEF CheckCharAvail, TypeOK, Label, Locks, Writing, Reading
  <1>3. Display'
    BY <1>1 DEF CheckCharAvail, TypeOK, Label, Locks, Writing, Display
  <1>4. Inside'
    BY <1>1 DEF CheckCharAvail, TypeOK, Label, Inside
  <1>5. Calls'
    BY <1>1 DEF CheckCharAvail, TypeOK, Label, Calls
  <1>6. Lines'
    BY <1>1, SameLines DEF CheckCharAvail, TypeOK, Label, Writing, Reading, Locks
  <1> QED
    BY <1>1, <1>2, <1>3, <1>4, <1>5, <1>6

\* The write interrupt.
LEMMA WriteDoneStep ==
  ASSUME IInv, WriteDone
  PROVE  IInv'
  <1> USE ConsoleAssumption DEF IInv
  <1>0. synchWriteAvail = 0
    <2>1. PICK t \in Thread : pc[t] = "PutP"
      BY DEF Display, WriteDone
    <2> QED
      BY <2>1 DEF Display, WriteDone
  <1>1. TypeOK'
    <2>1. synchWriteAvail' = 1 /\ putBusy' = FALSE
      BY <1>0 DEF WriteDone
    <2> QED
      BY <2>1 DEF WriteDone, history, TypeOK
  <1>2. Locks'
    BY <1>1 DEF WriteDone, history, TypeOK, Label, Locks, Writing, Reading
  <1>3. Display'
    BY <1>1 DEF WriteDone, history, TypeOK, Label, Locks, Writing, Display
  <1>4. Inside'
    BY <1>1 DEF WriteDone, history, TypeOK, Label, Inside
  <1>5. Calls'
    BY <1>1 DEF WriteDone, history, TypeOK, Label, Calls
  <1>6. Lines'
    BY <1>1, SameLines DEF WriteDone, history, TypeOK, Label, Writing, Reading, Locks
  <1> QED
    BY <1>1, <1>2, <1>3, <1>4, <1>5, <1>6

-----------------------------------------------------------------------------
(* The theorems.                                                           *)

\* The constructors leave a console that nobody uses.
LEMMA InitIInv == Init => IInv
  <1> SUFFICES ASSUME Init PROVE IInv
    OBVIOUS
  <1> USE ConsoleAssumption DEF Init, ConsoleInit
  <1>1. TypeOK
    <2>1. 0 \in 0..MaxCalls /\ 0 \in 0..MaxBytes
      OBVIOUS
    <2>2. /\ pc \in [Thread -> Label] /\ call \in [Thread -> 0..MaxCalls]
          /\ numBytes \in [Thread -> 0..MaxBytes] /\ loop \in [Thread -> 0..MaxBytes]
      BY <2>1 DEF Label
    <2>3. \A t \in Thread : loop[t] = 0 /\ numBytes[t] = 0
      OBVIOUS
    <2>4. putBusy \in BOOLEAN /\ incoming \in Char \cup {Newline, CtrlA, EOF}
      OBVIOUS
    <2> QED
      BY <2>1, <2>2, <2>3, <2>4 DEF TypeOK
  <1>2. Locks /\ Display /\ Inside /\ Calls
    BY DEF Locks, Writing, Reading, Display, Inside, Calls
  <1>3. Takers = <<>>
    BY DEF Takers
  <1>4. Lines
    BY <1>3, EmptyWhole DEF Lines, Line
  <1> QED
    BY <1>1, <1>2, <1>4 DEF IInv

\* Every step of a thread or of the device keeps the invariant.
LEMMA NextIInv == IInv /\ [Next]_vars => IInv'
  <1> SUFFICES ASSUME IInv, [Next]_vars PROVE IInv'
    OBVIOUS
  <1>1. ASSUME NEW t \in Thread, Step(t) PROVE IInv'
    BY <1>1, WritePStep, PutCharStep, WriteEndsStep, PutPStep, ReadPStep, GetPStep,
       GetStep DEF Step
  <1>2. ASSUME NEW t \in Thread, NEW n \in 0..MaxBytes, Write(t, n) \/ Read(t, n)
        PROVE  IInv'
    BY <1>2, BeginStep DEF Write, Read
  <1>3. ASSUME NEW c \in Char \cup {Newline, CtrlA, EOF}, CheckCharAvail(c) PROVE IInv'
    BY <1>3, CheckCharAvailStep
  <1>4. CASE WriteDone
    BY <1>4, WriteDoneStep
  <1>5. CASE UNCHANGED vars
    BY <1>5 DEF vars, semaphores, history, IInv, TypeOK, Locks, Writing, Reading,
      Display, Inside, Calls, Lines, Line, Takers
  <1> QED
    BY <1>1, <1>2, <1>3, <1>4, <1>5 DEF Next, PollNothing

\* What Spec keeps at every step.
LEMMA Invariance == Spec => []IInv
  BY InitIInv, NextIInv, PTL DEF Spec

\* PutChar's ASSERT(putBusy == FALSE) holds for any number of threads that write.
THEOREM PutCharFindsDisplayIdle == Spec => []DisplayIsFree
  <1>1. IInv => DisplayIsFree
    BY DEF IInv, DisplayIsFree, Locks, Writing, Display
  <1> QED
    BY <1>1, Invariance, PTL

\* The characters of one Write stay together, and so do those of one Read, for
\* any number of threads and calls of any length.
THEOREM CallsAreNotMixed == Spec => []LinesAreWhole
  <1>1. IInv => LinesAreWhole
    BY DEF IInv, LinesAreWhole, Lines, Line, Takers
  <1> QED
    BY <1>1, Invariance, PTL

=============================================================================
