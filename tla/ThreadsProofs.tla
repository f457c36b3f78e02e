---------------------------- MODULE ThreadsProofs ----------------------------
(* Proofs of the safety properties of Threads, for any finite set of       *)
(* threads and any set of semaphores.                                      *)
EXTENDS Threads, TLAPS, FiniteSetTheorems

-----------------------------------------------------------------------------
(* Lists.  After these lemmas Elems and NoDuplicates are not expanded.     *)

\* List::Append adds the item and keeps the list free of duplicates when the
\* item was not on it.
LEMMA AppendList ==
  ASSUME NEW S, NEW q \in Seq(S), NEW x \in S
  PROVE  /\ Append(q, x) \in Seq(S)
         /\ Append(q, x) # <<>>
         /\ Elems(Append(q, x)) = Elems(q) \cup {x}
         /\ NoDuplicates(q) /\ x \notin Elems(q) => NoDuplicates(Append(q, x))
  <1>1. /\ Append(q, x) \in Seq(S) /\ Append(q, x) # <<>>
        /\ Len(Append(q, x)) = Len(q) + 1
        /\ \A i \in 1..Len(q) : Append(q, x)[i] = q[i]
        /\ Append(q, x)[Len(q) + 1] = x
    OBVIOUS
  <1>2. Len(q) \in Nat
    OBVIOUS
  <1>3. 1..(Len(q) + 1) = (1..Len(q)) \cup {Len(q) + 1}
    BY <1>2
  <1>4. Elems(Append(q, x)) = Elems(q) \cup {x}
    BY <1>1, <1>2, <1>3 DEF Elems
  <1>5. NoDuplicates(q) /\ x \notin Elems(q) => NoDuplicates(Append(q, x))
    BY <1>1, <1>2 DEF Elems, NoDuplicates
  <1> QED
    BY <1>1, <1>4, <1>5

\* List::Remove of a list without duplicates takes its first item off it.
LEMMA RemoveFirst ==
  ASSUME NEW S, NEW q \in Seq(S), q # <<>>
  PROVE  /\ Head(q) \in S
         /\ Head(q) \in Elems(q)
         /\ Tail(q) \in Seq(S)
         /\ NoDuplicates(q) => /\ Elems(Tail(q)) = Elems(q) \ {Head(q)}
                               /\ NoDuplicates(Tail(q))
  <1>1. /\ Len(q) \in Nat \ {0} /\ Head(q) = q[1] /\ Tail(q) \in Seq(S)
        /\ Len(Tail(q)) = Len(q) - 1 /\ Head(q) \in S
        /\ \A i \in 1..(Len(q) - 1) : Tail(q)[i] = q[i + 1]
    OBVIOUS
  <1>2. Head(q) \in Elems(q)
    BY <1>1 DEF Elems
  <1>3. ASSUME NoDuplicates(q)
        PROVE  Elems(Tail(q)) = Elems(q) \ {Head(q)}
    <2>1. ASSUME NEW y \in Elems(Tail(q))
          PROVE  y \in Elems(q) \ {Head(q)}
      <3>1. PICK i \in 1..(Len(q) - 1) : y = q[i + 1]
        BY <1>1 DEF Elems
      <3>2. i + 1 \in 1..Len(q) /\ i + 1 # 1
        BY <1>1
      <3> QED
        BY <1>1, <1>3, <3>1, <3>2 DEF Elems, NoDuplicates
    <2>2. ASSUME NEW y \in Elems(q) \ {Head(q)}
          PROVE  y \in Elems(Tail(q))
      <3>1. PICK i \in 1..Len(q) : y = q[i] /\ i # 1
        BY <1>1 DEF Elems
      <3>2. i - 1 \in 1..(Len(q) - 1) /\ y = Tail(q)[i - 1]
        BY <1>1, <3>1
      <3> QED
        BY <1>1, <3>2 DEF Elems
    <2> QED
      BY <2>1, <2>2
  <1>4. NoDuplicates(q) => NoDuplicates(Tail(q))
    BY <1>1 DEF NoDuplicates
  <1> QED
    BY <1>1, <1>2, <1>3, <1>4

\* The empty list is the list without items.
LEMMA EmptyList ==
  ASSUME NEW S, NEW q \in Seq(S)
  PROVE  q = <<>> <=> Elems(q) = {}
  <1>1. ASSUME q # <<>> PROVE Elems(q) # {}
    BY <1>1, RemoveFirst
  <1>2. Elems(<<>>) = {}
    BY DEF Elems
  <1> QED
    BY <1>1, <1>2

\* A list starts without items.
LEMMA NewList == <<>> \in Seq(Thread) /\ Elems(<<>>) = {} /\ NoDuplicates(<<>>)
  BY DEF Elems, NoDuplicates

-----------------------------------------------------------------------------
(* The inductive invariant.                                                *)

\* A thread is inside the P of a semaphore exactly when sem names one, and
\* no deleted thread is inside P.
InsideP ==
  \A t \in Thread :
    /\ pc[t] = "P" <=> sem[t] # NULL
    /\ status[t] = "NULL" => pc[t] # "P"

\* The carcass has finished; the rest of CarcassIsDead follows.
Carcass ==
  threadToBeDestroyed # NULL =>
    status[threadToBeDestroyed] = "BLOCKED" /\ pc[threadToBeDestroyed] = "Finish"

Places == NoThreadLost /\ InsideP /\ Carcass

IInv == TypeOK /\ Places /\ NoLostWakeup

\* The state Initialize leaves satisfies the invariant.
LEMMA InitIInv == Init => IInv
  <1> SUFFICES ASSUME Init PROVE IInv
    OBVIOUS
  <1> USE ThreadsAssumption
  <1>1. TypeOK
    BY NewList DEF Init, TypeOK, Status, Label
  <1>2. Places
    BY NewList DEF Init, Places, NoThreadLost, ReadyPlace, SleepPlace, RunPlace,
                   InsideP, Carcass
  <1>3. NoLostWakeup
    BY DEF Init, NoLostWakeup
  <1> QED
    BY <1>1, <1>2, <1>3 DEF IInv

-----------------------------------------------------------------------------
(* The pieces of the actions.                                              *)

\* st is status, but perhaps for the carcass, which Scheduler::Run deletes.
StatusAfterRun(st) ==
  /\ st \in [Thread -> Status]
  /\ \A t \in Thread :
       \/ st[t] = status[t]
       \/ /\ t = threadToBeDestroyed
          /\ status[t] = "BLOCKED" /\ pc[t] = "Finish"
          /\ st[t] = "NULL"

\* A thread that calls P from its own code finds every status as it is.
LEMMA StatusUnchanged == IInv => StatusAfterRun(status)
  BY DEF IInv, TypeOK, StatusAfterRun

\* The tail of Scheduler::Run changes the status of the carcass only.
LEMMA StatusAfterDelete ==
  ASSUME IInv
  PROVE  /\ StatusAfterRun(AfterDelete)
         /\ threadToBeDestroyed # NULL => AfterDelete[threadToBeDestroyed] = "NULL"
  BY ThreadsAssumption
     DEF IInv, TypeOK, Places, Carcass, StatusAfterRun, AfterDelete, Status

\* Sleep blocks the current thread, hands the CPU to the first ready thread
\* if there is one, and changes no other thread.
LEMMA SleepStep ==
  ASSUME IInv, mode = "SystemMode", NEW st, StatusAfterRun(st), Sleep(st)
  PROVE  /\ currentThread' \in Thread
         /\ readyList' \in Seq(Thread)
         /\ status' \in [Thread -> Status]
         /\ mode' \in {"SystemMode", "IdleMode", "Halted"}
         /\ ReadyPlace' /\ RunPlace'
         /\ status'[currentThread] = "BLOCKED"
         /\ \A t \in Thread \ {currentThread} :
              \/ status'[t] = st[t]
              \/ status[t] = "READY" /\ status'[t] = "RUNNING"
  <1> USE DEF IInv, TypeOK, Places, NoThreadLost, Status
  <1>1. st[currentThread] = "RUNNING"
    BY DEF RunPlace, StatusAfterRun
  <1>2. CASE readyList = <<>>
    BY <1>1, <1>2 DEF Sleep, StatusAfterRun, ReadyPlace, RunPlace
  <1>3. CASE readyList # <<>>
    <2> DEFINE h == Head(readyList)
    <2>1. /\ h \in Thread /\ h \in Elems(readyList)
          /\ Tail(readyList) \in Seq(Thread)
          /\ Elems(Tail(readyList)) = Elems(readyList) \ {h}
          /\ NoDuplicates(Tail(readyList))
      BY <1>3, RemoveFirst DEF ReadyPlace
    <2>2. /\ currentThread' = h /\ readyList' = Tail(readyList) /\ mode' = mode
          /\ status' = [st EXCEPT ![currentThread] = "BLOCKED", ![h] = "RUNNING"]
      BY <1>3 DEF Sleep, RunNext
    <2>3. status[h] = "READY" /\ h # currentThread
      BY <2>1, <1>1 DEF ReadyPlace, StatusAfterRun, RunPlace
    <2> QED
      BY <1>1, <2>1, <2>2, <2>3 DEF StatusAfterRun, ReadyPlace, RunPlace
  <1> QED
    BY <1>2, <1>3

\* The number of threads on their way to a semaphore is a natural number.
LEMMA WokenFinite ==
  ASSUME NEW s \in Semaphore
  PROVE  IsFiniteSet(Woken(s)) /\ Cardinality(Woken(s)) \in Nat
  <1>1. Woken(s) \subseteq Thread
    BY DEF Woken
  <1> QED
    BY <1>1, FiniteThreads, FS_Subset, FS_CardinalityType

\* Both calls of the loop of P keep the invariant.
LEMMA TryPStep ==
  ASSUME IInv, mode = "SystemMode", NEW s \in Semaphore,
         \/ pc[currentThread] = "Running"
         \/ pc[currentThread] = "P" /\ sem[currentThread] = s,
         NEW st, StatusAfterRun(st),
         \/ st = status /\ threadToBeDestroyed' = threadToBeDestroyed
         \/ threadToBeDestroyed' = NULL,
         TryP(s, st)
  PROVE  IInv'
  <1> USE ThreadsAssumption DEF IInv, Places
  <1>1. currentThread \in Thread /\ status[currentThread] = "RUNNING"
    BY DEF TypeOK, NoThreadLost, RunPlace
  <1>2. CASE value[s] = 0
    <2>1. /\ queue' = [queue EXCEPT ![s] = Append(@, currentThread)]
          /\ pc' = [pc EXCEPT ![currentThread] = "P"]
          /\ sem' = [sem EXCEPT ![currentThread] = s]
          /\ value' = value
          /\ Sleep(st)
      BY <1>2 DEF TryP
    <2>2. /\ currentThread' \in Thread
          /\ readyList' \in Seq(Thread)
          /\ status' \in [Thread -> Status]
          /\ mode' \in {"SystemMode", "IdleMode", "Halted"}
          /\ ReadyPlace' /\ RunPlace'
          /\ status'[currentThread] = "BLOCKED"
          /\ \A t \in Thread \ {currentThread} :
               \/ status'[t] = st[t]
               \/ status[t] = "READY" /\ status'[t] = "RUNNING"
      BY <2>1, SleepStep
    <2>3. /\ currentThread \notin Elems(queue[s])
          /\ queue[s] \in Seq(Thread) /\ NoDuplicates(queue[s])
      BY <1>1 DEF TypeOK, NoThreadLost, SleepPlace
    <2>4. /\ Append(queue[s], currentThread) \in Seq(Thread)
          /\ NoDuplicates(Append(queue[s], currentThread))
          /\ Elems(Append(queue[s], currentThread))
                = Elems(queue[s]) \cup {currentThread}
      BY <1>1, <2>3, AppendList
    <2>5. TypeOK'
      BY <2>1, <2>2, <2>4 DEF TypeOK, Label
    <2>6. SleepPlace'
      <3> SUFFICES ASSUME NEW r \in Semaphore
                   PROVE  /\ NoDuplicates(queue'[r])
                          /\ \A t \in Thread : t \in Elems(queue'[r]) <=>
                               /\ status'[t] = "BLOCKED" /\ pc'[t] = "P"
                               /\ sem'[t] = r
        BY DEF SleepPlace
      <3>1. NoDuplicates(queue'[r])
        BY <2>1, <2>4 DEF TypeOK, NoThreadLost, SleepPlace
      <3>2. ASSUME NEW t \in Thread
            PROVE  t \in Elems(queue[r]) <=>
                     status[t] = "BLOCKED" /\ pc[t] = "P" /\ sem[t] = r
        BY DEF NoThreadLost, SleepPlace
      <3>3. ASSUME NEW t \in Thread, t # currentThread
            PROVE  t \in Elems(queue'[r]) <=>
                     status'[t] = "BLOCKED" /\ pc'[t] = "P" /\ sem'[t] = r
        BY <2>1, <2>2, <2>4, <3>2, <3>3 DEF TypeOK, StatusAfterRun
      <3>4. currentThread \in Elems(queue'[r]) <=>
              /\ status'[currentThread] = "BLOCKED" /\ pc'[currentThread] = "P"
              /\ sem'[currentThread] = r
        BY <1>1, <2>1, <2>2, <2>4, <3>2 DEF TypeOK
      <3> QED
        BY <3>1, <3>3, <3>4
    <2>7. Places'
      <3>1. ASSUME NEW t \in Thread, status'[t] = "BLOCKED"
            PROVE  pc'[t] \in {"P", "Finish"}
        BY <1>1, <2>1, <2>2, <3>1 DEF TypeOK, NoThreadLost, StatusAfterRun
      <3>2. InsideP'
        <4> SUFFICES ASSUME NEW t \in Thread
                     PROVE  /\ pc'[t] = "P" <=> sem'[t] # NULL
                            /\ status'[t] = "NULL" => pc'[t] # "P"
          BY DEF InsideP
        <4>1. CASE t = currentThread
          BY <1>1, <2>1, <2>2, <4>1 DEF TypeOK
        <4>2. CASE t # currentThread
          <5>1. pc'[t] = pc[t] /\ sem'[t] = sem[t]
            BY <2>1, <4>2 DEF TypeOK
          <5>2. status'[t] = "NULL" => status[t] = "NULL" \/ pc[t] = "Finish"
            BY <2>2, <4>2 DEF StatusAfterRun
          <5> QED
            BY <5>1, <5>2 DEF InsideP
        <4> QED
          BY <4>1, <4>2
      <3>3. Carcass'
        BY <1>1, <2>1, <2>2 DEF TypeOK, Carcass, StatusAfterRun
      <3> QED
        BY <2>2, <2>6, <3>1, <3>2, <3>3 DEF NoThreadLost
    <2>8. NoLostWakeup'
      <3> SUFFICES ASSUME NEW r \in Semaphore, queue'[r] # <<>>
                   PROVE  value'[r] <= Cardinality(Woken(r)')
        BY DEF NoLostWakeup
      <3>1. CASE r = s
        <4>1. Woken(s)' \subseteq Thread
          BY DEF Woken
        <4>2. Cardinality(Woken(s)') \in Nat
          BY <4>1, FiniteThreads, FS_Subset, FS_CardinalityType
        <4> QED
          BY <1>2, <2>1, <3>1, <4>2
      <3>2. CASE r # s
        <4>1. Woken(r)' = Woken(r)
          BY <1>1, <2>1, <2>2, <3>2 DEF TypeOK, Woken, StatusAfterRun
        <4>2. queue'[r] = queue[r] /\ value'[r] = value[r]
          BY <2>1, <3>2 DEF TypeOK
        <4> QED
          BY <4>1, <4>2 DEF NoLostWakeup
      <3> QED
        BY <3>1, <3>2
    <2> QED
      BY <2>5, <2>7, <2>8
  <1>3. CASE value[s] # 0
    <2>1. /\ value' = [value EXCEPT ![s] = @ - 1]
          /\ pc' = [pc EXCEPT ![currentThread] = "Running"]
          /\ sem' = [sem EXCEPT ![currentThread] = NULL]
          /\ status' = st
          /\ UNCHANGED <<currentThread, readyList, queue, mode>>
      BY <1>3 DEF TryP
    <2>2. value[s] \in 1..MaxValue
      BY <1>3 DEF TypeOK
    <2>3. TypeOK'
      BY <2>1, <2>2 DEF TypeOK, Label, StatusAfterRun
    <2>4. Places'
      BY <1>1, <2>1 DEF TypeOK, NoThreadLost, ReadyPlace, SleepPlace, RunPlace,
                        InsideP, Carcass, StatusAfterRun
    <2>5. NoLostWakeup'
      <3> SUFFICES ASSUME NEW r \in Semaphore, queue'[r] # <<>>
                   PROVE  value'[r] <= Cardinality(Woken(r)')
        BY DEF NoLostWakeup
      <3>1. queue[r] # <<>> /\ value[r] <= Cardinality(Woken(r))
        BY <2>1 DEF NoLostWakeup
      <3>2. Woken(r)' = Woken(r) \ {currentThread}
        BY <1>1, <2>1 DEF TypeOK, Woken, StatusAfterRun
      <3>3. r # s => currentThread \notin Woken(r)
        BY DEF Woken
      <3>4. /\ IsFiniteSet(Woken(r)) /\ Cardinality(Woken(r)) \in Nat
            /\ Cardinality(Woken(r) \ {currentThread})
                 = IF currentThread \in Woken(r) THEN Cardinality(Woken(r)) - 1
                                                 ELSE Cardinality(Woken(r))
        BY WokenFinite, FS_RemoveElement
      <3>5. value[r] \in Nat /\ value'[r] = IF r = s THEN value[r] - 1 ELSE value[r]
        BY <2>1, <2>2 DEF TypeOK
      <3> QED
        BY <3>1, <3>2, <3>3, <3>4, <3>5
    <2> QED
      BY <2>3, <2>4, <2>5
  <1> QED
    BY <1>2, <1>3

\* V, called by a thread or by an interrupt handler, keeps the invariant.
LEMMA SemaphoreVStep ==
  ASSUME IInv, NEW s \in Semaphore, SemaphoreV(s),
         UNCHANGED <<currentThread, pc, sem, threadToBeDestroyed, mode>>
  PROVE  IInv'
  <1> USE ThreadsAssumption DEF IInv, Places
  <1>1. /\ value' = [value EXCEPT ![s] = @ + 1]
        /\ value[s] + 1 \in 0..MaxValue
    BY DEF SemaphoreV, TypeOK
  <1>2. CASE queue[s] = <<>>
    <2>1. UNCHANGED <<queue, status, readyList>>
      BY <1>2 DEF SemaphoreV
    <2>2. TypeOK'
      BY <1>1, <2>1 DEF TypeOK
    <2>3. Places'
      BY <2>1 DEF NoThreadLost, ReadyPlace, SleepPlace, RunPlace, InsideP, Carcass
    <2>4. \A r \in Semaphore : Woken(r)' = Woken(r)
      BY <2>1 DEF Woken
    <2>5. NoLostWakeup'
      BY <1>1, <1>2, <2>1, <2>4 DEF NoLostWakeup, TypeOK
    <2> QED
      BY <2>2, <2>3, <2>5
  <1>3. CASE queue[s] # <<>>
    <2> DEFINE h == Head(queue[s])
    <2>1. /\ queue' = [queue EXCEPT ![s] = Tail(queue[s])]
          /\ status' = [status EXCEPT ![h] = "READY"]
          /\ readyList' = Append(readyList, h)
      BY <1>3 DEF SemaphoreV, ReadyToRun
    <2>2. queue[s] \in Seq(Thread) /\ NoDuplicates(queue[s])
      BY DEF TypeOK, NoThreadLost, SleepPlace
    <2>3. /\ h \in Thread /\ h \in Elems(queue[s])
          /\ Tail(queue[s]) \in Seq(Thread)
          /\ Elems(Tail(queue[s])) = Elems(queue[s]) \ {h}
          /\ NoDuplicates(Tail(queue[s]))
      BY <1>3, <2>2, RemoveFirst
    <2>4. status[h] = "BLOCKED" /\ pc[h] = "P" /\ sem[h] = s
      BY <2>3 DEF NoThreadLost, SleepPlace
    <2>5. readyList \in Seq(Thread) /\ NoDuplicates(readyList) /\ h \notin Elems(readyList)
      BY <2>3, <2>4 DEF TypeOK, NoThreadLost, ReadyPlace
    <2>6. /\ Append(readyList, h) \in Seq(Thread)
          /\ Elems(Append(readyList, h)) = Elems(readyList) \cup {h}
          /\ NoDuplicates(Append(readyList, h))
      BY <2>3, <2>5, AppendList
    <2>7. TypeOK'
      BY <1>1, <2>1, <2>3, <2>6 DEF TypeOK, Status
    <2>8. ReadyPlace' /\ RunPlace'
      BY <2>1, <2>3, <2>4, <2>6 DEF TypeOK, NoThreadLost, ReadyPlace, RunPlace
    <2>9. SleepPlace'
      <3> SUFFICES ASSUME NEW r \in Semaphore
                   PROVE  /\ NoDuplicates(queue'[r])
                          /\ \A t \in Thread : t \in Elems(queue'[r]) <=>
                               /\ status'[t] = "BLOCKED" /\ pc[t] = "P"
                               /\ sem[t] = r
        BY DEF SleepPlace
      <3>1. /\ NoDuplicates(queue[r])
            /\ \A t \in Thread : t \in Elems(queue[r]) <=>
                 status[t] = "BLOCKED" /\ pc[t] = "P" /\ sem[t] = r
        BY DEF NoThreadLost, SleepPlace
      <3>2. CASE r = s
        BY <2>1, <2>3, <3>1, <3>2 DEF TypeOK
      <3>3. CASE r # s
        BY <2>1, <2>3, <2>4, <3>1, <3>3 DEF TypeOK
      <3> QED
        BY <3>2, <3>3
    <2>10. Places'
      BY <2>1, <2>3, <2>4, <2>8, <2>9 DEF TypeOK, NoThreadLost, InsideP, Carcass
    <2>11. NoLostWakeup'
      <3> SUFFICES ASSUME NEW r \in Semaphore, queue'[r] # <<>>
                   PROVE  value'[r] <= Cardinality(Woken(r)')
        BY DEF NoLostWakeup
      <3>1. queue[r] # <<>> /\ value[r] <= Cardinality(Woken(r))
        BY <1>3, <2>1 DEF NoLostWakeup, TypeOK
      <3>2. IsFiniteSet(Woken(r)) /\ Cardinality(Woken(r)) \in Nat
        BY WokenFinite
      <3>3. CASE r = s
        <4>1. Woken(r)' = Woken(r) \cup {h}
          BY <2>1, <2>3, <2>4, <3>3 DEF TypeOK, Woken
        <4>2. h \notin Woken(r)
          BY <2>4 DEF Woken
        <4>3. Cardinality(Woken(r)') = Cardinality(Woken(r)) + 1
          BY <3>2, <4>1, <4>2, FS_AddElement
        <4>4. value[r] \in Nat /\ value'[r] = value[r] + 1
          BY <1>1, <3>3 DEF TypeOK
        <4> QED
          BY <3>1, <3>2, <4>3, <4>4
      <3>4. CASE r # s
        <4>1. Woken(r)' = Woken(r)
          BY <2>1, <2>3, <2>4, <3>4 DEF TypeOK, Woken
        <4>2. value'[r] = value[r]
          BY <1>1, <3>4 DEF TypeOK
        <4> QED
          BY <3>1, <4>1, <4>2
      <3> QED
        BY <3>3, <3>4
    <2> QED
      BY <2>7, <2>10, <2>11
  <1> QED
    BY <1>2, <1>3

-----------------------------------------------------------------------------
(* The other actions.  None changes value or queue, and each leaves Woken  *)
(* as it was, so NoLostWakeup needs Woken only.                            *)

\* Who leaves value, queue and the woken threads alone loses no wakeup.
LEMMA SameWoken ==
  ASSUME NoLostWakeup, UNCHANGED <<value, queue>>,
         \A s \in Semaphore : Woken(s)' = Woken(s)
  PROVE  NoLostWakeup'
  BY DEF NoLostWakeup

\* Fork puts a new thread on the ready list and nowhere else.
LEMMA ForkStep ==
  ASSUME IInv, NEW u \in Thread, Fork(u)
  PROVE  IInv'
  <1> USE ThreadsAssumption DEF IInv, Places
  <1>1. /\ status[u] = "NULL" /\ status' = [status EXCEPT ![u] = "READY"]
        /\ readyList' = Append(readyList, u)
        /\ pc' = [pc EXCEPT ![u] = "ThreadRoot"]
        /\ UNCHANGED <<currentThread, sem, threadToBeDestroyed, value, queue, mode>>
    BY DEF Fork, ReadyToRun
  <1>2. readyList \in Seq(Thread) /\ NoDuplicates(readyList) /\ u \notin Elems(readyList)
    BY <1>1 DEF TypeOK, NoThreadLost, ReadyPlace
  <1>3. /\ Append(readyList, u) \in Seq(Thread)
        /\ Elems(Append(readyList, u)) = Elems(readyList) \cup {u}
        /\ NoDuplicates(Append(readyList, u))
    BY <1>2, AppendList
  <1>4. TypeOK'
    BY <1>1, <1>3 DEF TypeOK, Status, Label
  <1>5. ReadyPlace' /\ RunPlace'
    BY <1>1, <1>3 DEF TypeOK, NoThreadLost, ReadyPlace, RunPlace
  <1>6. SleepPlace'
    BY <1>1 DEF TypeOK, NoThreadLost, SleepPlace
  <1>7. InsideP' /\ Carcass'
    BY <1>1 DEF TypeOK, InsideP, Carcass
  <1>8. NoThreadLost'
    BY <1>1, <1>5, <1>6 DEF TypeOK, NoThreadLost
  <1>9. \A s \in Semaphore : Woken(s)' = Woken(s)
    BY <1>1 DEF TypeOK, Woken, InsideP
  <1> QED
    BY <1>1, <1>4, <1>7, <1>8, <1>9, SameWoken

\* ThreadRoot changes only the place of the current thread.
LEMMA StartThreadStep ==
  ASSUME IInv, StartThread
  PROVE  IInv'
  <1> USE ThreadsAssumption DEF IInv, Places
  <1>1. /\ pc[currentThread] = "ThreadRoot" /\ mode = "SystemMode"
        /\ pc' = [pc EXCEPT ![currentThread] = "Running"]
        /\ UNCHANGED <<currentThread, readyList, status, sem,
                       threadToBeDestroyed, value, queue, mode>>
    BY DEF StartThread, ResumesAt
  <1>2. currentThread \in Thread /\ status[currentThread] = "RUNNING"
    BY <1>1 DEF TypeOK, NoThreadLost, RunPlace
  <1>3. TypeOK'
    BY <1>1 DEF TypeOK, Label
  <1>4. NoThreadLost'
    BY <1>1, <1>2 DEF TypeOK, NoThreadLost, ReadyPlace, SleepPlace, RunPlace
  <1>5. InsideP' /\ Carcass'
    BY <1>1, <1>2 DEF TypeOK, InsideP, Carcass
  <1>6. \A s \in Semaphore : Woken(s)' = Woken(s)
    BY <1>1 DEF TypeOK, Woken
  <1> QED
    BY <1>1, <1>3, <1>4, <1>5, <1>6, SameWoken

\* Yield moves the running thread to the ready list and its head to the CPU.
LEMMA YieldStep ==
  ASSUME IInv, Yield
  PROVE  IInv'
  <1> USE ThreadsAssumption DEF IInv, Places
  <1> DEFINE list == Append(readyList, currentThread)
             h == Head(list)
  <1>1. /\ pc[currentThread] = "Running" /\ mode = "SystemMode"
        /\ readyList # <<>>
        /\ pc' = [pc EXCEPT ![currentThread] = "Yield"]
        /\ currentThread' = h /\ readyList' = Tail(list)
        /\ status' = [status EXCEPT ![currentThread] = "READY", ![h] = "RUNNING"]
        /\ UNCHANGED <<sem, threadToBeDestroyed, value, queue, mode>>
    BY DEF Yield, InBody, RunNext
  <1>2. currentThread \in Thread /\ status[currentThread] = "RUNNING"
    BY <1>1 DEF TypeOK, NoThreadLost, RunPlace
  <1>3. /\ readyList \in Seq(Thread) /\ NoDuplicates(readyList)
        /\ currentThread \notin Elems(readyList)
    BY <1>2 DEF TypeOK, NoThreadLost, ReadyPlace
  <1>4. /\ list \in Seq(Thread) /\ list # <<>> /\ NoDuplicates(list)
        /\ Elems(list) = Elems(readyList) \cup {currentThread}
    BY <1>2, <1>3, AppendList
  <1>5. /\ h \in Thread /\ Tail(list) \in Seq(Thread)
        /\ Elems(Tail(list)) = Elems(list) \ {h} /\ NoDuplicates(Tail(list))
    BY <1>4, RemoveFirst
  <1>6. h \in Elems(readyList)
    <2>1. h = Head(readyList)
      BY <1>1, <1>2, <1>3
    <2> QED
      BY <1>1, <1>3, <2>1, RemoveFirst
  <1>7. status[h] = "READY" /\ h # currentThread
    BY <1>3, <1>5, <1>6 DEF NoThreadLost, ReadyPlace
  <1> HIDE DEF list, h
  <1>8. TypeOK'
    BY <1>1, <1>5 DEF TypeOK, Status, Label
  <1>9. ReadyPlace' /\ RunPlace'
    BY <1>1, <1>2, <1>4, <1>5, <1>7 DEF TypeOK, NoThreadLost, ReadyPlace, RunPlace
  <1>10. SleepPlace'
    BY <1>1, <1>2, <1>7 DEF TypeOK, NoThreadLost, SleepPlace
  <1>11. NoThreadLost'
    BY <1>1, <1>2, <1>7, <1>9, <1>10 DEF TypeOK, NoThreadLost
  <1>12. InsideP' /\ Carcass'
    BY <1>1, <1>2, <1>7 DEF TypeOK, InsideP, Carcass
  <1>13. \A s \in Semaphore : Woken(s)' = Woken(s)
    BY <1>1, <1>2, <1>5, <1>7 DEF TypeOK, Woken
  <1> QED
    BY <1>1, <1>8, <1>11, <1>12, <1>13, SameWoken

\* The tail of Run, executed in Yield, deletes a thread that is on no list.
LEMMA ResumeYieldStep ==
  ASSUME IInv, ResumeYield
  PROVE  IInv'
  <1> USE ThreadsAssumption DEF IInv, Places
  <1>1. /\ pc[currentThread] = "Yield" /\ mode = "SystemMode"
        /\ pc' = [pc EXCEPT ![currentThread] = "Running"]
        /\ threadToBeDestroyed' = NULL /\ StatusAfterRun(status')
        /\ UNCHANGED <<currentThread, readyList, sem, value, queue, mode>>
    BY StatusAfterDelete DEF ResumeYield, ResumesAt
  <1>2. currentThread \in Thread /\ status[currentThread] = "RUNNING"
    BY <1>1 DEF TypeOK, NoThreadLost, RunPlace
  <1>3. TypeOK'
    BY <1>1 DEF TypeOK, Label, StatusAfterRun
  <1>4. ReadyPlace' /\ RunPlace' /\ SleepPlace'
    BY <1>1, <1>2 DEF TypeOK, NoThreadLost, ReadyPlace, SleepPlace, RunPlace,
                      StatusAfterRun
  <1>5. NoThreadLost'
    BY <1>1, <1>2, <1>4 DEF TypeOK, NoThreadLost, StatusAfterRun
  <1>6. InsideP' /\ Carcass'
    BY <1>1, <1>2 DEF TypeOK, InsideP, Carcass, StatusAfterRun
  <1>7. \A s \in Semaphore : Woken(s)' = Woken(s)
    BY <1>1 DEF TypeOK, Woken, StatusAfterRun
  <1> QED
    BY <1>1, <1>3, <1>5, <1>6, <1>7, SameWoken

\* Finish takes the thread off the CPU and makes it the carcass.
LEMMA FinishStep ==
  ASSUME IInv, Finish
  PROVE  IInv'
  <1> USE ThreadsAssumption DEF IInv, Places
  <1>1. /\ pc[currentThread] = "Running" /\ mode = "SystemMode"
        /\ threadToBeDestroyed' = currentThread
        /\ pc' = [pc EXCEPT ![currentThread] = "Finish"]
        /\ Sleep(status)
        /\ UNCHANGED <<sem, value, queue>>
    BY DEF Finish, InBody
  <1>2. currentThread \in Thread /\ status[currentThread] = "RUNNING"
    BY <1>1 DEF TypeOK, NoThreadLost, RunPlace
  <1>3. /\ currentThread' \in Thread
        /\ readyList' \in Seq(Thread)
        /\ status' \in [Thread -> Status]
        /\ mode' \in {"SystemMode", "IdleMode", "Halted"}
        /\ ReadyPlace' /\ RunPlace'
        /\ status'[currentThread] = "BLOCKED"
        /\ \A t \in Thread \ {currentThread} :
             \/ status'[t] = status[t]
             \/ status[t] = "READY" /\ status'[t] = "RUNNING"
    BY <1>1, StatusUnchanged, SleepStep
  <1>4. TypeOK'
    BY <1>1, <1>3 DEF TypeOK, Label
  <1>5. SleepPlace'
    BY <1>1, <1>2, <1>3 DEF TypeOK, NoThreadLost, SleepPlace
  <1>6. NoThreadLost'
    BY <1>1, <1>2, <1>3, <1>5 DEF TypeOK, NoThreadLost
  <1>7. InsideP' /\ Carcass'
    BY <1>1, <1>2, <1>3 DEF TypeOK, InsideP, Carcass
  <1>8. \A s \in Semaphore : Woken(s)' = Woken(s)
    BY <1>1, <1>2, <1>3 DEF TypeOK, Woken
  <1> QED
    BY <1>1, <1>4, <1>6, <1>7, <1>8, SameWoken

\* The end of Idle gives the CPU to the head of the ready list.
LEMMA EndIdleStep ==
  ASSUME IInv, EndIdle
  PROVE  IInv'
  <1> USE ThreadsAssumption DEF IInv, Places
  <1> DEFINE h == Head(readyList)
  <1>1. /\ mode = "IdleMode" /\ readyList # <<>> /\ mode' = "SystemMode"
        /\ currentThread' = h /\ readyList' = Tail(readyList)
        /\ status' = [status EXCEPT ![h] = "RUNNING"]
        /\ UNCHANGED <<pc, sem, threadToBeDestroyed, value, queue>>
    BY DEF EndIdle, RunNext
  <1>2. /\ h \in Thread /\ h \in Elems(readyList)
        /\ Tail(readyList) \in Seq(Thread)
        /\ Elems(Tail(readyList)) = Elems(readyList) \ {h}
        /\ NoDuplicates(Tail(readyList))
    BY <1>1, RemoveFirst DEF TypeOK, NoThreadLost, ReadyPlace
  <1>3. status[h] = "READY"
    BY <1>2 DEF NoThreadLost, ReadyPlace
  <1> HIDE DEF h
  <1>4. TypeOK'
    BY <1>1, <1>2 DEF TypeOK, Status
  <1>5. ReadyPlace' /\ RunPlace'
    BY <1>1, <1>2, <1>3 DEF TypeOK, NoThreadLost, ReadyPlace, RunPlace
  <1>6. SleepPlace'
    BY <1>1, <1>2, <1>3 DEF TypeOK, NoThreadLost, SleepPlace
  <1>7. NoThreadLost'
    BY <1>1, <1>2, <1>5, <1>6 DEF TypeOK, NoThreadLost
  <1>8. InsideP' /\ Carcass'
    BY <1>1, <1>2, <1>3 DEF TypeOK, InsideP, Carcass
  <1>9. \A s \in Semaphore : Woken(s)' = Woken(s)
    BY <1>1, <1>2, <1>3 DEF TypeOK, Woken
  <1> QED
    BY <1>1, <1>4, <1>7, <1>8, <1>9, SameWoken

\* Idle halts the machine and moves no thread.
LEMMA HaltStep ==
  ASSUME IInv, Halt \/ UNCHANGED vars
  PROVE  IInv'
  <1> USE DEF IInv, Places
  <1>1. /\ UNCHANGED <<currentThread, readyList, status, pc, sem,
                       threadToBeDestroyed, value, queue>>
        /\ mode' = mode \/ (mode = "IdleMode" /\ mode' = "Halted")
    <2>1. CASE Halt
      BY <2>1 DEF Halt
    <2>2. CASE UNCHANGED vars
      BY <2>2 DEF vars
    <2> QED
      BY <2>1, <2>2
  <1>2. TypeOK'
    BY <1>1 DEF TypeOK
  <1>3. NoThreadLost' /\ InsideP' /\ Carcass'
    BY <1>1 DEF NoThreadLost, ReadyPlace, SleepPlace, RunPlace, InsideP, Carcass
  <1>4. \A s \in Semaphore : Woken(s)' = Woken(s)
    BY <1>1 DEF Woken
  <1> QED
    BY <1>1, <1>2, <1>3, <1>4, SameWoken

-----------------------------------------------------------------------------
(* The theorems.                                                           *)

\* Every step of the kernel keeps the invariant.
LEMMA NextIInv == IInv /\ [Next]_vars => IInv'
  <1> SUFFICES ASSUME IInv, [Next]_vars PROVE IInv'
    OBVIOUS
  <1>1. ASSUME NEW s \in Semaphore, P(s) PROVE IInv'
    BY <1>1, StatusUnchanged, TryPStep DEF P, InBody
  <1>2. ASSUME NEW s \in Semaphore, V(s) PROVE IInv'
    BY <1>2, SemaphoreVStep DEF V
  <1>3. ASSUME NEW s \in DeviceSemaphore, Interrupt(s) PROVE IInv'
    BY <1>3, SemaphoreVStep, ThreadsAssumption DEF Interrupt
  <1>4. ASSUME NEW u \in Thread, Fork(u) PROVE IInv'
    BY <1>4, ForkStep
  <1>5. ASSUME ResumeP PROVE IInv'
    <2>1. /\ mode = "SystemMode" /\ pc[currentThread] = "P"
          /\ TryP(sem[currentThread], AfterDelete)
          /\ threadToBeDestroyed' = NULL
      BY <1>5 DEF ResumeP, ResumesAt
    <2>2. sem[currentThread] \in Semaphore
      BY <2>1 DEF IInv, TypeOK, Places, InsideP
    <2>3. StatusAfterRun(AfterDelete)
      BY StatusAfterDelete
    <2> QED
      BY <2>1, <2>2, <2>3, TryPStep
  <1>6. CASE UNCHANGED vars
    BY <1>6, HaltStep
  <1> QED
    BY <1>1, <1>2, <1>3, <1>4, <1>5, <1>6, StartThreadStep, YieldStep,
       ResumeYieldStep, FinishStep, EndIdleStep, HaltStep DEF Next, Halted

\* The invariant holds in every state the kernel reaches.
THEOREM Invariance == Spec => []IInv
  BY InitIInv, NextIInv, PTL DEF Spec

\* Every variable keeps its type; in particular no semaphore value is ever
\* negative, as synch.h promises of values that start non-negative.
THEOREM TypeCorrect == Spec => []TypeOK
  <1>1. IInv => TypeOK
    BY DEF IInv
  <1> QED
    BY <1>1, Invariance, PTL

\* No thread is lost or doubled by Sleep, Yield, Fork, Finish, P and V.
THEOREM ThreadsKeepTheirPlace == Spec => []NoThreadLost
  <1>1. IInv => NoThreadLost
    BY DEF IInv, Places
  <1> QED
    BY <1>1, Invariance, PTL

\* Scheduler::Run deletes only a finished thread nothing refers to.
THEOREM DeletesDeadThreads == Spec => []CarcassIsDead
  <1>1. IInv => CarcassIsDead
    BY ThreadsAssumption
       DEF IInv, Places, TypeOK, NoThreadLost, ReadyPlace, SleepPlace, RunPlace,
           Carcass, CarcassIsDead
  <1> QED
    BY <1>1, Invariance, PTL

\* No V is lost: units and sleepers do not coexist without a woken thread.
THEOREM NoWakeupIsLost == Spec => []NoLostWakeup
  <1>1. IInv => NoLostWakeup
    BY DEF IInv
  <1> QED
    BY <1>1, Invariance, PTL

\* The machine idles or halts only when no thread could go on.
THEOREM IdlesOnlyWhenStuck == Spec => []IdleOnlyWhenStuck
  <1>1. IInv => IdleOnlyWhenStuck
    <2> SUFFICES ASSUME IInv, mode # "SystemMode", readyList = <<>>,
                        NEW t \in Thread, status[t] # "NULL",
                        ~(status[t] = "BLOCKED" /\ pc[t] = "Finish")
                 PROVE  status[t] = "BLOCKED" /\ value[sem[t]] = 0
      BY DEF IdleOnlyWhenStuck
    <2>1. \A u \in Thread : status[u] \notin {"READY", "RUNNING"}
      BY NewList DEF IInv, Places, NoThreadLost, ReadyPlace, RunPlace
    <2>2. status[t] = "BLOCKED" /\ pc[t] = "P"
      BY <2>1 DEF IInv, TypeOK, Places, NoThreadLost, Status
    <2>3. sem[t] \in Semaphore
      BY <2>2 DEF IInv, TypeOK, Places, InsideP
    <2>4. t \in Elems(queue[sem[t]])
      BY <2>2, <2>3 DEF IInv, Places, NoThreadLost, SleepPlace
    <2>5. queue[sem[t]] # <<>>
      BY <2>4, NewList
    <2>6. Cardinality(Woken(sem[t])) = 0
      <3>1. Woken(sem[t]) = {}
        BY <2>1 DEF Woken
      <3> QED
        BY <3>1, FS_EmptySet
    <2>7. value[sem[t]] <= 0 /\ value[sem[t]] \in Nat
      BY <2>3, <2>5, <2>6, ThreadsAssumption DEF IInv, TypeOK, NoLostWakeup
    <2> QED
      BY <2>2, <2>7
  <1> QED
    BY <1>1, Invariance, PTL

-----------------------------------------------------------------------------
(* Refinement of the abstract counting semaphore.                          *)

\* What the abstract variable waiting stands for.
Waiting == [s \in Semaphore |-> {t \in Thread : pc[t] = "P" /\ sem[t] = s}]

\* A step that keeps value, sem and the set of threads inside P is a stutter.
LEMMA Stutters ==
  ASSUME UNCHANGED <<value, sem>>,
         \A t \in Thread : pc'[t] = "P" <=> pc[t] = "P"
  PROVE  UNCHANGED CS!vars
  BY DEF CS!vars

\* A turn of P's loop is a Take, a Wait, a Leave or (asleep again) a stutter.
LEMMA TryPRefines ==
  ASSUME IInv, mode = "SystemMode", NEW s \in Semaphore,
         \/ pc[currentThread] = "Running"
         \/ pc[currentThread] = "P" /\ sem[currentThread] = s,
         NEW st, TryP(s, st)
  PROVE  [CS!Next]_(CS!vars)
  <1> USE ThreadsAssumption
  <1>1. currentThread \in Thread /\ value[s] \in Nat
    BY DEF IInv, TypeOK
  <1>c. PICK c \in Thread : c = currentThread
    BY <1>1
  <1>2. CASE value[s] = 0
    <2>1. /\ pc' = [pc EXCEPT ![currentThread] = "P"]
          /\ sem' = [sem EXCEPT ![currentThread] = s]
          /\ value' = value
      BY <1>2 DEF TryP
    <2>2. CASE pc[currentThread] = "P" /\ sem[currentThread] = s
      <3>1. pc' = pc /\ sem' = sem
        BY <2>1, <2>2 DEF IInv, TypeOK
      <3> QED
        BY <2>1, <3>1, Stutters
    <2>3. CASE pc[currentThread] = "Running"
      <3>1. Waiting' = [Waiting EXCEPT ![s] = @ \cup {currentThread}]
        <4>1. ASSUME NEW r \in Semaphore, NEW t \in Thread
              PROVE  pc'[t] = "P" /\ sem'[t] = r <=>
                       \/ pc[t] = "P" /\ sem[t] = r
                       \/ r = s /\ t = currentThread
          BY <1>1, <2>1, <2>3 DEF IInv, TypeOK
        <4>2. ASSUME NEW r \in Semaphore
              PROVE  Waiting'[r] = IF r = s THEN Waiting[r] \cup {currentThread}
                                            ELSE Waiting[r]
          BY <1>1, <4>1 DEF Waiting
        <4>3. /\ Waiting = [r \in Semaphore |-> Waiting[r]]
              /\ Waiting' = [r \in Semaphore |-> Waiting'[r]]
          BY DEF Waiting
        <4> QED
          BY <4>2, <4>3
      <3>2. \A r \in Semaphore : currentThread \notin Waiting[r]
        BY <2>3 DEF Waiting
      <3>3. CS!Wait(c, s)
        BY <1>c, <1>2, <2>1, <3>1, <3>2 DEF CS!Wait, Waiting
      <3>4. \E t \in Thread : CS!Wait(t, s) \/ CS!Leave(t, s)
        BY <3>3
      <3> QED
        BY <3>4 DEF CS!Next
    <2> QED
      BY <2>2, <2>3
  <1>3. CASE value[s] # 0
    <2>1. /\ value' = [value EXCEPT ![s] = @ - 1]
          /\ pc' = [pc EXCEPT ![currentThread] = "Running"]
          /\ sem' = [sem EXCEPT ![currentThread] = NULL]
      BY <1>3 DEF TryP
    <2>2. CASE pc[currentThread] = "P" /\ sem[currentThread] = s
      <3>1. Waiting' = [Waiting EXCEPT ![s] = @ \ {currentThread}]
        BY <1>1, <2>1, <2>2 DEF IInv, TypeOK, Waiting
      <3>2. CS!Leave(c, s)
        BY <1>c, <1>1, <1>3, <2>1, <2>2, <3>1 DEF CS!Leave, Waiting
      <3>3. \E t \in Thread : CS!Wait(t, s) \/ CS!Leave(t, s)
        BY <3>2
      <3> QED
        BY <3>3 DEF CS!Next
    <2>3. CASE pc[currentThread] = "Running"
      <3>1. Waiting' = Waiting
        BY <1>1, <2>1, <2>3 DEF IInv, TypeOK, Waiting
      <3>2. CS!Take(s)
        BY <1>1, <1>3, <2>1, <3>1 DEF CS!Take, Waiting
      <3> QED
        BY <3>2 DEF CS!Next
    <2> QED
      BY <2>2, <2>3
  <1> QED
    BY <1>2, <1>3

\* V and the interrupt handlers are Signal steps.
LEMMA SemaphoreVRefines ==
  ASSUME IInv, NEW s \in Semaphore, SemaphoreV(s), UNCHANGED <<pc, sem>>
  PROVE  [CS!Next]_(CS!vars)
  <1>1. CS!Signal(s)
    BY DEF SemaphoreV, CS!Signal
  <1> QED
    BY <1>1 DEF CS!Next

\* Every step of the kernel is a step of the abstract semaphore or a stutter.
LEMMA NextRefines == IInv /\ [Next]_vars => [CS!Next]_(CS!vars)
  <1> SUFFICES ASSUME IInv, [Next]_vars PROVE [CS!Next]_(CS!vars)
    OBVIOUS
  <1>1. ASSUME NEW s \in Semaphore, P(s) PROVE [CS!Next]_(CS!vars)
    BY <1>1, TryPRefines DEF P, InBody
  <1>2. ASSUME NEW s \in Semaphore, V(s) PROVE [CS!Next]_(CS!vars)
    BY <1>2, SemaphoreVRefines DEF V
  <1>3. ASSUME NEW s \in DeviceSemaphore, Interrupt(s)
        PROVE  [CS!Next]_(CS!vars)
    BY <1>3, SemaphoreVRefines, ThreadsAssumption DEF Interrupt
  <1>4. ASSUME ResumeP PROVE [CS!Next]_(CS!vars)
    <2>1. /\ mode = "SystemMode" /\ pc[currentThread] = "P"
          /\ TryP(sem[currentThread], AfterDelete)
      BY <1>4 DEF ResumeP, ResumesAt
    <2>2. sem[currentThread] \in Semaphore
      BY <2>1 DEF IInv, TypeOK, Places, InsideP
    <2> QED
      BY <2>1, <2>2, TryPRefines
  <1>5. ASSUME NEW u \in Thread, Fork(u) PROVE [CS!Next]_(CS!vars)
    <2>1. /\ UNCHANGED <<value, sem>>
          /\ \A t \in Thread : pc'[t] = "P" <=> pc[t] = "P"
      BY <1>5 DEF Fork, IInv, TypeOK, Places, InsideP
    <2> QED
      BY <2>1, Stutters
  <1>6. ASSUME StartThread \/ ResumeYield \/ Yield \/ Finish
        PROVE  [CS!Next]_(CS!vars)
    <2>1. /\ UNCHANGED <<value, sem>>
          /\ \A t \in Thread : pc'[t] = "P" <=> pc[t] = "P"
      BY <1>6 DEF StartThread, ResumeYield, Yield, Finish, ResumesAt, InBody,
                  IInv, TypeOK
    <2> QED
      BY <2>1, Stutters
  <1>7. ASSUME EndIdle \/ Halt \/ UNCHANGED vars PROVE [CS!Next]_(CS!vars)
    <2>1. UNCHANGED <<value, sem, pc>>
      BY <1>7 DEF EndIdle, Halt, vars
    <2> QED
      BY <2>1, Stutters
  <1> QED
    BY <1>1, <1>2, <1>3, <1>4, <1>5, <1>6, <1>7 DEF Next, Halted

\* The kernel's semaphores implement the abstract counting semaphore.
THEOREM SemaphoreRefinement == Spec => ImplementsSemaphore
  <1>1. Init => CS!Init
    BY DEF Init, CS!Init
  <1> QED
    BY <1>1, NextRefines, Invariance, PTL DEF Spec, ImplementsSemaphore, CS!Spec

=============================================================================
