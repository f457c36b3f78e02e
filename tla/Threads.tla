------------------------------- MODULE Threads -------------------------------
(***************************************************************************)
(* The kernel threads of Nachos: Thread, Scheduler and Semaphore, with the *)
(* interrupt discipline that decides where a thread can lose the CPU.      *)
(*                                                                         *)
(* The kernel simulates a uniprocessor.  Code between two calls of         *)
(* Interrupt::OneTick is atomic; OneTick runs when interrupts are turned   *)
(* back on and after every user instruction.  A step below is therefore    *)
(* the code a thread executes from one OneTick to the next, or up to the   *)
(* SWITCH inside Scheduler::Run.  What the threads do is left open: the    *)
(* running thread may call any operation next.                             *)
(***************************************************************************)
EXTENDS Integers, Sequences, FiniteSets

CONSTANTS
  Thread,           \* Thread objects; an address is used again after delete
  Main,             \* the thread Initialize runs in
  Semaphore,        \* the semaphores of the kernel and of user programs
  DeviceSemaphore,  \* those an interrupt handler does V on
  InitialValue,     \* [Semaphore -> Nat]: the constructor's initialValue
  MaxValue,         \* bound: V is not called on a semaphore of this value
  NULL

ASSUME ThreadsAssumption ==
  /\ Main \in Thread
  /\ NULL \notin Thread
  /\ NULL \notin Semaphore
  /\ DeviceSemaphore \subseteq Semaphore
  /\ MaxValue \in Nat
  /\ InitialValue \in [Semaphore -> 0..MaxValue]

\* The reference counting of sleepers below needs finitely many threads.
ASSUME FiniteThreads == IsFiniteSet(Thread)

VARIABLES
  currentThread,        \* the thread the CPU is on
  readyList,            \* Scheduler::readyList
  status,               \* Thread::status, "NULL" when there is no object
  pc,                   \* where the thread resumes when it is switched to
  sem,                  \* the semaphore whose P the thread is inside
  threadToBeDestroyed,
  value,                \* Semaphore::value
  queue,                \* Semaphore::queue
  mode                  \* "SystemMode", "IdleMode" (in Idle) or "Halted"

vars == <<currentThread, readyList, status, pc, sem, threadToBeDestroyed,
          value, queue, mode>>

-----------------------------------------------------------------------------

\* Sleep and Finish leave a thread BLOCKED; Thread::status is JUST_CREATED
\* only between the constructor and Fork, which are one step here.
Status == {"NULL", "RUNNING", "READY", "BLOCKED"}

\* "Running": executing its own code, interrupts on.  "ThreadRoot": forked,
\* never dispatched.  "Yield", "P", "Finish": switched out inside that
\* routine, interrupts off.
Label == {"Running", "ThreadRoot", "Yield", "P", "Finish"}

Init ==
  /\ currentThread = Main
  /\ readyList = <<>>
  /\ status = [t \in Thread |-> IF t = Main THEN "RUNNING" ELSE "NULL"]
  /\ pc = [t \in Thread |-> "Running"]
  /\ sem = [t \in Thread |-> NULL]
  /\ threadToBeDestroyed = NULL
  /\ value = InitialValue
  /\ queue = [s \in Semaphore |-> <<>>]
  /\ mode = "SystemMode"

\* The current thread is between two kernel calls, with interrupts enabled.
InBody == mode = "SystemMode" /\ pc[currentThread] = "Running"

\* The current thread has just been switched to at label l.
ResumesAt(l) == mode = "SystemMode" /\ pc[currentThread] = l

-----------------------------------------------------------------------------
(* Scheduler and Thread routines, as pieces of the actions.  st is the     *)
(* value of status at the point of the call.                               *)

ReadyToRun(t, st) ==
  /\ status' = [st EXCEPT ![t] = "READY"]
  /\ readyList' = Append(readyList, t)

\* Status after the tail of Scheduler::Run, which a thread executes when it
\* is switched back to: it deletes the carcass of a finished thread.
AfterDelete ==
  IF threadToBeDestroyed = NULL
  THEN status
  ELSE [status EXCEPT ![threadToBeDestroyed] = "NULL"]

\* FindNextToRun followed by Run: the head of the ready list gets the CPU.
RunNext(st, list) ==
  /\ currentThread' = Head(list)
  /\ readyList' = Tail(list)
  /\ status' = [st EXCEPT ![Head(list)] = "RUNNING"]

\* Thread::Sleep.  With nobody ready the CPU stays in Sleep's loop, in Idle.
Sleep(st) ==
  LET blocked == [st EXCEPT ![currentThread] = "BLOCKED"] IN
  IF readyList = <<>>
  THEN /\ mode' = "IdleMode"
       /\ status' = blocked
       /\ UNCHANGED <<currentThread, readyList>>
  ELSE /\ RunNext(blocked, readyList)
       /\ UNCHANGED mode

\* One turn of the loop in Semaphore::P.
TryP(s, st) ==
  IF value[s] = 0
  THEN /\ queue' = [queue EXCEPT ![s] = Append(@, currentThread)]
       /\ pc' = [pc EXCEPT ![currentThread] = "P"]
       /\ sem' = [sem EXCEPT ![currentThread] = s]
       /\ Sleep(st)
       /\ UNCHANGED value
  ELSE /\ value' = [value EXCEPT ![s] = @ - 1]
       /\ pc' = [pc EXCEPT ![currentThread] = "Running"]
       /\ sem' = [sem EXCEPT ![currentThread] = NULL]
       /\ status' = st
       /\ UNCHANGED <<currentThread, readyList, queue, mode>>

\* Mutation of V: looks at the first waiter and leaves it in the queue.
SemaphoreVKeepsWaiter(s) ==
  /\ value[s] < MaxValue
  /\ IF queue[s] = <<>>
     THEN UNCHANGED <<queue, status, readyList>>
     ELSE ReadyToRun(Head(queue[s]), status) /\ UNCHANGED queue
  /\ value' = [value EXCEPT ![s] = @ + 1]

\* Mutation of V: wakes a waiter only when the value was 0.
SemaphoreVWakesAtZero(s) ==
  /\ value[s] < MaxValue
  /\ IF queue[s] = <<>> \/ value[s] > 0
     THEN UNCHANGED <<queue, status, readyList>>
     ELSE /\ queue' = [queue EXCEPT ![s] = Tail(@)]
          /\ ReadyToRun(Head(queue[s]), status)
  /\ value' = [value EXCEPT ![s] = @ + 1]

\* Mutation of V: takes the waiter out of the queue and does not wake it.
SemaphoreVDropsWaiter(s) ==
  /\ value[s] < MaxValue
  /\ queue' = [queue EXCEPT ![s] = IF @ = <<>> THEN @ ELSE Tail(@)]
  /\ value' = [value EXCEPT ![s] = @ + 1]
  /\ UNCHANGED <<status, readyList>>

SemaphoreV(s) ==
  /\ value[s] < MaxValue
  /\ IF queue[s] = <<>>
     THEN UNCHANGED <<queue, status, readyList>>
     ELSE /\ queue' = [queue EXCEPT ![s] = Tail(@)]
          /\ ReadyToRun(Head(queue[s]), status)
  /\ value' = [value EXCEPT ![s] = @ + 1]

-----------------------------------------------------------------------------
(* The steps of the current thread.                                        *)

\* Semaphore::P called: either the unit is taken or the thread sleeps.
P(s) ==
  /\ InBody
  /\ TryP(s, status)
  /\ UNCHANGED threadToBeDestroyed

\* Mutation of P: the loop is an if; a woken thread does not test again.
ResumePNoTest ==
  /\ ResumesAt("P")
  /\ value' = [value EXCEPT ![sem[currentThread]] = @ - 1]
  /\ pc' = [pc EXCEPT ![currentThread] = "Running"]
  /\ sem' = [sem EXCEPT ![currentThread] = NULL]
  /\ status' = AfterDelete
  /\ threadToBeDestroyed' = NULL
  /\ UNCHANGED <<currentThread, readyList, queue, mode>>

\* Sleep returns inside P: the tail of Run, then the while test again, with
\* interrupts still off.
ResumeP ==
  /\ ResumesAt("P")
  /\ TryP(sem[currentThread], AfterDelete)
  /\ threadToBeDestroyed' = NULL

V(s) ==
  /\ InBody
  /\ SemaphoreV(s)
  /\ UNCHANGED <<currentThread, pc, sem, threadToBeDestroyed, mode>>

\* new Thread and Thread::Fork of u.
Fork(u) ==
  /\ InBody
  /\ status[u] = "NULL"
  /\ ReadyToRun(u, status)
  /\ pc' = [pc EXCEPT ![u] = "ThreadRoot"]
  /\ UNCHANGED <<currentThread, sem, threadToBeDestroyed, value, queue, mode>>

\* ThreadRoot of a thread dispatched for the first time: SWITCH does not
\* return into Scheduler::Run, so no carcass is deleted here.
StartThread ==
  /\ ResumesAt("ThreadRoot")
  /\ pc' = [pc EXCEPT ![currentThread] = "Running"]
  /\ UNCHANGED <<currentThread, readyList, status, sem, threadToBeDestroyed,
                 value, queue, mode>>

\* Mutation of Yield: the thread goes to the front of the ready list, behind
\* the one that runs next.
YieldPrepends ==
  /\ InBody
  /\ readyList # <<>>
  /\ RunNext([status EXCEPT ![currentThread] = "READY"],
             <<Head(readyList), currentThread>> \o Tail(readyList))
  /\ pc' = [pc EXCEPT ![currentThread] = "Yield"]
  /\ UNCHANGED <<sem, threadToBeDestroyed, value, queue, mode>>

\* Thread::Yield, called by the thread or by OneTick after a timer
\* interrupt; it returns at once when nobody else is ready.
Yield ==
  /\ InBody
  /\ readyList # <<>>
  /\ RunNext([status EXCEPT ![currentThread] = "READY"],
             Append(readyList, currentThread))
  /\ pc' = [pc EXCEPT ![currentThread] = "Yield"]
  /\ UNCHANGED <<sem, threadToBeDestroyed, value, queue, mode>>

\* Mutation of the tail of Run: threadToBeDestroyed is not reset.
ResumeYieldNoReset ==
  /\ ResumesAt("Yield")
  /\ status' = AfterDelete
  /\ pc' = [pc EXCEPT ![currentThread] = "Running"]
  /\ UNCHANGED <<currentThread, readyList, sem, threadToBeDestroyed, value,
                 queue, mode>>

\* Run returns inside Yield; the interrupt level is restored.
ResumeYield ==
  /\ ResumesAt("Yield")
  /\ status' = AfterDelete
  /\ threadToBeDestroyed' = NULL
  /\ pc' = [pc EXCEPT ![currentThread] = "Running"]
  /\ UNCHANGED <<currentThread, readyList, sem, value, queue, mode>>

\* Thread::Finish: the carcass is left for the next thread to delete.
Finish ==
  /\ InBody
  /\ threadToBeDestroyed' = currentThread
  /\ pc' = [pc EXCEPT ![currentThread] = "Finish"]
  /\ Sleep(status)
  /\ UNCHANGED <<sem, value, queue>>

-----------------------------------------------------------------------------
(* Interrupts and the idle loop.                                           *)

\* A device interrupt whose handler does V: from OneTick, or from Idle.
Interrupt(s) ==
  /\ InBody \/ mode = "IdleMode"
  /\ SemaphoreV(s)
  /\ UNCHANGED <<currentThread, pc, sem, threadToBeDestroyed, mode>>

\* Idle has returned and Sleep's loop finds a ready thread.
EndIdle ==
  /\ mode = "IdleMode"
  /\ readyList # <<>>
  /\ RunNext(status, readyList)
  /\ mode' = "SystemMode"
  /\ UNCHANGED <<pc, sem, threadToBeDestroyed, value, queue>>

\* Idle finds no pending interrupt but the timer: the machine stops.
Halt ==
  /\ mode = "IdleMode"
  /\ readyList = <<>>
  /\ mode' = "Halted"
  /\ UNCHANGED <<currentThread, readyList, status, pc, sem,
                 threadToBeDestroyed, value, queue>>

Halted == mode = "Halted" /\ UNCHANGED vars

Next ==
  \/ \E s \in Semaphore : P(s) \/ V(s)
  \/ \E s \in DeviceSemaphore : Interrupt(s)
  \/ \E u \in Thread : Fork(u)
  \/ ResumeP \/ StartThread \/ Yield \/ ResumeYield \/ Finish
  \/ EndIdle \/ Halt \/ Halted

Spec == Init /\ [][Next]_vars

-----------------------------------------------------------------------------
(* Fairness.  The CPU never stops in the middle of the kernel, and with    *)
(* the -rs timer the thread at a OneTick is interrupted again and again.   *)

KernelStep == ResumeP \/ StartThread \/ ResumeYield \/ EndIdle

FairSpec == Spec /\ WF_vars(KernelStep) /\ SF_vars(Yield)

-----------------------------------------------------------------------------
(* Properties.                                                             *)

Elems(q) == {q[i] : i \in 1..Len(q)}

NoDuplicates(q) == \A i, j \in 1..Len(q) : q[i] = q[j] => i = j

\* Every variable keeps its type; a semaphore's value is never negative.
TypeOK ==
  /\ currentThread \in Thread
  /\ readyList \in Seq(Thread)
  /\ status \in [Thread -> Status]
  /\ pc \in [Thread -> Label]
  /\ sem \in [Thread -> Semaphore \cup {NULL}]
  /\ threadToBeDestroyed \in Thread \cup {NULL}
  /\ value \in [Semaphore -> 0..MaxValue]
  /\ queue \in [Semaphore -> Seq(Thread)]
  /\ mode \in {"SystemMode", "IdleMode", "Halted"}

\* The ready list holds exactly the READY threads, each once.
ReadyPlace ==
  /\ NoDuplicates(readyList)
  /\ \A t \in Thread : t \in Elems(readyList) <=> status[t] = "READY"

\* The queue of s holds exactly the threads asleep inside s->P, each once.
SleepPlace ==
  \A s \in Semaphore :
    /\ NoDuplicates(queue[s])
    /\ \A t \in Thread : t \in Elems(queue[s]) <=>
         status[t] = "BLOCKED" /\ pc[t] = "P" /\ sem[t] = s

\* The CPU runs one thread, the current one, unless it idles.
RunPlace ==
  \A t \in Thread :
    status[t] = "RUNNING" <=> mode = "SystemMode" /\ t = currentThread

\* Switching, waking, sleeping and deleting never lose or double a thread:
\* a thread that exists is on the CPU, or once on the ready list, or once in
\* the queue of the one semaphore whose P it is inside, or finished.
NoThreadLost ==
  /\ ReadyPlace /\ SleepPlace /\ RunPlace
  /\ \A t \in Thread : status[t] = "BLOCKED" => pc[t] \in {"P", "Finish"}

\* The thread Scheduler::Run deletes has finished, and is neither the thread
\* executing the delete (the ASSERT of ~Thread) nor on any list.
CarcassIsDead ==
  threadToBeDestroyed # NULL =>
    /\ status[threadToBeDestroyed] = "BLOCKED"
    /\ pc[threadToBeDestroyed] = "Finish"
    /\ mode = "SystemMode" => threadToBeDestroyed # currentThread
    /\ threadToBeDestroyed \notin Elems(readyList)
    /\ \A s \in Semaphore : threadToBeDestroyed \notin Elems(queue[s])

\* Threads a V has taken out of the queue of s that have not run since.
Woken(s) ==
  {t \in Thread : /\ pc[t] = "P" /\ sem[t] = s
                  /\ status[t] \in {"READY", "RUNNING"}}

\* P takes the value without looking at the queue and V wakes one thread
\* only, yet no wakeup is lost: while threads sleep on s, every unit of its
\* value has a thread on its way to take it.
NoLostWakeup ==
  \A s \in Semaphore : queue[s] # <<>> => value[s] <= Cardinality(Woken(s))

\* Sleep idles, and Idle halts, only when nobody could go on: every thread
\* left has finished or is asleep on a semaphore that is 0.
IdleOnlyWhenStuck ==
  mode # "SystemMode" /\ readyList = <<>> =>
    \A t \in Thread :
      \/ status[t] = "NULL"
      \/ status[t] = "BLOCKED" /\ pc[t] = "Finish"
      \/ status[t] = "BLOCKED" /\ value[sem[t]] = 0

\* Under the timer every thread that is made ready gets the CPU: Yield and V
\* append to the ready list, and Run takes from its front.
ReadyRuns ==
  \A t \in Thread : status[t] = "READY" ~> status[t] = "RUNNING"

CS == INSTANCE CountingSemaphore
        WITH waiting <- [s \in Semaphore |->
                           {t \in Thread : pc[t] = "P" /\ sem[t] = s}]

\* The queue, the wakeups and the scheduling together implement the abstract
\* counting semaphore: a thread leaves P only by taking a unit, ...
ImplementsSemaphore == CS!Spec

\* ... and under the timer a semaphore that stays positive lets its waiters go.
ImplementsFairSemaphore == CS!FairSpec

-----------------------------------------------------------------------------
(* What comments of the code say and the code does not do.                 *)

\* Thread::Finish: "we set threadToBeDestroyed, so that Scheduler::Run() will
\* call the destructor, once we're running in the context of a different
\* thread".  A finished thread would be deleted or next to be deleted.
FinishedIsDestroyed ==
  \A t \in Thread :
    status[t] = "BLOCKED" /\ pc[t] = "Finish" => t = threadToBeDestroyed

=============================================================================
