-------------------------- MODULE CountingSemaphore --------------------------
(***************************************************************************)
(* What a set of semaphores promises its callers, with no scheduler, no    *)
(* queue and no wakeups: P waits for the value to be positive and takes    *)
(* one unit in the same step; V adds one unit.  synch.h states the same    *)
(* contract.  The components above the threads are specified against it.   *)
(***************************************************************************)
EXTENDS Integers

CONSTANTS Thread, Semaphore, InitialValue, MaxValue

VARIABLES
  value,     \* the units that P may take
  waiting    \* the threads inside P, for each semaphore

vars == <<value, waiting>>

Init ==
  /\ value = InitialValue
  /\ waiting = [s \in Semaphore |-> {}]

\* P returns at once.
Take(s) ==
  /\ value[s] > 0
  /\ value' = [value EXCEPT ![s] = @ - 1]
  /\ UNCHANGED waiting

\* P finds the value 0.
Wait(t, s) ==
  /\ value[s] = 0
  /\ \A r \in Semaphore : t \notin waiting[r]
  /\ waiting' = [waiting EXCEPT ![s] = @ \cup {t}]
  /\ UNCHANGED value

\* P of a waiting thread returns.
Leave(t, s) ==
  /\ t \in waiting[s]
  /\ value[s] > 0
  /\ value' = [value EXCEPT ![s] = @ - 1]
  /\ waiting' = [waiting EXCEPT ![s] = @ \ {t}]

Signal(s) ==
  /\ value[s] < MaxValue
  /\ value' = [value EXCEPT ![s] = @ + 1]
  /\ UNCHANGED waiting

Next ==
  \E s \in Semaphore :
    \/ Take(s) \/ Signal(s)
    \/ \E t \in Thread : Wait(t, s) \/ Leave(t, s)

Spec == Init /\ [][Next]_vars

\* A value that stays positive is not left beside a waiting thread.
FairSpec ==
  /\ Spec
  /\ \A s \in Semaphore : WF_vars(\E t \in Thread : Leave(t, s))

=============================================================================
