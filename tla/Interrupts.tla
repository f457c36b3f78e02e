----------------------------- MODULE Interrupts -----------------------------
(***************************************************************************)
(* The simulated interrupt hardware: Interrupt with its sorted list of     *)
(* pending interrupts, the clock, the time-slice Timer, and the devices as *)
(* far as they schedule interrupts.  One CPU executes thread code; what    *)
(* the code computes does not matter, only that it turns interrupts off    *)
(* and on, executes user instructions, starts devices, or has nothing to   *)
(* run.                                                                    *)
(*                                                                         *)
(* Times are relative to stats->totalTicks: the clock advances by lowering *)
(* them all, so a behaviour may go on for ever in finitely many states.    *)
(***************************************************************************)
EXTENDS Integers, Sequences, FiniteSetsExt

CONSTANTS
  Polled,       \* devices that poll: the handler schedules the next poll
  OneShot,      \* devices whose interrupt answers one request
  DeviceTime,   \* the possible ticks from a request or poll to its interrupt
  TimerTicks,   \* the timer waits 1 to 2 * TimerTicks
  UserTick, SystemTick

TimerInt == "TimerInt"

Device == Polled \cup OneShot

ASSUME InterruptsAssumption ==
  /\ Polled \cap OneShot = {}
  /\ TimerInt \notin Device
  /\ DeviceTime \in [Device -> SUBSET (Nat \ {0}) \ {{}}]
  /\ TimerTicks \in Nat \ {0}
  /\ UserTick \in Nat \ {0}
  /\ SystemTick \in Nat \ {0}

VARIABLES
  pending,        \* the sorted list of [type, when]
  yieldOnReturn,
  pc,             \* where the CPU is, see Label
  ready           \* has a handler called by Idle made a thread ready?

vars == <<pending, yieldOnReturn, pc, ready>>

\* "On", "Off": thread code with interrupts enabled or disabled.  "Tick": the
\* loop of OneTick.  "Advance", "Idle": the first CheckIfDue of Idle, and its
\* loop.
Label == {"On", "Off", "Tick", "Advance", "Idle", "Halted"}

-----------------------------------------------------------------------------
(* The sorted list.                                                        *)

\* The new item goes before the first one with a larger key.
Place(list, key) ==
  Min({i \in 1..Len(list) : key < list[i].when} \cup {Len(list) + 1})

SortedInsert(list, item) ==
  LET k == Place(list, item.when)
  IN  SubSeq(list, 1, k - 1) \o <<item>> \o SubSeq(list, k, Len(list))

\* What is left once the first item, Head(list), is taken off.
SortedRemove(list) == Tail(list)

\* when is kept as the ticks from now.
PendingInterrupt(time, kind) == [type |-> kind, when |-> time]

Schedule(list, type, fromNow) ==
  SortedInsert(list, PendingInterrupt(fromNow, type))

\* totalTicks grows by n.
Ticked(list, n) == [i \in 1..Len(list) |-> [list[i] EXCEPT !.when = @ - n]]

\* CheckIfDue takes the first item off, and puts it back behind its equals.
PutBack(list) ==
  IF list = <<>> THEN list ELSE SortedInsert(SortedRemove(list), Head(list))

Types(list) == {list[i].type : i \in 1..Len(list)}

TimeOfNextInterrupt == 1..(2 * TimerTicks)

\* The ticks to the next interrupt of the timer or of a device.
Period(type) == IF type = TimerInt THEN TimeOfNextInterrupt ELSE DeviceTime[type]

\* Initialize before interrupt->Enable(): the timer, if there is one.
Init ==
  /\ \/ pending = <<>>
     \/ \E n \in TimeOfNextInterrupt : pending = Schedule(<<>>, TimerInt, n)
  /\ yieldOnReturn = FALSE
  /\ pc = "Off"
  /\ ready = FALSE

-----------------------------------------------------------------------------
(* Thread code.                                                            *)

Disable ==
  /\ pc = "On"
  /\ pc' = "Off"
  /\ UNCHANGED <<pending, yieldOnReturn, ready>>

\* The constructor of a polled device, or a request to one that is not busy.
Request(d) ==
  /\ pc \in {"On", "Off"}
  /\ d \notin Types(pending)
  /\ \E n \in DeviceTime[d] : pending' = Schedule(pending, d, n)
  /\ UNCHANGED <<yieldOnReturn, pc, ready>>

\* OneTick up to its loop.
OneTick(n) ==
  /\ pending' = Ticked(pending, n)
  /\ pc' = "Tick"
  /\ UNCHANGED <<yieldOnReturn, ready>>

UserInstruction == pc = "On" /\ OneTick(UserTick)

\* SetLevel(IntOn) with interrupts off, in the kernel.
Enable == pc = "Off" /\ OneTick(SystemTick)

\* Thread::Sleep finds no ready thread and calls Idle.
Sleep ==
  /\ pc = "Off"
  /\ pc' = "Advance"
  /\ UNCHANGED <<pending, yieldOnReturn, ready>>

-----------------------------------------------------------------------------
(* CheckIfDue and what it calls.                                           *)

\* The timer's handler asks for a time slice, another one does not.  CheckIfDue
\* has set SystemMode, so the machine is never found idle.
TimerInterruptHandler(type) ==
  yieldOnReturn' = (yieldOnReturn \/ type = TimerInt)

\* Mutant: a device that finds nothing to read does not poll again.
HandlerStopsPolling(type, list) ==
  /\ \/ type \notin OneShot /\ \E n \in Period(type) : pending' = Schedule(list, type, n)
     \/ type # TimerInt /\ pending' = list
  /\ TimerInterruptHandler(type)

\* Mutant: the timer is not started again.
HandlerOneSlice(type, list) ==
  /\ \/ type \in Polled /\ \E n \in Period(type) : pending' = Schedule(list, type, n)
     \/ type \notin Polled /\ pending' = list
  /\ TimerInterruptHandler(type)

\* The handler of an interrupt of this type, list being what is still pending:
\* the timer and the polled devices schedule the next one.
Handler(type, list) ==
  /\ \/ type \notin OneShot /\ \E n \in Period(type) : pending' = Schedule(list, type, n)
     \/ type \in OneShot /\ pending' = list
  /\ TimerInterruptHandler(type)

\* A device's handler may make a thread ready.
MayWake(type) == ready' \in IF type = TimerInt THEN {ready} ELSE {ready, TRUE}

IsDue == pending # <<>> /\ Head(pending).when <= 0

\* In IdleMode the timer alone is not fired.
OnlyTimer == Len(pending) = 1 /\ Head(pending).type = TimerInt

\* CheckIfDue(FALSE) in OneTick's loop, TRUE.
Fire ==
  /\ pc = "Tick"
  /\ IsDue
  /\ Handler(Head(pending).type, SortedRemove(pending))
  /\ UNCHANGED <<pc, ready>>

\* Mutant: one interrupt per tick.
EndTickEarly ==
  /\ pc = "Tick"
  /\ pending' = PutBack(pending)
  /\ pc' = IF yieldOnReturn THEN "Off" ELSE "On"
  /\ yieldOnReturn' = FALSE
  /\ UNCHANGED ready

\* CheckIfDue(FALSE), FALSE, and the rest of OneTick.  A time slice is a Yield,
\* which turns interrupts off; the thread it switches to turns them on.
EndTick ==
  /\ pc = "Tick"
  /\ ~IsDue
  /\ pending' = PutBack(pending)
  /\ pc' = IF yieldOnReturn THEN "Off" ELSE "On"
  /\ yieldOnReturn' = FALSE
  /\ UNCHANGED ready

\* Mutant: the clock is not advanced when there is nothing to run.
AdvanceNoClock ==
  /\ pc = "Advance"
  /\ pending # <<>>
  /\ ~OnlyTimer
  /\ IF IsDue
     THEN Handler(Head(pending).type, SortedRemove(pending)) /\ MayWake(Head(pending).type)
     ELSE UNCHANGED <<pending, yieldOnReturn, ready>>
  /\ pc' = "Idle"

\* CheckIfDue(TRUE), TRUE: the clock goes to the first interrupt.
Advance ==
  /\ pc = "Advance"
  /\ pending # <<>>
  /\ ~OnlyTimer
  /\ LET list == Ticked(pending, Max({0, Head(pending).when}))
     IN  Handler(Head(list).type, SortedRemove(list)) /\ MayWake(Head(list).type)
  /\ pc' = "Idle"

\* CheckIfDue(FALSE) in Idle's loop, TRUE.
FireIdle ==
  /\ pc = "Idle"
  /\ IsDue
  /\ ~OnlyTimer
  /\ Handler(Head(pending).type, SortedRemove(pending))
  /\ MayWake(Head(pending).type)
  /\ UNCHANGED pc

\* Mutant: the time slice asked for while idle is not dropped.
EndIdleKeepsSlice ==
  /\ pc = "Idle"
  /\ IsDue => OnlyTimer
  /\ pending' = PutBack(pending)
  /\ pc' = IF ready THEN "Off" ELSE "Advance"
  /\ ready' = FALSE
  /\ UNCHANGED yieldOnReturn

\* CheckIfDue(FALSE), FALSE, and the return of Idle to Sleep, which runs a
\* ready thread or idles again.
EndIdle ==
  /\ pc = "Idle"
  /\ IsDue => OnlyTimer
  /\ pending' = PutBack(pending)
  /\ yieldOnReturn' = FALSE
  /\ pc' = IF ready THEN "Off" ELSE "Advance"
  /\ ready' = FALSE

\* CheckIfDue(TRUE), FALSE.  The clock has been advanced to the timer's time.
Halt ==
  /\ pc = "Advance"
  /\ pending = <<>> \/ OnlyTimer
  /\ pending' = IF pending = <<>> THEN pending
                ELSE Ticked(pending, Max({0, Head(pending).when}))
  /\ pc' = "Halted"
  /\ UNCHANGED <<yieldOnReturn, ready>>

Halted == pc = "Halted" /\ UNCHANGED vars

\* What happens by itself as the CPU goes on.
Run ==
  \/ UserInstruction \/ Enable \/ Fire \/ EndTick
  \/ Advance \/ FireIdle \/ EndIdle \/ Halt

Next ==
  \/ Disable
  \/ \E d \in Device : Request(d)
  \/ Sleep
  \/ Run
  \/ Halted

Spec == Init /\ [][Next]_vars

\* The simulation does not stop by itself: code with interrupts on executes
\* its next instruction, code with interrupts off turns them on or sleeps.
FairSpec == Spec /\ WF_vars(Run)

-----------------------------------------------------------------------------
(* Properties.                                                             *)

\* The list is in order of time whatever was inserted, rotated by a put-back
\* or rescheduled by a handler, so that CheckIfDue may look at its head only.
EarliestFirst ==
  \A i, j \in 1..Len(pending) : i < j => pending[i].when <= pending[j].when

\* Every device and the timer have at most one interrupt pending.
TypeOK ==
  /\ pending \in Seq([type : Device \cup {TimerInt}, when : Int])
  /\ \A i, j \in 1..Len(pending) : pending[i].type = pending[j].type => i = j
  /\ EarliestFirst
  /\ yieldOnReturn \in BOOLEAN
  /\ pc \in Label
  /\ ready \in BOOLEAN

\* No interrupt is ever late by more than the one tick that made it due, and
\* code with interrupts on never runs past one that is due: the loop of OneTick
\* catches up with everything before time passes again.  (With interrupts off
\* code may: Idle leaves a due timer pending when it is alone.)  TypeOK, with the
\* order of the list, is part of it.
LateByOneTick ==
  /\ TypeOK
  /\ \A i \in 1..Len(pending) :
       /\ pending[i].when >= -Max({UserTick, SystemTick})
       /\ pc = "On" => pending[i].when > 0

\* A time slice is taken before thread code goes on, and one that came while
\* the machine was idle is not taken by the thread that runs next.
SliceIsPrompt == pc \in {"On", "Off"} => ~yieldOnReturn

\* Neither an interrupt nor the time slice it asks for is put off.
InterruptsArePrompt == LateByOneTick /\ SliceIsPrompt

\* interrupt.cc:225: with the console or the network operating there is always
\* a pending interrupt, so that Idle does not halt the machine.
NeverHaltsWhilePolling ==
  \A d \in Polled : [](d \in Types(pending) => [](pc # "Halted"))

\* A device that was given a request answers, whether the CPU computes, idles
\* or is interrupted by others.
DeviceAnswers ==
  \A d \in OneShot : d \in Types(pending) ~> d \notin Types(pending)

\* If Initialize has started the timer, code that runs is asked to yield
\* sooner or later, again and again, until the machine halts.
SlicesGoOn ==
  TimerInt \in Types(pending) => (pc = "On" ~> (yieldOnReturn \/ pc = "Halted"))

\* Time goes on for the devices and for the timer.
InterruptsCome == DeviceAnswers /\ SlicesGoOn

=============================================================================
