-------------------------------- MODULE Disk --------------------------------
(***************************************************************************)
(* The simulated disk and SynchDisk: when a request is done, by the seek,  *)
(* the rotation and the track buffer, and how the threads that wait for it *)
(* are woken.  A sector passes under the head in RotationTime ticks.       *)
(*                                                                         *)
(* The lock around a request does nothing (Lock::Acquire is empty).  From  *)
(* a request to the test in the P behind it interrupts do not come.  What  *)
(* the sectors contain is left to FileSystem: the data is transferred at   *)
(* once, only the interrupt is late.                                       *)
(***************************************************************************)
EXTENDS Integers, FiniteSets

CONSTANTS
  Thread,
  SectorsPerTrack, NumTracks, RotationTime, SeekTime,
  TickLength,     \* by how much the clock may advance at once
  MaxTicks        \* bound: the time of the last request

VARIABLES
  totalTicks,
  lastSector, bufferInit,   \* fields of Disk
  active,
  due,                      \* when the interrupt comes that is scheduled
  semaphore,                \* its value
  pc,                       \* a thread is "Idle", or in the "P" of a request
  aborted,                  \* an ASSERT has ended the machine
  request,                  \* history: the last request and its time
  arrived                   \* history: since when the head is on its track

vars == <<totalTicks, lastSector, bufferInit, active, due, semaphore, pc, aborted,
          request, arrived>>

Sector == 0..((SectorsPerTrack * NumTracks) - 1)

Init ==
  /\ totalTicks = 0
  /\ lastSector = 0
  /\ bufferInit = 0
  /\ active = FALSE
  /\ due = 0
  /\ semaphore = 0
  /\ pc = [t \in Thread |-> "Idle"]
  /\ aborted = FALSE
  /\ request = [sector |-> 0, writing |-> FALSE, start |-> 0]
  /\ arrived = 0

-----------------------------------------------------------------------------
(* Times.                                                                  *)

\* TimeToSeek, the time until the head is on the track ...
Seek(newSector) ==
  LET tracks == (newSector \div SectorsPerTrack) - (lastSector \div SectorsPerTrack)
  IN  (IF tracks < 0 THEN -tracks ELSE tracks) * SeekTime

\* ... and its second result, from then until the next sector begins.
Rotation(newSector) ==
  LET over == (totalTicks + Seek(newSector)) % RotationTime
  IN  IF over > 0 THEN RotationTime - over ELSE 0

ModuloDiff(to, from) ==
  (((to % SectorsPerTrack) - (from % SectorsPerTrack)) + SectorsPerTrack)
    % SectorsPerTrack

\* timeAfter in ComputeLatency
TimeAfter(newSector) == totalTicks + Seek(newSector) + Rotation(newSector)

\* Mutant: the sector the buffer has just begun to read is taken for read.
InTrackBufferEarly(newSector, writing) ==
  /\ ~writing /\ Seek(newSector) = 0
  /\ (TimeAfter(newSector) - bufferInit) \div RotationTime
       >= ModuloDiff(newSector, bufferInit \div RotationTime)

\* "check if track buffer applies"
InTrackBuffer(newSector, writing) ==
  /\ ~writing /\ Seek(newSector) = 0
  /\ (TimeAfter(newSector) - bufferInit) \div RotationTime
       > ModuloDiff(newSector, bufferInit \div RotationTime)

ComputeLatency(newSector, writing) ==
  IF InTrackBuffer(newSector, writing) THEN RotationTime
  ELSE Seek(newSector) + Rotation(newSector)
         + (ModuloDiff(newSector, TimeAfter(newSector) \div RotationTime) * RotationTime)
         + RotationTime

UpdateLast(newSector) ==
  /\ bufferInit' = IF Seek(newSector) # 0 THEN TimeAfter(newSector) ELSE bufferInit
  /\ lastSector' = newSector
  /\ arrived' = IF Seek(newSector) # 0 THEN totalTicks + Seek(newSector) ELSE arrived

-----------------------------------------------------------------------------
(* Requests.                                                               *)

\* ReadSector and WriteSector, with ReadRequest and WriteRequest, up to the P or
\* through it when a signal is there.
Access(t, newSector, writing) ==
  /\ ~aborted /\ pc[t] = "Idle" /\ totalTicks <= MaxTicks
  /\ ~active
  /\ active' = TRUE
  /\ due' = totalTicks + ComputeLatency(newSector, writing)
  /\ UpdateLast(newSector)
  /\ request' = [sector |-> newSector, writing |-> writing, start |-> totalTicks]
  /\ IF semaphore > 0 THEN semaphore' = semaphore - 1 /\ UNCHANGED pc
     ELSE pc' = [pc EXCEPT ![t] = "P"] /\ UNCHANGED semaphore
  /\ UNCHANGED <<totalTicks, aborted>>

\* ASSERT(!active), "only one request at a time"
AccessAborts(t) ==
  /\ ~aborted /\ pc[t] = "Idle" /\ totalTicks <= MaxTicks
  /\ active
  /\ aborted' = TRUE
  /\ UNCHANGED <<totalTicks, lastSector, bufferInit, active, due, semaphore, pc,
                 request, arrived>>

\* Mutant: the disk is free, and nobody is told.
HandleInterruptSilent ==
  /\ ~aborted /\ active /\ totalTicks >= due
  /\ active' = FALSE
  /\ UNCHANGED <<totalTicks, lastSector, bufferInit, due, semaphore, pc, aborted,
                 request, arrived>>

\* SynchDisk::RequestDone
RequestDone == semaphore' = semaphore + 1

HandleInterrupt ==
  /\ ~aborted /\ active /\ totalTicks >= due
  /\ active' = FALSE
  /\ RequestDone
  /\ UNCHANGED <<totalTicks, lastSector, bufferInit, due, pc, aborted, request, arrived>>

\* A thread that was woken finds the semaphore positive and returns.
P(t) ==
  /\ ~aborted /\ pc[t] = "P" /\ semaphore > 0
  /\ semaphore' = semaphore - 1
  /\ pc' = [pc EXCEPT ![t] = "Idle"]
  /\ UNCHANGED <<totalTicks, lastSector, bufferInit, active, due, aborted, request,
                 arrived>>

\* The clock does not go on past an interrupt that is due.
OneTick ==
  /\ ~aborted
  /\ IF active THEN totalTicks < due ELSE totalTicks < MaxTicks
  /\ \E n \in TickLength : totalTicks' = totalTicks + n
  /\ UNCHANGED <<lastSector, bufferInit, active, due, semaphore, pc, aborted, request,
                 arrived>>

Next ==
  \/ \E t \in Thread, s \in Sector, writing \in BOOLEAN : Access(t, s, writing)
  \/ \E t \in Thread : AccessAborts(t) \/ P(t)
  \/ HandleInterrupt
  \/ OneTick

Spec == Init /\ [][Next]_vars

-----------------------------------------------------------------------------
(* Properties.                                                             *)

TypeOK ==
  /\ {totalTicks, bufferInit, due, semaphore, arrived} \subseteq Nat
  /\ lastSector \in Sector
  /\ {active, aborted} \subseteq BOOLEAN
  /\ pc \in [Thread -> {"Idle", "P"}]
  /\ request \in [sector : Sector, writing : BOOLEAN, start : Nat]

\* The whole of a sector, its place on the track given, passes under the head in
\* the time from one tick to another.
Passes(s, from, to) ==
  \E n \in 0..(to \div RotationTime) :
    /\ n % SectorsPerTrack = s % SectorsPerTrack
    /\ from <= n * RotationTime /\ (n + 1) * RotationTime <= to

\* The interrupt of a request comes when the disk has done it, and no turn later:
\* since the request, or for a read since the head came to the track and the track
\* buffer began to fill, the whole sector has passed under the head; and it has
\* not passed before since the request.  So the seek, the rounding to the next
\* sector and the arithmetic on the track buffer agree with the moving disk.
TransfersTheSector ==
  active =>
    LET ready == IF request.start > arrived THEN request.start ELSE arrived
    IN  /\ Passes(request.sector, IF request.writing THEN ready ELSE arrived, due)
        /\ ~Passes(request.sector, ready, due - 1)

\* As many threads sleep in SynchDisk as there are requests under way and signals
\* not yet taken, although nothing keeps a thread from taking the signal of
\* another one: none sleeps without an interrupt to come.
SignalsMatch ==
  /\ TypeOK
  /\ semaphore + (IF active THEN 1 ELSE 0) = Cardinality({t \in Thread : pc[t] = "P"})

=============================================================================
