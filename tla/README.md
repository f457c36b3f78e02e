# Nachos: models, checks and proofs

TLA+ specifications of the Nachos 3.4 kernel in `src/nachos/nachos-3.4/code`,
with TLC configurations and TLAPS proofs. Paths below are relative to that
directory. `PROJECT.json` lists components, runs, mutants, hazards, findings and
theorems, and maps every definition to the lines it models.

## The system

Nachos is a uniprocessor kernel that runs on a simulated machine, all in one
UNIX process.

| Part | State | Operations |
|---|---|---|
| Interrupt hardware (`machine/interrupt.cc`, `timer.cc`, sorted `List`) | clock, sorted list of pending interrupts, level, `yieldOnReturn` | `OneTick`, `CheckIfDue`, `Idle`, `Schedule`, `SetLevel`, timer handler |
| Threads (`threads/thread.cc`, `scheduler.cc`, `synch.cc`) | ready list, thread status, `threadToBeDestroyed`, semaphore values and queues | `Fork`, `Yield`, `Sleep`, `Finish`, `Run`, `P`, `V` |
| Processes (`userprog/table.cc`, `pcb.cc`) | slot bitmap, PCBs with three semaphores each | Exec, Join, Exit, Halt |
| User semaphores (`STable`) | ten named semaphores | CreateSemaphore, Up, Down |
| Console (`machine/console.cc`, `threads/synchcons.cc`) | one-character buffers, line locks | `Read`, `Write`, two interrupt handlers |
| Memory (`userprog/addrspace.cc`, `bitmap.cc`, `machine/translate.cc`) | physical page bitmap, page tables | loading, `Translate`, context switch |
| File system (`filesys/`) | directory, free map, headers, sectors | Create, Open, Remove, `ReadAt`, `WriteAt` |
| Disk (`machine/disk.cc`, `filesys/synchdisk.cc`) | `active`, head position | requests and their interrupt |
| Network (`machine/network.cc`, `network/post.cc`) | mailboxes, one packet buffer | send, receive, delivery thread |
| CPU (`machine/mipssim.cc`) | registers, program counters, a load under way | `OneInstruction` |
| System calls (`userprog/exception.cc`) | registers, open-file table | one handler per call |
| Files of the userprog build (`filesys.h`, `openfile.h` with FILESYS_STUB, `sysdep.cc`) | open-file table, UNIX descriptors | Create, Open, Close, Read, Write, WriteF2File, ReadFileFormat |
| Building blocks (`threads/list.cc`, `userprog/bitmap.cc`, `threads/switch.s`) | cells, words, stacks and registers | every operation |
| Tools (`bin/coff2noff.c`, `coff2flat.c`, `main.c`, `execute.c`) | the file being converted; the interpreter's CPU | conversion, loading, `runprogram` |
| C++ examples (`../c++example/inheritstack.cc`) | an array stack and a list stack | Push, Pop |

How they interact. The CPU runs one thread. Time passes only in
`Interrupt::OneTick`, that is after a user instruction and whenever interrupts
are turned back on, so after every completed `P`, `V`, `Yield` and `Fork`. Only
there can an interrupt handler run or, with the `-rs` timer, another thread get
the CPU. Everything between two ticks is atomic. Every other part is built on
semaphores. `Lock` is empty and `Condition::Wait` is `ASSERT(FALSE)`
(`threads/synch.cc:105-119`), so the parts that use them (SynchDisk, SynchList,
PostOffice, the loader) are protected by the tick discipline only.

What is hard here: preemption between two operations of one system call; wakeups
racing with other callers of `P`; slots and process IDs that are used again while
somebody remembers them; objects deleted while somebody is inside them;
interrupts that come in the same tick; a thread deleted by whoever runs next.

## Modules

Build order is bottom-up: each layer uses what the one below has been shown to
promise.

| Module | What it models |
|---|---|
| `Interrupts` | clock, pending list, timer, idle loop |
| `Threads` | threads, scheduler, semaphores, carcass deletion |
| `CountingSemaphore` | abstract: what `P` and `V` promise |
| `ProcessTable` | PTable, PCB, Exec, Join, Exit, Halt |
| `SynchConsole` | console device and SynchConsole |
| `SysCalls` | STable, the calls for numbers, characters and strings, and how programs end |
| `AddressSpaces` | loading, frames, translation, hand-over at a switch |
| `MipsSim` | one instruction of the simulated CPU |
| `FileSystem` | free map, directory, headers, open files, system calls on files |
| `FileStore` | abstract: independent named files |
| `Disk` | disk requests, their latency, SynchDisk |
| `PostOffice` | network device, postal worker, mailboxes |
| `StubFileSystem` | file calls of the userprog build over UNIX files |
| `LinkedList`, `ListSpec` | List as cells and pointers; abstract: a sequence |
| `BitMap`, `BitMapSpec` | BitMap as words; abstract: a set |
| `Switch` | SWITCH, ThreadRoot and StackAllocate on the i386 |
| `ObjectFiles` | coff2noff, coff2flat, the loaders of Nachos and of the interpreter |
| `Interpreter` | `runprogram` of `bin/`, beside `MipsSim` |
| `Stacks` | the two stacks of the C++ examples |
| `ThreadsProofs`, `ProcessTableProofs`, `SynchConsoleProofs`, `AddressSpacesProofs`, `PostOfficeProofs` | TLAPS proofs about the module each is named after |
| `MC*` | constants for TLC; `MCLayers` and `MCSysCalls` also put modules side by side |

A definition whose comment says "Mutant" or "Mutation of" is a wrong version of
the definition that follows. No specification uses it. Replacing the right one
by it makes TLC report the property it is listed with.

**Interrupts.** Times are kept relative to the clock, so behaviours are infinite
and states finite. `pc` says whether thread code runs with interrupts on or off,
or the CPU is in `OneTick`'s loop or in `Idle`. `CheckIfDue` is split by its
outcome: `Fire`, `EndTick`, `Advance`, `FireIdle`, `EndIdle`, `Halt`. Taking the
first interrupt off the list and inserting it again when it is not due is modelled
(`PutBack`): it moves the interrupt behind others of the same time. `Yield` from
`OneTick` leads to "Off", since the thread switched to is inside the kernel and
turns interrupts on itself. A handler is atomic: it runs with interrupts off, and
`SetLevel` asserts that it does not turn them on. Whether a device's handler wakes
a thread is left open. `TypeOK` also requires the list to be in order of time and
to hold one interrupt per device, which the busy flags of the devices are for.

**Threads.** One action is what a thread executes from one tick to the next, or
to the `SWITCH` in `Scheduler::Run`. `pc` says where a thread resumes: its own
code, `ThreadRoot`, or inside `Yield`, `P` or `Finish`. The tail of `Run`, which
deletes the carcass, is part of `ResumeP` and `ResumeYield` and not of
`StartThread`: a new thread starts in `ThreadRoot` and does not execute it. What
the threads do is open, every operation may follow every other. `Interrupt(s)` is
a device handler's `V`, from `OneTick` or from the idle loop. A thread object may
be allocated again after its delete.

**CountingSemaphore.** `value` and, for each semaphore, the set of threads inside
`P`. A thread leaves `P` by taking a unit. `Threads` implements it with `waiting`
mapped to the threads whose `pc` is "P". `ProcessTable` and `SynchConsole` use
semaphores of this kind: a `P` is a step enabled when the value is positive.

**ProcessTable.** A process is the thread that runs it. Each system call is cut
at every `P`, `V` and `Fork`. Steps that follow a `V` without touching shared state
are joined to it. `pcb[i] = NULL` also stands for the dangling pointer that
`Remove` leaves. A process asleep in a deleted semaphore is "Lost". Exit returns
to the program, as in the code: nothing finishes the thread. `EndsAtExit = TRUE`
restricts programs to those whose last call is Exit; what follows for them is the
stub of Halt behind `jal Exit` in `test/start.s`, or nothing. With `FALSE` they
call on, as `test/sort.c` does, where Exit is called explicitly and again by
`start.s`. In that mode a process can meet a PCB that someone else deleted in
more places than `ExecUnlock` models; only the run `processes_remove` uses it, to
show the first such deletion. `numwait` is counted and never read, and left out.
The address space MyStartProcess builds is not modelled.

**SynchConsole.** The fields of Console, the values of SynchConsole's four
semaphores, and for each thread its call, its `numBytes` and how far it has got.
`EOF` stands for an empty buffer and for a typed byte that a `char` cannot tell
from it. `keyboard`, `taken` and `display` record what went in and out. The
contents of a Write and the value Read returns are left out.

**SysCalls.** Each process has a program, a list of sets of calls: it makes one call
of each set. `Exec`, `Join` and `Exit` are those of `ProcessTable` for one parent, its
children and exit code 0, with the stages of a child in `life`; `Exit` returns to the
program, and Halt stops everything. `WriteInt2File` is modelled with its file id: on the console, id 1, the
number is taken for the address of a string (`Memory`), and one that is no address ends
the machine; other ids lead to a type in `OpenFileList`, or to a refusal; and `Room` says
how much a Write takes, which in a file of the Nachos disk may be less than all. The
contents of files are those of `StubFileSystem` and `FileSystem`. `CreateSemaphore`, `Up` and `Down` work on `semTab`; Down is cut before
its `P`. A character is its code less 48, a number has `Width` bits and `Digits`
digits, so the loops of `PrintInt`, `WriteInt2File` and `ReadInt` are operators on
short sequences. A `SynchConsole::Read` or Write is one step, which `LinesAreWhole`
justifies; `PrintString` makes one Write per character. The fields `init`, `ups`
and `downs` of a semaphore and the variable `done`, the last call with its input,
output and result, are history. `PrintInt` of a negative number is as in the code:
-12 is shown as `0-2`. `Semaphore::P` waits while the value is 0, so a semaphore
created with a negative count never makes anyone wait.

**AddressSpaces.** Both constructors of AddrSpace: the test for memory, the choice
of frames and the clearing are one step, and each `ReadAt` of the copying is one,
since it may sleep. `Run` saves and restores user registers and page table,
`Translate` and `WriteMem` go through the machine's page table. A byte is the
place in the file it comes from, a mark of its writer, or zero. Data is behind the
code, as `test/Makefile` links it. Frames are never released, in the code either.
A program without memory stops at its first instruction, and the machine with it.
The TLB is left out: only `vm` is built with one, and nothing there fills it.

**MipsSim.** A word has `Width` bits, and bytes, immediate operands, shift counts
and jump regions are scaled with it. An instruction is given decoded, code is not
data. `OneInstruction` is one step with fetch, execution, delayed load and, for
SYSCALL, the handler's `IncPCReg`. `settled` is the same machine with every load
applied at once, kept as history; `careful` says that the program so far has left
the registers alone whose load was under way. OR (of `rs` with itself) and the logical
right shifts (which bring in the sign) are modelled as the code has them.

**FileSystem.** A step ends with the write of one sector, so the states between two
steps are the disks that a stop leaves behind. Free map and directory have one
sector each. Names are compared only, and `Text` holds what is written. Sectors
that are free and entries that are not in use are given one value, as nothing reads
them. The phases of a run are the constructor with its console files, main's
commands, then programs. There is one caller at a time, as `filesys.cc:185` says.
`Restart` comes between operations: what Nachos does with a disk left by a stop in
the middle of one is not promised (`filesys.cc:38-40`).

**FileStore.** A function from names to contents; a step creates, removes or changes
one file. `FileSystem` implements it with the contents found through directory and
headers on the disk.

**Disk.** A request of SynchDisk computes when its interrupt comes, from the clock,
the head and the track buffer, and sleeps in `P`. `Lock` does nothing, so a second
request may meet an active disk, which ends the machine (`AccessAborts`), or take the
signal meant for the first. `arrived` and `request` are history. The clock advances
by one or two ticks, and not past an interrupt that is due. The data moves at the
request, as in the code, and is `FileSystem`'s.

**StubFileSystem.** The kernel does not give up the CPU in these calls, so each is
one step and it does not matter which process makes it. UNIX gives out its lowest
free descriptor. `FileSystem::Create` calls `Close(fileDescriptor)`, which inside the
class is `FileSystem::Close(int id)`: it is modelled so, with the descriptor left open
and the place of that number closed (finding `stub_create`). A character is NUL, a
digit, a space, a newline or another one. `ReadFileFormat` may never return ("Hung").
Nachos may end ("Aborted") when `ReadFileFormat` runs past its arrays, when Create finds
no descriptor or one beyond the table, and when Read is given the console, whose size is
never set. Remove has no system call.

**LinkedList, ListSpec.** The cells of a List by address, `first` and `last`, with
Append, Prepend, Remove, SortedInsert and SortedRemove as the code moves pointers.
`ImplementsSequence` maps the cells reached from `first` to a sequence. The other
modules take a List for that sequence.

**BitMap, BitMapSpec.** The words of the map, with the last one partly used, and the
copy in a file. `ImplementsSet` maps them to the set of marked bits and the result of
each call, which is what `ProcessTable`, `AddressSpaces` and `FileSystem` use.

**Switch.** The instructions of SWITCH and ThreadRoot, grouped between two points
where control leaves them, on registers and stacks of words. Code of the kernel and
of a thread's procedure is one step that may change every register the calling
convention lets it change, and that convention is external. SWITCH restores the program
counter to `4(%esp)`, the place of its first argument, while `ret` takes the word at
`0(%esp)`; the model follows that.

**ObjectFiles.** A COFF file is two magic numbers, right or wrong, and its sections.
`coff2noff` and `coff2flat` take one section per step, with their error exits. The
test of `coff2noff.c:204-209` refuses `.bss` and `.sbss` when they are contiguous, the
opposite of its comment ("make sure they are contiguous"), and is modelled as it stands:
with a gap between them the size in the header is too small by the gap. The loaders are
operators on the result: `LoadNoff` for AddrSpace(OpenFile *), which reads both segments
to their addresses, `LoadExec` for AddrSpace(char *), which puts the data behind the code
whatever its address, and `load_program` of the interpreter. The first two fill the space
that the sizes in the header make. Frames are in order; `AddressSpaces` has other ones
and the page arithmetic.

**Interpreter.** `runprogram` executes the same decoded instruction as `MipsSim` in the
same step. `alike` says that the program so far used only what both know and left
registers alone whose load was under way. System calls end the comparison.

**Stacks.** ArrayStack and ListStack get the same calls; a call that trips an ASSERT
is not made. `stack.cc` and `templatestack.cc` are the same array stack twice more.

**PostOffice.** Machines with sockets that keep the order of packets. Send, the two
interrupts, the worker before and after its `P`, and taking mail are actions. A
message is its sender, its box and a number. A packet may be lost on its way out.
The locks do nothing, so two Sends may be under way. Taking mail from an empty box
ends the machine, since `Condition::Wait` is `ASSERT(FALSE)`, and so does sending to a
machine that is gone. A machine that has ended has its state reset.

## Runs

| Run | Instance | States | Result |
|---|---|---|---|
| `threads` | 4 threads, a lock, a device semaphore | 144 768 | passes |
| `processes` | 3 processes, 3 slots, exit codes 0 and 1 | 12 848 | passes |
| `console` | 2 threads, 3 calls of up to 2 bytes, 3 characters typed | 383 726 | passes |
| `syscalls` | PingPong, Ping and Pong with two rounds, beside two calls of any kind; or any calls on files, 4 places and 9 descriptors | 541 199 | passes |
| `memory` | 3 processes, 6 programs, 7 frames of 4 bytes | 550 391 | passes |
| `mips` | 8-bit words, two instructions, 100 pairs of operands, on both simulators | 811 466 | passes |
| `filesystem` | 11 sectors of 2 bytes, 3 entries, 3 names, symmetry of two of them | 485 290 | passes |
| `network` | 2 machines with 2 clients each, 3 messages | 49 586 | passes |
| `layers` | seven modules, one at a time (below) | 83 213 | passes |
| `threads_carcass` | as `threads`, 3 threads | | violated |
| `processes_remove` | 4 processes | | violated |
| `stub_create` | 2 names, 4 places, 9 descriptors | | violated |

What the passing runs show.

- `threads`: no thread is lost or listed twice; only finished threads that
  nothing refers to are deleted; no wakeup is lost; the machine idles only when
  nobody could run; P and V implement the fair counting semaphore; every ready
  thread runs.
- `processes`: a marked slot has exactly one owner, so process IDs differ and no slot
  is lost; Join reads the exit code of a child that is held in Exit; a joined child
  that exits with 0 gets out.
- `console`: `PutChar` never finds the display busy; a Write's and a Read's
  characters are not mixed with others'; input arrives once and in order; nobody
  waits for ever for the display or for a character that is there.
- `syscalls`: a Down is paid for by the initial value or an Up; Ping and Pong
  alternate whatever a third program does to the table, and the machine halts when
  Ping is through all its rounds and Pong through all but perhaps the last
  (`RoundsFinish`): Exit returns, and the program that gets out of it first runs into
  the stub of Halt, while Pong may still be before its last line. Numbers that
  are not negative are printed right, and written to a file right unless the answer
  says otherwise; `ReadInt` reads what was typed. For the
  calls on files: a number of the table leads to the file it was given for, and to
  a descriptor no other number has.
- `memory`: a frame belongs to one page of one process and none is lost; a program
  finds its code, data, zeroes and own writes; the machine's registers and page
  table are those of the program that runs.
- `mips`: a careful program cannot tell delayed loads from immediate ones, and runs
  the same in Machine and in the interpreter; sums, products, quotients and shifts
  are exact, but for OR, SRL and SRLV.
- `filesystem`: at every write files are apart, the map is wrong about the file in
  progress at most, and open files have current headers (`FilesAreApart`,
  `MapIsExact`); contents read back; the disk implements `FileStore`.
- `network`: the buffer holds a packet exactly when its signal is out; mail keeps
  its order and is not doubled; packets that arrive are delivered and Send returns
  unless the machine stops.
- `layers`, one module at a time, chosen by `part`:
  - Interrupts: none is later than one tick, code with interrupts on never runs past
    a due one, and a time slice is taken at once while one asked for when idle is
    dropped (`InterruptsArePrompt`); once a polled device is started the machine never
    halts by idling; devices answer and time slices go on (`InterruptsCome`).
  - Disk: the interrupt comes when the whole sector has passed under the head since
    the request, or since the track buffer began to fill, and no turn later; nobody
    sleeps without an interrupt to come (`TransfersTheSector`).
  - List is a sequence and BitMap a set, whatever the order of calls.
  - Switch: a thread goes on with its own stack and registers, a new one calls its
    own procedure with its own argument and then Finish.
  - ObjectFiles: a converted program is in memory what was linked, for the program of the
    command line and for the interpreter; if its sections are adjacent, as `test/script`
    links them, also for Exec's loader and in the flat file, and the space has room for it
    and the stack.
  - Stacks: the two stacks cannot be told apart.

What the violated ones show. Each states what a comment or document says.

- `threads_carcass`: of two threads that finish with only a new thread dispatched
  in between, the first is never deleted.
- `processes_remove`: a second Exit removes the process that has got the slot.
- `stub_create`: Create of one file closes another that is open, since it passes a
  UNIX descriptor to a Close that takes a number of the table (`filesys.h:72`).

Bounds. Four threads are a sleeper, a waker, one that overtakes and one that has
finished; a semaphore value of 2 lets two wakeups be under way. Three processes
are a parent with two children or a chain of three; four are used where a slot
must be given to a stranger. Three slots leave the table full with three
processes. Two-byte calls and three of them interleave two writers and a
reader. Device times 1, 3 and 5 and a timer of 1 to 6 ticks, with ticks of 1 and
2, make interrupts coincide, overtake and fall between ticks. Two rounds let each
of Ping and Pong find its semaphore at 0 and at 1; the third program makes a semaphore or
reads a line, then makes one call of any kind; the numbers and lines of
`syscalls` are the smallest, the largest, 0, one digit, a line as long as the buffer
and one that does not fit. Seven frames hold two programs and not always a third;
program sizes end within a page and with it. Operands of `mips` lie around every
boundary of the word, and pairs of instructions are what a delay slot needs. Two
sectors are left on the disk of `filesystem` once the console files exist, so that it
fills up; two-byte sectors and three-byte files make Writes unaligned at either end.
Three messages in `network` are two from one machine, which could be swapped, and one
the other way. Three tracks allow seeks of every length from either side, and a seek
of 4 ticks with sectors of 3 ends at every phase of a sector. Three cells and three
keys give a list with ties and insertion at either end and in the middle. Five bits in
words of two leave a half-used word. Three threads let SWITCH come back to a thread
after two others. Object files have sections of every size from 0 to 2 of which any may
be empty, with and without gaps, short data, a wrong magic number and an unknown
section. Four places and nine descriptors let a descriptor be equal to a place.
`MaxValue`, `MaxBytes`, `MaxCalls`, `MaxTyped`, `MaxWrites`, `MaxSteps`, `MaxSends`,
`MaxTicks` and `MaxLength` only stop counters.

Deadlock is checked except in `syscalls`, `stub_create` and `mips`, where programs end,
and `network` and `layers`, where machines and tools do. Elsewhere a halted machine stutters (`Halted`), and so
does one that waits for input (`Idle` of ProcessTable, `PollNothing`), as the
console's poll keeps the clock going.

Fairness.

- `Interrupts` (in `layers`): weak fairness of `Run`: code with interrupts on executes its next
  instruction and kernel code turns them on again or sleeps.
- `Threads`: weak fairness of the steps the kernel takes by itself, strong
  fairness of `Yield`. The latter is the `-rs` timer: its next interrupt comes at
  random within 200 ticks, so it cannot miss a thread for ever. `SlicesGoOn` of
  `Interrupts` shows that the interrupts never cease. Without `-rs` neither holds
  and no liveness is claimed.
- `ProcessTable`, `SynchConsole`: weak fairness of each thread's steps inside the
  kernel, which is `ReadyRuns` and `ImplementsFairSemaphore` of `Threads`, and of
  the display's interrupt, which is `DeviceAnswers` of `Interrupts`. A `P` of
  several competing threads is weakly fair only, as the code overtakes.
- `SysCalls`: weak fairness of each process, the same way: a Down that stays
  possible happens.
- `PostOffice`: weak fairness of the network's two interrupts, of the postal worker
  and of the end of a Send. Clients need not send, nor take their mail. Weak fairness of
  each Send is enough because `MaxSends` bounds the messages: without a bound a sender
  could be overtaken at `messageSent` for ever.

## Proofs

The theorems hold for every value of the constants that the named ASSUME of the
component's module allows.

| Module | Theorem | Property |
|---|---|---|
| `ThreadsProofs` | `TypeCorrect` | `TypeOK` |
| | `ThreadsKeepTheirPlace` | `NoThreadLost` |
| | `DeletesDeadThreads` | `CarcassIsDead` |
| | `NoWakeupIsLost` | `NoLostWakeup` |
| | `IdlesOnlyWhenStuck` | `IdleOnlyWhenStuck` |
| | `SemaphoreRefinement` | `ImplementsSemaphore`, that is `CountingSemaphore!Spec` |
| `ProcessTableProofs` | `SlotsHaveOneOwner` | `SlotsAreOwned` |
| | `JoinReadsTheChild` | `JoinHandshake` |
| `SynchConsoleProofs` | `PutCharFindsDisplayIdle` | `DisplayIsFree` |
| | `CallsAreNotMixed` | `LinesAreWhole` |
| `AddressSpacesProofs` | `ProgramsFindTheirMachine` | `MachineIsOwn` |
| `PostOfficeProofs` | `WorkerFindsPacket` | `PacketIsSignalled` |

**Threads**, for every finite set of threads and every set of semaphores
(`ThreadsAssumption`, `FiniteThreads`). The inductive invariant is `IInv`: the types, `NoThreadLost`, `NoLostWakeup`, and
two facts the properties leave out. `InsideP` says that a thread is inside a `P`
exactly when it has a semaphore. `Carcass` says that the thread to be destroyed is
blocked in Finish and is the current one only while the CPU idles; with
`NoThreadLost` it gives `CarcassIsDead`. `NoLostWakeup` needs the counting of
`Woken(s)`: `V` adds a unit and a woken thread together, `P` takes a unit, and a
woken thread that finds 0 leaves the set when it goes back to the queue. There is
one lemma per action, with `TryPStep`, `SemaphoreVStep` and `SleepStep` shared by
the actions that contain them, and lemmas on lists (`AppendList`, `RemoveFirst`)
after which sequences are not looked into. The refinement maps `P` and `ResumeP`
to Take, Wait, Leave or a stutter, `V` and `Interrupt` to Signal, all else to
stutters.

`SemaphoreRefinement` is the safety part of `ImplementsFairSemaphore`, which the run
`threads` checks.

**ProcessTable**, for any processes, table size and exit codes
(`ProcessTableAssumption`), and under `EndsAtExit`: without it both properties are
false, as `processes_remove` shows. `IInv` adds to the types: `Lock`, bmsem is held by
at most one Exec between its `P` and `V`; `Owners`, `SlotsAreOwned` said with
quantifiers, from which the counts follow at the end; `Mutexes`, the mutex of a new PCB
is taken until `ExecUnlock`; `PCBThreads`, a PCB leads to its process; and `Handshake`:
between JoinRelease and the return of ExitWait there is one token, which is `joinsem`,
then the parent that reads the exit code, then `exitsem`. The token is why the PCB is
there when JoinUpdate reads it: the only one who could remove it waits for the token.
Second Joins, which may sleep for ever, are covered. That `GetFreeSlot` finds a free
slot is `FreeSlot`, a minimum that exists because `<` is well-founded.

**SynchConsole**, for any threads, characters and lengths (`ConsoleAssumption`). `Locks`
says that a thread past the `P` of a line lock is alone there; `Display` that for the
thread waiting for the display either the interrupt is to come or its signal has been
given, never both; `Inside` and `Calls` keep the loop counters and the names of calls.
`Lines` is `LinesAreWhole` strengthened: a call that has its lock comes last in the
history, and one that waits for it does not occur. Lemmas on histories say what
appending one character does; after them sequences are not looked into.

**AddressSpaces**, for any processes, programs, page size and memory
(`AddressSpacesAssumption`). `Saved` says that a program that does not run has its
registers in its Thread; with it the two halves of `Scheduler::Run` give back what they
took.

**PostOffice**, for any machines, boxes and messages and finitely many clients
(`PostOfficeAssumption`). `Signal` is the property for one machine. `Answers` says that the
interrupts to come and the signals given are together as many as the clients that wait
in Send, which bounds the two counters; it needs the cardinality of the senders.

Every inductive invariant has been checked with TLC first. Only model-checked: all
liveness, the other properties of these modules and everything about the other ones.
`MipsSim`, `Interpreter` and `SysCalls` use recursive operators, for which tlapm has no
SMT backend.

## Not modelled, and the plan

1. FileSystem with two callers over SynchDisk: concurrent `WriteAt`, and the place in
   the open-file table that is chosen before `Open` sleeps.
2. The float calls, except WriteF2File: they hand host pointers to the program and
   format with the C library.
3. The system calls of the interpreter (`bin/system.c`), which pass the arguments on to
   UNIX.
4. Proofs: the order of the list and `LateByOneTick` of `Interrupts`; `FramesAreOwned`,
   where frames are chosen by their rank among the free ones; `MapIsExact` and the
   refinement of `FileSystem`; `SignalsMatch` of `Disk`. `InputInOrder` and `MailInOrder`
   speak of subsequences (`SelectSeq`), whose laws need induction over sequences.

Known and not stated as properties: under `-rs` a child can exit before its parent
leaves `PCB::Exec`, which then releases the mutex of a deleted PCB (`ExecUnlock`); a
second disk request may return with the first one's signal, before its own interrupt;
a program that returns from main halts the machine for all others;
`PrintInt` of a negative number loses its first digit; `WriteInt2File` of a negative number
writes nothing, and on the console takes its number for an address; coff2noff takes `.sbss`
and `.bss` only when they are not contiguous; a process that gets the slot of an exited parent
can join the orphan; a second Join can sleep on a semaphore that is deleted; Join
returns -1 and leaves the child waiting when the exit code is not 0; frames are not
released; `SC_Fork` forks the running thread itself; Read of the console in `SC_Read`
uses a size that is never set; `ReadFileFormat` leaves its loop only at a character that
is neither digit nor blank, and gives the program no data.

Left out for good: `Lock` and `Condition`, which are empty; the rest of host input and
output (`sysdep.cc`); the disassembler in `bin/` (`disasm.c`, `d.c`, `out.c`,
`opstrings.c`), which only formats; the command lines, debugging output and statistics;
SWITCH for other hosts than the i386; `stack.cc` and `templatestack.cc`, further copies of
the array stack; the programs in `test/` other than PingPong, Ping and Pong, which are
among the sequences of calls that `ProcessTable` and `SysCalls` allow.
