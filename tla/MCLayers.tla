------------------------------ MODULE MCLayers ------------------------------
(***************************************************************************)
(* The layers below the threads, one at a time: the interrupt hardware,    *)
(* the disk, List, BitMap, SWITCH, the tools for object files and the two  *)
(* stacks of the C++ examples.  The variable part says which of them runs; *)
(* the others keep their initial states, the machine of Interrupts halted. *)
(*                                                                         *)
(* Interrupts: the console and a disk beside the timer, with times that    *)
(* coincide, overtake each other and fall between two ticks.  Disk: three  *)
(* tracks of three sectors, a seek that does not end where a sector        *)
(* begins, a clock that advances by one or two ticks, so that an interrupt *)
(* may be late and requests come at every phase of a rotation.  List: up   *)
(* to three elements and three keys.  BitMap: three words, the last one    *)
(* half used.  Switch: the main thread and two forked ones.                *)
(***************************************************************************)
EXTENDS Interrupts

CONSTANTS NULL, thread1, thread2, a1, a2, a3

VARIABLES
  part,
  totalTicks, lastSector, bufferInit, active, due, semaphore, waiting, aborted,
  request, arrived,
  list,
  map, file, result,
  array, stackList, popped,
  cpu, codeAt, stack, machineState, eax_save, forked, finished,
  coff, tool, sectionNo, noffH, inNoffFile, top, out, status

MCPolled == {"ConsoleReadInt"}
MCOneShot == {"ConsoleWriteInt", "DiskInt"}
MCDeviceTime ==
  [d \in MCPolled \cup MCOneShot |-> IF d = "DiskInt" THEN {1, 5} ELSE {3}]

D == INSTANCE Disk WITH
       Thread <- {thread1, thread2}, SectorsPerTrack <- 3, NumTracks <- 3, RotationTime <- 3,
       SeekTime <- 4, TickLength <- {1, 2}, MaxTicks <- 20, pc <- waiting

L == INSTANCE LinkedList WITH Address <- {a1, a2, a3}, Item <- {1, 2}, Key <- {0, 1, 2}

B == INSTANCE BitMap WITH numBits <- 5, BitsInWord <- 2

S == INSTANCE Stacks WITH
       size <- 3, Value <- {1, 2}, Address <- {a1, a2, a3}, list <- stackList

W == INSTANCE Switch WITH
       Thread <- {"main", "t1", "t2"}, main <- "main", StackSize <- 16, pc <- codeAt

\* Object files as test/script links them, with sections of any size or none, in
\* some of them with gaps, too few bytes, a wrong magic number or another section.
Section(name, addr, size, bytes) ==
  [name |-> name, paddr |-> addr, size |-> size,
   data |-> [k \in 1..bytes |-> (10 * addr) + k]]

Linker(good, text, rdata, data, sbss, bss, gap, missing, more) ==
  [f_magic |-> good, magic |-> TRUE,
   sections |-> <<Section(".text", 0, text, Max({0, text - missing})),
                  Section(".rdata", text, rdata, rdata),
                  Section(".data", text + rdata + gap, data, Max({0, data - missing})),
                  Section(".sbss", text + rdata + gap + data, sbss, 0),
                  Section(".bss", text + rdata + gap + data + sbss + gap, bss, 0)>> \o more]

MCCoff ==
  {Linker(TRUE, text, rdata, data, sbss, bss, gap, 0, <<>>) :
     text \in {0, 2}, rdata \in 0..1, data \in 0..2, sbss \in 0..1, bss \in {0, 2},
     gap \in 0..1}
  \cup {Linker(good, text, 0, 2, 0, 0, 0, missing, more) :
     good \in BOOLEAN, text \in {0, 2}, missing \in 0..1,
     more \in {<<>>, <<Section(".lit8", 4, 1, 1)>>}}

O == INSTANCE ObjectFiles WITH
       Coff <- MCCoff, Address <- 0..15, HeaderSize <- 3, StackSize <- 5, i <- sectionNo,
       PageSize <- 4, UserStackSize <- 2

diskVars == <<totalTicks, lastSector, bufferInit, active, due, semaphore, waiting, aborted,
              request, arrived>>
mapVars == <<map, file, result>>
stackVars == <<array, stackList, popped>>
switchVars == <<cpu, codeAt, stack, machineState, eax_save, forked, finished>>
fileVars == <<coff, tool, sectionNo, noffH, inNoffFile, top, out, status>>
allVars == <<part, vars, diskVars, list, mapVars, stackVars, switchVars, fileVars>>

LayersInit ==
  /\ part \in {"Interrupts", "Disk", "List", "BitMap", "Stacks", "Switch", "ObjectFiles"}
  /\ \/ part = "Interrupts" /\ Init
     \/ /\ part # "Interrupts"
        /\ pending = <<>> /\ yieldOnReturn = FALSE /\ pc = "Halted" /\ ready = FALSE
  /\ D!Init /\ L!Init /\ B!Init /\ S!Init /\ W!Init /\ O!Init
  /\ part # "BitMap" => \A w \in DOMAIN map : map[w] = 0
  /\ part # "ObjectFiles" =>
       coff = Linker(TRUE, 0, 0, 0, 0, 0, 0, 0, <<>>) /\ tool = "coff2noff"

LayersNext ==
  \/ /\ part = "Interrupts" /\ Next
     /\ UNCHANGED <<part, diskVars, list, mapVars, stackVars, switchVars, fileVars>>
  \/ /\ part = "Disk" /\ D!Next
     /\ UNCHANGED <<part, vars, list, mapVars, stackVars, switchVars, fileVars>>
  \/ /\ part = "List" /\ L!Next
     /\ UNCHANGED <<part, vars, diskVars, mapVars, stackVars, switchVars, fileVars>>
  \/ /\ part = "BitMap" /\ B!Next
     /\ UNCHANGED <<part, vars, diskVars, list, stackVars, switchVars, fileVars>>
  \/ /\ part = "Stacks" /\ S!Next
     /\ UNCHANGED <<part, vars, diskVars, list, mapVars, switchVars, fileVars>>
  \/ /\ part = "Switch" /\ W!Next
     /\ UNCHANGED <<part, vars, diskVars, list, mapVars, stackVars, fileVars>>
  \/ /\ part = "ObjectFiles" /\ O!Next
     /\ UNCHANGED <<part, vars, diskVars, list, mapVars, stackVars, switchVars>>

\* Fairness is that of Interrupts.
LayersSpec == LayersInit /\ [][LayersNext]_allVars /\ WF_vars(Run)

\* Disk: the interrupt comes when the disk has done the request, see there; and
\* SynchDisk lets no thread sleep without an interrupt to come.
TransfersTheSector == part = "Disk" => D!TransfersTheSector /\ D!SignalsMatch

\* List: the cells behave as the sequence of ListSpec.
ImplementsSequence == L!ImplementsSequence

\* BitMap: the words behave as the set of BitMapSpec.
ImplementsSet == B!ImplementsSet

\* Stacks: an ArrayStack and a ListStack cannot be told apart.
StacksAgree == part = "Stacks" => S!StacksAgree

\* Switch: a thread goes on as it was, and a new one starts as it was forked.
SwitchKeepsThreads == part = "Switch" => W!SwitchKeepsThreads

\* ObjectFiles: a converted program is in memory what was linked.
LoadedAsLinked == part = "ObjectFiles" => O!LoadedAsLinked

=============================================================================
