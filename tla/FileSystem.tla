----------------------------- MODULE FileSystem -----------------------------
(***************************************************************************)
(* The Nachos file system on the simulated disk (the FILESYS build):       *)
(* FileSystem, Directory, FileHeader, OpenFile and the table of open files *)
(* behind the system calls.                                                *)
(*                                                                         *)
(* The code assumes one caller at a time.  A step ends with the write of   *)
(* one sector: what is on the disk between two steps is what Nachos finds  *)
(* at its next start when it stops there.  The free map and the directory  *)
(* are files of one sector each.                                           *)
(*                                                                         *)
(* A run of Nachos starts with the constructor.  Then main carries out its *)
(* commands (Copy, Print, Remove, the performance test), and after them it *)
(* runs programs, which use the table of open files.                       *)
(***************************************************************************)
EXTENDS Integers, Sequences, FiniteSetsExt

CONSTANTS
  NumSectors, NumDirEntries, SectorSize,
  NumFiles,   \* length of openFileList
  Name,       \* the names that commands and programs use
  Size,       \* lengths of the files main creates, at most MaxFileSize
  Text,       \* the sequences of bytes that are written to files
  NULL

Sector == 0..(NumSectors - 1)
Offset == 0..(SectorSize - 1)
Entry == 0..(NumDirEntries - 1)
FileId == 2..(NumFiles - 1)

\* The OpenFile of Copy, Print or the performance test, which is not in the
\* table.
mainFile == -1
OpenFileId == {mainFile} \cup 0..(NumFiles - 1)

FileName == Name \cup {"stdin", "stdout"}

\* FreeMapSector, DirectorySector and the data sector of each.
SystemSectors == 0..3

\* A byte of memory or of the disk that nobody has written.
Garbage == "garbage"

ASSUME FileSystemAssumption ==
  /\ NumSectors \in Nat /\ NumSectors > 4
  /\ NumDirEntries \in Nat \ {0}
  /\ SectorSize \in Nat \ {0}
  /\ NumFiles \in Nat /\ NumFiles > 1
  /\ Size \subseteq Nat
  /\ \A from \in Text : \A i \in 1..Len(from) : from[i] # Garbage

VARIABLES
  freeMap,        \* on disk: the sectors marked
  directory,      \* on disk: the directory's table
  sector,         \* on disk: the other sectors, a FileHeader or bytes
  openFileList,
  phase,          \* of this run of Nachos
  op,             \* the operation in progress
  written         \* history: the bytes written to each file

vars == <<freeMap, directory, sector, openFileList, phase, op, written>>

NoOp == [kind |-> "None"]

-----------------------------------------------------------------------------
(* BitMap, Directory and FileHeader.                                       *)

\* What n calls of BitMap::Find return: the first clear bits.
FindAll(map, n) ==
  LET Rank(s) == Cardinality({r \in Sector \ map : r <= s})
  IN  [i \in 1..n |-> CHOOSE s \in Sector \ map : Rank(s) = i]

\* Directory::FindIndex
FindIndex(table, n) ==
  LET hits == {e \in Entry : table[e].inUse /\ table[e].name = n}
  IN  IF hits = {} THEN -1 ELSE Min(hits)

\* What an entry that is not in use holds is never read.
UnusedEntry == [inUse |-> FALSE, name |-> NULL, sector |-> 0]

Unused(table) == {e \in Entry : ~table[e].inUse}

\* Mutant: the last entry is taken.
AddLast(table, n, s) ==
  [table EXCEPT ![Max(Entry)] = [inUse |-> TRUE, name |-> n, sector |-> s]]

\* Directory::Add of a new name.
Add(table, n, s) ==
  [table EXCEPT ![Min(Unused(table))] =
     [inUse |-> TRUE, name |-> n, sector |-> s]]

divRoundUp(n, s) == (n \div s) + (IF n % s > 0 THEN 1 ELSE 0)

FileHeader(size, s) ==
  [kind |-> "FileHeader", numBytes |-> size, dataSectors |-> s]

Bytes(b) == [kind |-> "Bytes", byte |-> b]

\* What a sector holds that belongs to no file: nothing is promised of it.
Unwritten == Bytes([i \in Offset |-> Garbage])

DataSectors(hdr) == {hdr.dataSectors[i] : i \in 1..Len(hdr.dataSectors)}

\* FileHeader::ByteToSector
ByteToSector(hdr, k) == hdr.dataSectors[1 + (k \div SectorSize)]

\* Byte k of a file as the disk has it.
DiskByte(hdr, k) ==
  LET s == sector[ByteToSector(hdr, k)]
  IN  IF s.kind = "Bytes" THEN s.byte[k % SectorSize] ELSE Garbage

AllClosed == [f \in OpenFileId |-> NULL]

\* The first half of the constructor, with format.
Init ==
  /\ freeMap = SystemSectors
  /\ directory = [e \in Entry |-> UnusedEntry]
  /\ sector = [s \in Sector |-> Unwritten]
  /\ openFileList = AllClosed
  /\ phase = "stdin"
  /\ op = NoOp
  /\ written = [n \in FileName |-> <<>>]

-----------------------------------------------------------------------------
(* FileSystem::Create.  It fails, and writes nothing back, when the name   *)
(* exists or when a sector for the header, an entry, or a sector for the   *)
(* data is missing.                                                        *)

CanCreate(n, size) ==
  /\ FindIndex(directory, n) = -1
  /\ Unused(directory) # {}
  /\ Cardinality(Sector \ freeMap) >= 1 + divRoundUp(size, SectorSize)

\* Mutant: the sector of the header is not marked.
PreparedUnmarked(n, size) ==
  LET s == FindAll(freeMap, 1 + divRoundUp(size, SectorSize))
      hdr == FileHeader(size, Tail(s))
  IN  [kind |-> "Create", step |-> "Header", name |-> n, sector |-> s[1],
       hdr |-> hdr, table |-> Add(directory, n, s[1]),
       map |-> freeMap \cup DataSectors(hdr)]

\* Find, Add and Allocate, on copies of the map and of the directory.
Prepared(n, size) ==
  LET s == FindAll(freeMap, 1 + divRoundUp(size, SectorSize))
      hdr == FileHeader(size, Tail(s))
  IN  [kind |-> "Create", step |-> "Header", name |-> n, sector |-> s[1],
       hdr |-> hdr, table |-> Add(directory, n, s[1]),
       map |-> freeMap \cup {s[1]} \cup DataSectors(hdr)]

Create(n, size) ==
  /\ op = NoOp
  /\ CanCreate(n, size)
  /\ op' = Prepared(n, size)
  /\ UNCHANGED <<freeMap, directory, sector, openFileList, written>>

CreateHeader ==
  /\ op.kind = "Create" /\ op.step = "Header"
  /\ sector' = [sector EXCEPT ![op.sector] = op.hdr]
  /\ op' = [op EXCEPT !.step = "Directory"]
  /\ UNCHANGED <<freeMap, directory, openFileList, phase, written>>

CreateDirectory ==
  /\ op.kind = "Create" /\ op.step = "Directory"
  /\ directory' = op.table
  /\ written' = [written EXCEPT ![op.name] =
                   [k \in 0..(op.hdr.numBytes - 1) |-> Garbage]]
  /\ op' = [op EXCEPT !.step = "Map"]
  /\ UNCHANGED <<freeMap, sector, openFileList, phase>>

CreateMap ==
  /\ op.kind = "Create" /\ op.step = "Map"
  /\ freeMap' = op.map
  /\ op' = NoOp
  /\ UNCHANGED <<directory, sector, openFileList, phase, written>>

-----------------------------------------------------------------------------
(* The second half of the constructor, and the end of a run.               *)

\* An OpenFile on the file named n.
OpenFile(n, type) ==
  [name |-> n, hdr |-> sector[directory[FindIndex(directory, n)].sector],
   type |-> type, seekPosition |-> 0]

Opened(n, type) == IF FindIndex(directory, n) = -1 THEN NULL ELSE OpenFile(n, type)

\* Create("stdin", 2) and Create("stdout", 3), whose results are ignored.
CreateConsole ==
  /\ op = NoOp
  /\ \/ /\ phase = "stdin" /\ phase' = "stdout"
        /\ IF CanCreate("stdin", 2) THEN Create("stdin", 2)
           ELSE UNCHANGED <<freeMap, directory, sector, openFileList, op, written>>
     \/ /\ phase = "stdout" /\ phase' = "Open"
        /\ IF CanCreate("stdout", 3) THEN Create("stdout", 3)
           ELSE UNCHANGED <<freeMap, directory, sector, openFileList, op, written>>

OpenConsole ==
  /\ op = NoOp
  /\ phase = "Open"
  /\ openFileList' = [openFileList EXCEPT ![0] = Opened("stdin", 2),
                                          ![1] = Opened("stdout", 3)]
  /\ phase' = "Main"
  /\ UNCHANGED <<freeMap, directory, sector, op, written>>

\* main has carried out its commands and runs a program.
StartProcess ==
  /\ op = NoOp
  /\ phase = "Main"
  /\ openFileList[mainFile] = NULL
  /\ phase' = "Programs"
  /\ UNCHANGED <<freeMap, directory, sector, openFileList, op, written>>

\* Nachos ends, or is stopped, between two operations and is started again
\* without format.
Restart ==
  /\ op = NoOp
  /\ phase \in {"Main", "Programs"}
  /\ openFileList' = AllClosed
  /\ phase' = "stdin"
  /\ UNCHANGED <<freeMap, directory, sector, op, written>>

-----------------------------------------------------------------------------
(* FileSystem::Remove, called by main only.                                *)

\* Mutant: the sector of the header is not cleared.
RemovedKeepsHeader(n) ==
  LET e == FindIndex(directory, n)
      s == directory[e].sector
  IN  [kind |-> "Remove", step |-> "Map", name |-> n, sector |-> s,
       hdr |-> sector[s], table |-> [directory EXCEPT ![e] = UnusedEntry],
       map |-> freeMap \ DataSectors(sector[s])]

\* Deallocate, Clear and Directory::Remove, on copies.
Removed(n) ==
  LET e == FindIndex(directory, n)
      s == directory[e].sector
  IN  [kind |-> "Remove", step |-> "Map", name |-> n, sector |-> s,
       hdr |-> sector[s], table |-> [directory EXCEPT ![e] = UnusedEntry],
       map |-> freeMap \ ({s} \cup DataSectors(sector[s]))]

\* Mutant: a file may be removed while it is open.
RemoveOpen(n) ==
  /\ op = NoOp
  /\ phase \in {"Main", "Programs"}
  /\ FindIndex(directory, n) # -1
  /\ op' = Removed(n)
  /\ UNCHANGED <<freeMap, directory, sector, openFileList, phase, written>>

Remove(n) ==
  /\ op = NoOp
  /\ phase = "Main"
  /\ openFileList[mainFile] = NULL
  /\ FindIndex(directory, n) # -1
  /\ op' = Removed(n)
  /\ UNCHANGED <<freeMap, directory, sector, openFileList, phase, written>>

RemoveMap ==
  /\ op.kind = "Remove" /\ op.step = "Map"
  /\ freeMap' = op.map
  /\ op' = [op EXCEPT !.step = "Directory"]
  /\ UNCHANGED <<directory, sector, openFileList, phase, written>>

\* The bytes of the file stay on the disk, as bytes nothing is promised of.
RemoveDirectory ==
  /\ op.kind = "Remove" /\ op.step = "Directory"
  /\ directory' = op.table
  /\ sector' = [s \in Sector |->
       IF s \in {op.sector} \cup DataSectors(op.hdr) THEN Unwritten ELSE sector[s]]
  /\ written' = [written EXCEPT ![op.name] = <<>>]
  /\ op' = NoOp
  /\ UNCHANGED <<freeMap, openFileList, phase>>

-----------------------------------------------------------------------------
(* Open, Close, Read and Write: f is the OpenFile of main, or a place of   *)
(* the table.                                                              *)

\* Copy, Print and the performance test.
MainOpen(n) ==
  /\ op = NoOp
  /\ phase = "Main"
  /\ openFileList[mainFile] = NULL
  /\ FindIndex(directory, n) # -1
  /\ openFileList' = [openFileList EXCEPT ![mainFile] = OpenFile(n, NULL)]
  /\ UNCHANGED <<freeMap, directory, sector, phase, op, written>>

\* SC_Open: FindFreeBlock, then Open.
Open(n, type) ==
  /\ op = NoOp
  /\ phase = "Programs"
  /\ FindIndex(directory, n) # -1
  /\ \E f \in FileId : openFileList[f] = NULL
  /\ LET f == Min({g \in FileId : openFileList[g] = NULL})
     IN  openFileList' = [openFileList EXCEPT ![f] = OpenFile(n, type)]
  /\ UNCHANGED <<freeMap, directory, sector, phase, op, written>>

\* FileSystem::Close
Closed(f) == openFileList' = [openFileList EXCEPT ![f] = NULL]

\* What main, or a program, can have open.
Usable(f) ==
  /\ op = NoOp
  /\ f \in IF phase = "Main" THEN {mainFile} ELSE FileId
  /\ openFileList[f] # NULL

Close(f) ==
  /\ Usable(f)
  /\ Closed(f)
  /\ UNCHANGED <<freeMap, directory, sector, phase, op, written>>

\* The number of bytes ReadAt and WriteAt transfer.
Clipped(hdr, numBytes, position) ==
  IF numBytes <= 0 \/ position >= hdr.numBytes THEN 0
  ELSE Min({numBytes, hdr.numBytes - position})

\* OpenFile::ReadAt
ReadAt(hdr, numBytes, position) ==
  [i \in 0..(Clipped(hdr, numBytes, position) - 1) |-> DiskByte(hdr, position + i)]

\* What OpenFile::Read and Write do to the position.
Advanced(f, result) ==
  openFileList' = [openFileList EXCEPT ![f].seekPosition = @ + result]

Read(f, numBytes) ==
  /\ Usable(f)
  /\ Advanced(f, Clipped(openFileList[f].hdr, numBytes, openFileList[f].seekPosition))
  /\ UNCHANGED <<freeMap, directory, sector, phase, op, written>>

\* Mutant: the last sector is read only when it is not the first.
ReadFirstNotSingle(first, last, firstAligned, lastAligned) ==
  (IF firstAligned THEN {} ELSE {first})
    \cup (IF ~lastAligned /\ first # last THEN {last} ELSE {})

\* The sectors WriteAt reads first since it changes a part of them.
ReadFirst(first, last, firstAligned, lastAligned) ==
  (IF firstAligned THEN {} ELSE {first})
    \cup (IF ~lastAligned /\ (first # last \/ firstAligned) THEN {last} ELSE {})

\* OpenFile::WriteAt up to its last loop: n bytes of from are copied over what
\* was read.
Buffer(hdr, from, n, position) ==
  LET first == position \div SectorSize
      last == (position + n - 1) \div SectorSize
      readIn == ReadFirst(first, last, position = first * SectorSize,
                          position + n = (last + 1) * SectorSize)
      Fill(k) == IF k \in position..(position + n - 1) THEN from[1 + k - position]
                 ELSE IF k < hdr.numBytes /\ k \div SectorSize \in readIn
                      THEN DiskByte(hdr, k)
                      ELSE Garbage
  IN  [i \in first..last |-> [o \in Offset |-> Fill(i * SectorSize + o)]]

\* OpenFile::Write; SC_Write refuses a file opened with type 1.
Write(f, from, numBytes) ==
  /\ Usable(f)
  /\ f \in FileId => openFileList[f].type # 1
  /\ LET file == openFileList[f]
         n == Clipped(file.hdr, numBytes, file.seekPosition)
     IN  /\ n > 0
         /\ op' = [kind |-> "Write", file |-> f, from |-> from, count |-> n,
                   next |-> file.seekPosition \div SectorSize,
                   buf |-> Buffer(file.hdr, from, n, file.seekPosition)]
  /\ UNCHANGED <<freeMap, directory, sector, openFileList, phase, written>>

\* One turn of the loop that writes the sectors back; after the last one the
\* file's position is moved.
WriteSector ==
  /\ op.kind = "Write"
  /\ LET file == openFileList[op.file]
         start == file.seekPosition
         s == ByteToSector(file.hdr, op.next * SectorSize)
     IN  /\ sector' = [sector EXCEPT ![s] = Bytes(op.buf[op.next])]
         /\ IF op.next + 1 \in DOMAIN op.buf
            THEN /\ op' = [op EXCEPT !.next = @ + 1]
                 /\ UNCHANGED <<openFileList, written>>
            ELSE /\ op' = NoOp
                 /\ Advanced(op.file, op.count)
                 /\ written' = [written EXCEPT ![file.name] =
                      [k \in DOMAIN @ |-> IF k \in start..(start + op.count - 1)
                                          THEN op.from[1 + k - start] ELSE @[k]]]
  /\ UNCHANGED <<freeMap, directory, phase>>

Next ==
  \/ CreateConsole \/ OpenConsole \/ StartProcess \/ Restart
  \/ /\ phase = "Main"
     /\ openFileList[mainFile] = NULL
     /\ \E n \in Name, size \in Size : Create(n, size)
     /\ UNCHANGED phase
  \/ /\ phase = "Programs"
     /\ \E n \in Name : Create(n, 0)
     /\ UNCHANGED phase
  \/ CreateHeader \/ CreateDirectory \/ CreateMap
  \/ \E n \in Name : Remove(n)
  \/ RemoveMap \/ RemoveDirectory
  \/ \E n \in Name : MainOpen(n) \/ \E type \in {0, 1} : Open(n, type)
  \/ \E f \in OpenFileId :
       \/ Close(f)
       \/ \E from \in Text : \E numBytes \in 1..Len(from) :
            Read(f, numBytes) \/ Write(f, from, numBytes)
  \/ WriteSector

Spec == Init /\ [][Next]_vars

-----------------------------------------------------------------------------
(* Properties.                                                             *)

InUse == {e \in Entry : directory[e].inUse}

\* The sectors of the file in a directory entry.
SectorsOf(e) ==
  {directory[e].sector} \cup DataSectors(sector[directory[e].sector])

\* Every variable has its type, and the sector of an entry holds a header.
TypeOK ==
  /\ freeMap \subseteq Sector
  /\ directory \in [Entry -> [inUse : BOOLEAN, name : FileName \cup {NULL},
                              sector : Sector]]
  /\ \A e \in InUse : sector[directory[e].sector].kind = "FileHeader"
  /\ \A f \in OpenFileId : openFileList[f] # NULL =>
       openFileList[f].seekPosition <= openFileList[f].hdr.numBytes

\* A file that is in use through an OpenFile is in the directory, with the
\* header that the OpenFile holds in memory.  (Nothing uses places 0 and 1.)
OpenFilesAreCurrent ==
  \A f \in OpenFileId \ {0, 1} : openFileList[f] # NULL =>
    \E e \in InUse : /\ directory[e].name = openFileList[f].name
                     /\ sector[directory[e].sector] = openFileList[f].hdr

\* However an operation is cut short, no two files on the disk share a sector,
\* and none has a sector of the free map or the directory.  The types of the
\* variables are part of it, and that the OpenFiles in memory are current.
FilesAreApart ==
  /\ TypeOK
  /\ OpenFilesAreCurrent
  /\ \A e \in InUse : SectorsOf(e) \cap SystemSectors = {}
  /\ \A d, e \in InUse : d # e =>
       /\ directory[d].name # directory[e].name
       /\ SectorsOf(d) \cap SectorsOf(e) = {}

\* The free map marks the sectors of the files and no others: none is lost, none
\* can be given away twice.  This is what the ASSERT of FileHeader::Deallocate
\* ("ought to be marked!") relies on.  A Create or Remove that is cut short leaves
\* the map wrong about the sectors of the one file it is about at most.
MapIsExact ==
  LET own == IF op.kind \in {"Create", "Remove"}
             THEN {op.sector} \cup DataSectors(op.hdr) ELSE {}
      used == SystemSectors \cup UNION {SectorsOf(e) : e \in InUse}
  IN  freeMap \ own = used \ own

\* Through the header on disk ReadAt gives the bytes that were written, after
\* any sequence of partial, overlapping and clipped Writes of all files.
ReadsBack ==
  op.kind # "Write" =>
    \A e \in InUse :
      LET hdr == sector[directory[e].sector]
          bytes == written[directory[e].name]
          read == ReadAt(hdr, hdr.numBytes, 0)
      IN  \A k \in DOMAIN bytes : bytes[k] # Garbage => read[k] = bytes[k]

\* The files as the sectors of the disk have them.
DiskFiles ==
  [n \in {directory[e].name : e \in InUse} |->
     LET sectors == sector[directory[FindIndex(directory, n)].sector].dataSectors
     IN  [i \in DOMAIN sectors |-> sector[sectors[i]]]]

Store == INSTANCE FileStore WITH Name <- FileName, files <- DiskFiles

\* On the disk a file appears and disappears in one step, the write of the
\* directory, and an operation on one file never changes another.
ImplementsStore == Store!Spec

=============================================================================
