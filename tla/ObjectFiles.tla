---------------------------- MODULE ObjectFiles -----------------------------
(***************************************************************************)
(* The tools for object files: coff2noff and coff2flat, section by         *)
(* section, and the three loaders: the two of AddrSpace for NOFF files and *)
(* the one of the MIPS interpreter.  A COFF file is its two magic numbers, *)
(* right or wrong, and its sections, each with a name, an address, a size  *)
(* and the bytes found in the file.  The host is little endian.            *)
(***************************************************************************)
EXTENDS Integers, Sequences, FiniteSetsExt

CONSTANTS
  Coff,          \* the object files that may be given
  Address,       \* of the memory of a program, from 0
  HeaderSize,    \* sizeof(NoffHeader)
  StackSize,     \* of coff2flat, in bytes, at least 4
  PageSize,
  UserStackSize  \* of Nachos

VARIABLES
  coff,       \* the input
  tool,       \* "coff2noff" or "coff2flat"
  i,          \* the next section; 0: the headers are to be checked
  noffH,      \* header of the NOFF file
  inNoffFile,
  top,
  out,        \* bytes written, behind the place for the header
  status      \* "Running", "Done" or "Failed"

vars == <<coff, tool, i, noffH, inNoffFile, top, out, status>>

Segment(virtualAddr, inFileAddr, size) ==
  [virtualAddr |-> virtualAddr, inFileAddr |-> inFileAddr, size |-> size]

\* What malloc and the stack contain where only size is set.
NoSegment == Segment(-1, -1, 0)

Init ==
  /\ coff \in Coff
  /\ tool \in {"coff2noff", "coff2flat"}
  /\ i = 0
  /\ noffH = [code |-> NoSegment, initData |-> NoSegment, uninitData |-> NoSegment]
  /\ inNoffFile = HeaderSize
  /\ top = 0
  /\ out = <<>>
  /\ status = "Running"

\* exit(1); coff2noff unlinks what it has written, coff2flat leaves it.
Fail ==
  /\ status' = "Failed"
  /\ out' = IF tool = "coff2noff" THEN <<>> ELSE out
  /\ UNCHANGED <<coff, tool, i, noffH, inNoffFile, top>>

\* Both tools: the magic numbers.
ReadHeaders ==
  /\ status = "Running" /\ i = 0
  /\ IF coff.f_magic /\ coff.magic
     THEN i' = 1 /\ UNCHANGED <<coff, tool, noffH, inNoffFile, top, out, status>>
     ELSE Fail

section == coff.sections[i]
HasSection == status = "Running" /\ i \in 1..Len(coff.sections)

\* Read, which fails when the file is too short.
IsShort(s) == Len(s.data) < s.size
Read(s) == SubSeq(s.data, 1, s.size)

-----------------------------------------------------------------------------
(* coff2noff.                                                              *)

\* Mutant: the place of the segment is not advanced.
CopyInPlace(field) ==
  /\ noffH' = [noffH EXCEPT ![field] = Segment(section.paddr, inNoffFile, section.size)]
  /\ out' = out \o Read(section)
  /\ UNCHANGED inNoffFile

\* A segment of the header is set, and the section copied behind the last one.
Copy(field) ==
  /\ noffH' = [noffH EXCEPT ![field] = Segment(section.paddr, inNoffFile, section.size)]
  /\ out' = out \o Read(section)
  /\ inNoffFile' = inNoffFile + section.size

SkipEmpty ==
  /\ section.size = 0
  /\ i' = i + 1
  /\ UNCHANGED <<coff, tool, noffH, inNoffFile, top, out, status>>

Text ==
  /\ section.size # 0 /\ section.name = ".text"
  /\ IF IsShort(section) THEN Fail
     ELSE /\ Copy("code")
          /\ i' = i + 1
          /\ UNCHANGED <<coff, tool, top, status>>

\* Only one of .data and .rdata may have a size.
Data ==
  /\ section.size # 0 /\ section.name \in {".data", ".rdata"}
  /\ IF noffH.initData.size # 0 \/ IsShort(section) THEN Fail
     ELSE /\ Copy("initData")
          /\ i' = i + 1
          /\ UNCHANGED <<coff, tool, top, status>>

\* Of .bss and .sbss the second is refused if it is contiguous with the first.
Bss ==
  /\ section.size # 0 /\ section.name \in {".bss", ".sbss"}
  /\ LET first == noffH.uninitData
     IN  IF first.size # 0 /\ section.paddr = first.virtualAddr + first.size THEN Fail
         ELSE /\ noffH' = [noffH EXCEPT !.uninitData =
                             IF first.size # 0 THEN [@ EXCEPT !.size = @ + section.size]
                             ELSE Segment(section.paddr, @.inFileAddr, section.size)]
              /\ i' = i + 1
              /\ UNCHANGED <<coff, tool, inNoffFile, top, out, status>>

Unknown ==
  /\ section.size # 0
  /\ section.name \notin {".text", ".data", ".rdata", ".bss", ".sbss"}
  /\ Fail

ConvertSection ==
  /\ tool = "coff2noff" /\ HasSection
  /\ SkipEmpty \/ Text \/ Data \/ Bss \/ Unknown

-----------------------------------------------------------------------------
(* coff2flat.                                                              *)

FlatSection ==
  /\ tool = "coff2flat" /\ HasSection
  /\ IF section.name \notin {".bss", ".sbss"} /\ IsShort(section)
     THEN Fail
     ELSE /\ top' = Max({top, section.paddr + section.size})
          /\ out' = IF section.name \in {".bss", ".sbss"} THEN out
                    ELSE out \o Read(section)
          /\ i' = i + 1
          /\ UNCHANGED <<coff, tool, noffH, inNoffFile, status>>

\* The blank word at the end of the stack: UNIX fills what lies before it.
WithStack ==
  LET end == top + StackSize
  IN  [a \in 1..Max({end, Len(out)}) |->
         IF a > end - 4 /\ a <= end THEN 0 ELSE IF a <= Len(out) THEN out[a] ELSE 0]

\* The end of either tool; coff2noff writes the header now.
Finish ==
  /\ status = "Running" /\ i > Len(coff.sections)
  /\ status' = "Done"
  /\ out' = IF tool = "coff2flat" THEN WithStack ELSE out
  /\ UNCHANGED <<coff, tool, i, noffH, inNoffFile, top>>

Next == ReadHeaders \/ ConvertSection \/ FlatSection \/ Finish

Spec == Init /\ [][Next]_vars

-----------------------------------------------------------------------------
(* What becomes of the files.                                              *)

\* The space AddrSpace makes for a program: its segments and the stack, in pages.
SpaceSize ==
  LET size == noffH.code.size + noffH.initData.size + noffH.uninitData.size + UserStackSize
  IN  ((size + PageSize - 1) \div PageSize) * PageSize
Space == 0..(SpaceSize - 1)

\* The byte at a place of the NOFF file behind its header.
InFile(place) == out[place - HeaderSize + 1]

\* AddrSpace(OpenFile *), for the first program: a segment is read to its address.
InSegment(s, a) == s.size > 0 /\ a \in s.virtualAddr..(s.virtualAddr + s.size - 1)
FromSegment(s, a) == InFile(s.inFileAddr + a - s.virtualAddr)

LoadNoff == [a \in Space |->
  IF InSegment(noffH.initData, a) THEN FromSegment(noffH.initData, a)
  ELSE IF InSegment(noffH.code, a) THEN FromSegment(noffH.code, a)
  ELSE 0]

\* AddrSpace(char *), which Exec uses: page by page (AddressSpaces) the code, and the
\* data right behind it.  The address of the data is not looked at.
LoadExec == [a \in Space |->
  LET offset == a - noffH.code.virtualAddr
  IN  IF offset \in 0..(noffH.code.size - 1)
      THEN InFile(noffH.code.inFileAddr + offset)
      ELSE IF offset - noffH.code.size \in 0..(noffH.initData.size - 1)
      THEN InFile(noffH.initData.inFileAddr + offset - noffH.code.size)
      ELSE 0]

\* load_program of the interpreter: the sections it knows, those of the bss have no
\* bytes in the file.  It reads through fp, which main has closed, and this is taken
\* to be the FILE that ldopen opened again, as on the host it was written for.
load_program == [a \in Address |->
  LET known == {k \in DOMAIN coff.sections :
                  /\ coff.sections[k].name \in {".text", ".rdata", ".data", ".sdata"}
                  /\ a - coff.sections[k].paddr \in 0..(coff.sections[k].size - 1)}
  IN  IF known = {} THEN 0
      ELSE LET s == coff.sections[Max(known)] IN s.data[a - s.paddr + 1]]

-----------------------------------------------------------------------------
(* Properties.                                                             *)

\* The memory the object file describes.
Covers(s, a) == a \in s.paddr..(s.paddr + s.size - 1)
Linked == [a \in Address |->
  LET there == {k \in DOMAIN coff.sections : Covers(coff.sections[k], a)}
  IN  IF there = {} \/ coff.sections[Max(there)].name \in {".bss", ".sbss"} THEN 0
      ELSE LET s == coff.sections[Max(there)] IN s.data[a - s.paddr + 1]]

\* As test/script links: every section begins where the one before it ends.
IsAdjacent ==
  \A k \in DOMAIN coff.sections :
    coff.sections[k].paddr = IF k = 1 THEN 0
                             ELSE coff.sections[k - 1].paddr + coff.sections[k - 1].size

ProgramEnd == LET last == coff.sections[Len(coff.sections)] IN last.paddr + last.size

\* A program that was converted is in memory what was linked.  The segments lie in the
\* NOFF file where its header says, though sections are empty or missing, and so
\* AddrSpace(OpenFile *) and the interpreter find every byte at its address.  A program
\* whose sections are adjacent lies in its space, with the stack above it, and is the
\* same when Exec loads it, if it has code; and the flat file is the memory.
\* With gaps the latter need not hold: Exec's loader closes them, and of .sbss and .bss
\* with a gap between, which coff2noff takes, the header has only the sum of the sizes.
LoadedAsLinked ==
  status = "Done" =>
    /\ tool = "coff2noff" =>
         /\ \A a \in Space : LoadNoff[a] = Linked[a]
         /\ load_program = Linked
         /\ IsAdjacent => ProgramEnd + UserStackSize <= SpaceSize
         /\ IsAdjacent /\ noffH.code.size > 0 => \A a \in Space : LoadExec[a] = Linked[a]
    /\ tool = "coff2flat" /\ IsAdjacent =>
         /\ Len(out) = top + StackSize
         /\ \A a \in Address : a < Len(out) => out[a + 1] = Linked[a]

=============================================================================
