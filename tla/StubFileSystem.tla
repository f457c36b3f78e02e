--------------------------- MODULE StubFileSystem ---------------------------
(***************************************************************************)
(* The file system calls of the userprog build (FILESYS_STUB): FileSystem  *)
(* and OpenFile turn them into calls on UNIX files.  The kernel does not   *)
(* give up the CPU in any of them, so a call is one step, and since all    *)
(* processes share the table of open files it does not matter which makes  *)
(* it.                                                                     *)
(*                                                                         *)
(* UNIX is modelled as the code uses it: open gives the lowest descriptor  *)
(* that is not in use, or -1.  A character is NUL, a digit, a space, a     *)
(* newline or another one.  What a call returns in r2 is not kept: Open    *)
(* returns the place, the others only say whether they were refused.       *)
(***************************************************************************)
EXTENDS Integers, Sequences, FiniteSetsExt

CONSTANTS
  NumFiles,        \* length of openFileList, 10 in the code
  MaxDescriptor,   \* descriptors UNIX has for a process
  Name,
  Existing,        \* contents that files may have from before, or NULL
  Request,         \* pairs of a name and a type that programs give to Open
  Text, FloatText, \* what programs write, and what sprintf gives for a float
  Count,           \* numbers of characters that programs read and write
  MaxLength,       \* bound on the length of a file
  NULL

Descriptor == 0..(MaxDescriptor - 1)
Place == 0..(NumFiles - 1)
FileId == 2..(NumFiles - 1)

Digit == {"0", "1", "2"}
Value(digit) == CHOOSE n \in 0..2 : digit = <<"0", "1", "2">>[n + 1]

VARIABLES
  descriptor,     \* by UNIX descriptor: the name of the file, or NULL
  content,        \* by name: the characters of the file, or NULL
  openFileList,   \* by place: file, type and currentOffset, or NULL
  status          \* "Running", "Hung", "Aborted" or "Ended"

vars == <<descriptor, content, openFileList, status>>

Free(d) == {i \in Descriptor : d[i] = NULL}

\* The field name is history: the file that was opened.
OpenFile(fd, type, name) ==
  [file |-> fd, type |-> type, currentOffset |-> 0, name |-> name]

\* What the constructor leaves in places 0 and 1: Open with type 2 or 3 sets no
\* descriptor, so the OpenFile has any number, or there is none (-1).
Console == {NULL, OpenFile(-2, 2, NULL)}

\* UNIX has 0, 1 and 2 open.  Create("stdin") and Create("stdout") have taken
\* two more and not closed them.
Init ==
  /\ descriptor = [d \in Descriptor |-> CASE d \in 0..2 -> "tty" [] d = 3 -> "stdin"
                                          [] d = 4 -> "stdout" [] OTHER -> NULL]
  /\ content \in [Name -> Existing]
  /\ \E stdin, stdout \in Console :
       openFileList = [f \in Place |-> CASE f = 0 -> stdin [] f = 1 -> stdout
                                         [] OTHER -> NULL]
  /\ status = "Running"

\* The call returns.
Answer == status = "Running" /\ UNCHANGED status

Refused == Answer /\ UNCHANGED <<descriptor, content, openFileList>>

\* An ASSERT fails, or a wild pointer is followed.
Abort ==
  /\ status = "Running" /\ status' = "Aborted"
  /\ UNCHANGED <<descriptor, content, openFileList>>

\* A loop does not end.
Hang ==
  /\ status = "Running" /\ status' = "Hung"
  /\ UNCHANGED <<descriptor, content, openFileList>>

\* Mutant: the place keeps the OpenFile that is deleted.
CloseKeepsPlace(id) ==
  /\ openFileList[id] # NULL
  /\ descriptor' = [descriptor EXCEPT ![openFileList[id].file] = NULL]
  /\ UNCHANGED openFileList

\* FileSystem::Close of a place in use, with ~OpenFile.
Close(id) ==
  /\ openFileList[id] # NULL
  /\ descriptor' = [descriptor EXCEPT ![openFileList[id].file] = NULL]
  /\ openFileList' = [openFileList EXCEPT ![id] = NULL]

-----------------------------------------------------------------------------
(* FileSystem::Create.  OpenForWrite empties a file that exists.  The name *)
(* Close in Create means FileSystem::Close, so the descriptor is taken for *)
(* a number of the table: it stays open, and a file that has that number   *)
(* is closed.                                                              *)

Create(n) ==
  LET fd == Min(Free(descriptor))
      opened == [descriptor EXCEPT ![fd] = n]
  IN  IF fd \in FileId /\ openFileList[fd] # NULL
      THEN /\ descriptor' = [opened EXCEPT ![openFileList[fd].file] = NULL]
           /\ openFileList' = [openFileList EXCEPT ![fd] = NULL]
      ELSE /\ descriptor' = opened
           /\ UNCHANGED openFileList

SC_Create(n) ==
  /\ Free(descriptor) # {}
  /\ Answer
  /\ content' = [content EXCEPT ![n] = <<>>]
  /\ Create(n)

\* No descriptor is left, which OpenForWrite ASSERTs; or the descriptor lies
\* beyond the table, and what is found there need not be NULL.
SC_CreateAborts ==
  /\ Free(descriptor) # {} => Min(Free(descriptor)) \notin Place
  /\ Abort

-----------------------------------------------------------------------------
(* SC_Open and SC_Close.                                                   *)

\* Mutant: a place counts as free when nothing was read or written through it.
FindFreeBlockUnused ==
  LET free == {f \in FileId : openFileList[f] = NULL \/ openFileList[f].currentOffset = 0}
  IN  IF free = {} THEN -1 ELSE Min(free)

\* FileSystem::FindFreeBlock
FindFreeBlock ==
  LET free == {f \in FileId : openFileList[f] = NULL}
  IN  IF free = {} THEN -1 ELSE Min(free)

\* OpenForReadWrite and OpenForRead fail.
CannotOpen(n) == content[n] = NULL \/ Free(descriptor) = {}

\* FileSystem::Open, with the place for the OpenFile
Open(freeBlock, n, type) ==
  LET fd == Min(Free(descriptor))
  IN  /\ descriptor' = [descriptor EXCEPT ![fd] = n]
      /\ openFileList' = [openFileList EXCEPT ![freeBlock] = OpenFile(fd, type, n)]

SC_Open(n, type) ==
  \/ /\ type \notin {0, 1} \/ FindFreeBlock = -1 \/ CannotOpen(n)
     /\ Refused
  \/ /\ type \in {0, 1} /\ FindFreeBlock # -1 /\ ~CannotOpen(n)
     /\ Answer
     /\ Open(FindFreeBlock, n, type)
     /\ UNCHANGED content

\* The number is one of the table, and a file is open with it.
IsOpen(id) == id \in FileId /\ openFileList[id] # NULL

SC_Close(id) ==
  \/ ~IsOpen(id) /\ Refused
  \/ /\ IsOpen(id)
     /\ Answer
     /\ Close(id)
     /\ UNCHANGED content

-----------------------------------------------------------------------------
(* SC_Read, SC_Write and SC_WriteF2File.  A Write to the console, number   *)
(* 1, changes no file, like a call that is refused; so does a Read from    *)
(* it, number 0.  But the length the latter gives to the console is the    *)
(* variable its result goes to: the line may not fit the buffer.           *)

\* What is left of the file of an OpenFile: ReadPartial behind Lseek.
Rest(file) ==
  LET text == content[file.name]
  IN  IF file.currentOffset >= Len(text) THEN <<>>
      ELSE SubSeq(text, file.currentOffset + 1, Len(text))

Advance(id, count) ==
  openFileList' = [openFileList EXCEPT ![id].currentOffset = @ + count]

SC_Read(id, size) ==
  \/ ~IsOpen(id) /\ Refused
  \/ id = 0 /\ Abort
  \/ /\ IsOpen(id)
     /\ Answer
     /\ Advance(id, Min({size, Len(Rest(openFileList[id]))}))
     /\ UNCHANGED <<descriptor, content>>

\* WriteFile behind Lseek: UNIX fills a gap with NULs.
Written(text, offset, from) ==
  [i \in 1..Max({Len(text), offset + Len(from)}) |->
     IF i \in (offset + 1)..(offset + Len(from)) THEN from[i - offset]
     ELSE IF i <= Len(text) THEN text[i] ELSE "NUL"]

WriteFile(id, from) ==
  LET file == openFileList[id]
  IN  /\ file.currentOffset + Len(from) <= MaxLength
      /\ content' = [content EXCEPT ![file.name] = Written(@, file.currentOffset, from)]
      /\ Advance(id, Len(from))
      /\ UNCHANGED descriptor

\* User2System gives NULs behind the text.  OpenFile::Write returns all it was
\* given, and the calls compare this with one less: the result is always -2.
SC_Write(id, text, size) ==
  \/ ~IsOpen(id) /\ Refused
  \/ IsOpen(id) /\ openFileList[id].type = 1 /\ Refused
  \/ /\ IsOpen(id) /\ openFileList[id].type # 1
     /\ Answer
     /\ WriteFile(id, [i \in 1..size |-> IF i <= Len(text) THEN text[i] ELSE "NUL"])

SC_WriteF2File(id, text) ==
  \/ ~IsOpen(id) /\ Refused
  \/ IsOpen(id) /\ openFileList[id].type # 0 /\ Refused
  \/ /\ IsOpen(id) /\ openFileList[id].type = 0
     /\ Answer
     /\ WriteFile(id, text)

-----------------------------------------------------------------------------
(* SC_ReadFileFormat.  It reads one character at a time, and a Read at the *)
(* end of the file leaves the character before in place.  The loop over    *)
(* the lines ends only at a character that no table of numbers contains,   *)
(* and then nothing is given to the program and r2 is as it was.           *)

Number(digits) ==
  LET value[i \in 0..Len(digits)] ==
        IF i = 0 THEN 0 ELSE value[i - 1] * 10 + Value(digits[i])
  IN  value[Len(digits)]

\* The position of the first character of text that is not in skip, from i on.
FirstNot(text, i, skip) ==
  LET hits == {j \in i..Len(text) : text[j] \notin skip}
  IN  IF hits = {} THEN 0 ELSE Min(hits)

\* What the call does with the rest of a file: the number of characters it reads
\* when it returns, whether it never does, and whether it leaves bigHead, which
\* has an element for each of the promised lines.
Format(text) ==
  LET header == FirstNot(text, 1, Digit)
      stop == FirstNot(text, header + 1, Digit \cup {" ", "\n"})
      lines(end) == 1 + Cardinality({i \in (header + 1)..end : text[i] = "\n"})
      promised == Number(SubSeq(text, 1, header - 1))
  IN  IF text = <<>>                 THEN [read |-> 0, hangs |-> TRUE, wild |-> TRUE]
      ELSE IF header = 0             THEN [read |-> 0, hangs |-> TRUE, wild |-> FALSE]
      ELSE IF text[header] # "\n"    THEN [read |-> header, hangs |-> FALSE, wild |-> FALSE]
      ELSE IF stop = 0               THEN [read |-> 0, hangs |-> TRUE,
                                           wild |-> text[Len(text)] = "\n"
                                                      \/ lines(Len(text)) > promised]
      ELSE [read |-> stop, hangs |-> FALSE, wild |-> lines(stop) # promised]

\* Places 0 and 1 lead to any descriptor or none; numbers beyond the table, which
\* the call does not exclude, are left out.
SC_ReadFileFormat(id) ==
  /\ id \in Place
  /\ \/ openFileList[id] = NULL /\ Refused
     \/ /\ IsOpen(id)
        /\ LET format == Format(Rest(openFileList[id]))
           IN  \/ format.wild /\ Abort
               \/ format.hangs /\ Hang
               \/ /\ ~format.hangs
                  /\ Answer
                  /\ Advance(id, format.read)
                  /\ UNCHANGED <<descriptor, content>>
     \/ id \in {0, 1} /\ openFileList[id] # NULL /\ (Abort \/ Hang \/ Refused)

-----------------------------------------------------------------------------
\* ~FileSystem at the end of Nachos; it is not for UNIX to know the descriptor
\* of place 1.
End ==
  /\ status = "Running"
  /\ status' \in IF openFileList[1] = NULL THEN {"Ended"} ELSE {"Ended", "Aborted"}
  /\ openFileList' = [f \in Place |-> IF f = 0 THEN openFileList[0] ELSE NULL]
  /\ descriptor' = [d \in Descriptor |->
       IF \E f \in FileId : openFileList[f] # NULL /\ openFileList[f].file = d
       THEN NULL ELSE descriptor[d]]
  /\ UNCHANGED content

Next ==
  \/ \E n \in Name : SC_Create(n)
  \/ \E request \in Request : SC_Open(request[1], request[2])
  \/ SC_CreateAborts
  \/ \E id \in 0..NumFiles :
       \/ SC_Close(id)
       \/ SC_ReadFileFormat(id)
       \/ \E size \in Count :
            SC_Read(id, size) \/ \E text \in Text : SC_Write(id, text, size)
       \/ \E text \in FloatText : SC_WriteF2File(id, text)
  \/ End

Spec == Init /\ [][Next]_vars

-----------------------------------------------------------------------------
(* Properties.                                                             *)

\* A number of the table leads to the file it was given for: its descriptor is
\* open in UNIX for that file and no other number has it.  UNIX gives a descriptor
\* out again as soon as it is closed, so a place that outlived its descriptor, or
\* a descriptor closed twice, would end in a file of another process.
NumbersReachTheirFile ==
  \A f \in FileId : openFileList[f] # NULL =>
    /\ descriptor[openFileList[f].file] = openFileList[f].name
    /\ content[openFileList[f].name] # NULL
    /\ \A g \in FileId \ {f} :
         openFileList[g] # NULL => openFileList[g].file # openFileList[f].file

\* A file that is open stays open until it is closed with its own number, or
\* Nachos ends.
OpenUntilClosed ==
  [][\A f \in FileId :
       openFileList[f] # NULL /\ openFileList'[f] = NULL => SC_Close(f) \/ End]_vars

=============================================================================
