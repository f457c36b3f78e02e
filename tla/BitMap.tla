------------------------------- MODULE BitMap -------------------------------
(***************************************************************************)
(* BitMap as the words of map, with the file it is kept in.  The other     *)
(* modules take a BitMap for the set of its marked bits; ImplementsSet     *)
(* says that this is so.                                                   *)
(***************************************************************************)
EXTENDS Integers, FiniteSetsExt

CONSTANTS
  numBits,
  BitsInWord      \* 32 in the code

VARIABLES
  map,      \* the words of the map that is in memory
  file,     \* the words that were written back last
  result    \* what the last call returned

vars == <<map, file, result>>

Bit == 0..(numBits - 1)
Word == 0..(2^BitsInWord - 1)

numWords == (numBits \div BitsInWord) + (IF numBits % BitsInWord > 0 THEN 1 ELSE 0)

\* w & (1 << b), w | (1 << b) and w & ~(1 << b)
HasBit(w, b) == (w \div 2^b) % 2 = 1
WithBit(w, b) == IF HasBit(w, b) THEN w ELSE w + 2^b
WithoutBit(w, b) == IF HasBit(w, b) THEN w - 2^b ELSE w

Test(words, which) == HasBit(words[which \div BitsInWord], which % BitsInWord)

\* Mutant: the bit is not taken modulo the size of a word.
MarkedWide(words, which) ==
  [words EXCEPT ![which \div BitsInWord] = WithBit(@, which)]

Marked(words, which) ==
  [words EXCEPT ![which \div BitsInWord] = WithBit(@, which % BitsInWord)]

Cleared(words, which) ==
  [words EXCEPT ![which \div BitsInWord] = WithoutBit(@, which % BitsInWord)]

\* The constructor clears the bits it has in words that new leaves as they are.
Init ==
  /\ map \in {words \in [0..(numWords - 1) -> Word] : \A i \in Bit : ~Test(words, i)}
  /\ file = map
  /\ result = 0

Mark(which) == map' = Marked(map, which) /\ UNCHANGED <<file, result>>

Clear(which) == map' = Cleared(map, which) /\ UNCHANGED <<file, result>>

\* Find and FindFreeSlot
Find ==
  LET clear == {i \in Bit : ~Test(map, i)} IN
  /\ map' = IF clear = {} THEN map ELSE Marked(map, Min(clear))
  /\ result' = IF clear = {} THEN -1 ELSE Min(clear)
  /\ UNCHANGED file

NumClear ==
  /\ result' = Cardinality({i \in Bit : ~Test(map, i)})
  /\ UNCHANGED <<map, file>>

FetchFrom == map' = file /\ UNCHANGED <<file, result>>

WriteBack == file' = map /\ UNCHANGED <<map, result>>

Next ==
  \/ \E which \in Bit : Mark(which) \/ Clear(which)
  \/ Find \/ NumClear \/ FetchFrom \/ WriteBack

Spec == Init /\ [][Next]_vars

-----------------------------------------------------------------------------
(* Properties.                                                             *)

SetOf(words) == {i \in Bit : Test(words, i)}

Set == INSTANCE BitMapSpec WITH marked <- SetOf(map), saved <- SetOf(file)

\* The words behave like a set of bits, across the boundaries of words and with
\* a last word that is not full: Mark and Clear change one bit, Find gives out the
\* first clear bit and -1 only when there is none, and a map that was written back
\* is fetched as it was.
ImplementsSet == Set!Spec

=============================================================================
