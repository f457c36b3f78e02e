---------------------------- MODULE MCFileSystem ----------------------------
(***************************************************************************)
(* A directory of three entries, two of which the constructor takes for    *)
(* stdin and stdout, and a disk of which two sectors are then left: enough *)
(* for an empty file, and after stdin is removed for one with data.  With  *)
(* stdin removed the entries and sectors can be used up, so that the next  *)
(* start cannot make it again.  A sector has two bytes and a file three:   *)
(* Writes are aligned or not at either end, and clipped.  Two files, or    *)
(* one file twice, can be open.  Nothing tells the names a and b apart.    *)
(***************************************************************************)
EXTENDS FileSystem, TLC

CONSTANTS a, b

MCName == {"stdin", a, b}

Symmetry == Permutations({a, b})

MCText == {<<"x", "y">>}

=============================================================================
