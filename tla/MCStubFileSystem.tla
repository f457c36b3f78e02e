-------------------------- MODULE MCStubFileSystem --------------------------
(***************************************************************************)
(* Places 2 to 5 of the table, and UNIX descriptors up to 8, so that       *)
(* descriptor 5 is also a place.                                           *)
(***************************************************************************)
EXTENDS StubFileSystem

MCExisting == {NULL, <<"1", "\n", "1">>}

MCRequest == {<<"a", 0>>, <<"b", 1>>, <<"b", 2>>}

MCText == {<<"1", "\n">>}

MCFloatText == {<<"1", ".", "0">>}

=============================================================================
