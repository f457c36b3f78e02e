--------------------------- MODULE MCSynchConsole ---------------------------
(* The console for TLC.                                                     *)
EXTENDS SynchConsole

CONSTANTS t1, t2, a
=============================================================================
