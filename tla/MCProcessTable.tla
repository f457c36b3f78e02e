--------------------------- MODULE MCProcessTable ---------------------------
(* Processes for TLC.                                                       *)
EXTENDS ProcessTable

CONSTANTS main, p1, p2, p3

=============================================================================
