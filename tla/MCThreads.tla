------------------------------ MODULE MCThreads ------------------------------
(* Instances of Threads for TLC.                                           *)
EXTENDS Threads

CONSTANTS main, t1, t2, t3, lock, io

\* A lock that starts free and a device's completion semaphore.
MCInitialValue == [s \in Semaphore |-> IF s = lock THEN 1 ELSE 0]

=============================================================================
