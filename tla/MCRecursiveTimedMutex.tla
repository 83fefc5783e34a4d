------------------------ MODULE MCRecursiveTimedMutex ------------------------
(* Instances of RecursiveTimedMutex for TLC.                               *)
EXTENDS RecursiveTimedMutex, TLC
=============================================================================
