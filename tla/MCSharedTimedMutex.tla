-------------------------- MODULE MCSharedTimedMutex --------------------------
(* Instances of SharedTimedMutex for TLC.                                  *)
EXTENDS SharedTimedMutex, TLC
=============================================================================
