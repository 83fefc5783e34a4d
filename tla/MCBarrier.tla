----------------------------- MODULE MCBarrier -----------------------------
(* Instances of Barrier for TLC.                                           *)
EXTENDS Barrier

CONSTANTS t1, t2, t3

(* One thread may be interrupted.                                          *)
MCMayInterrupt == {t3}
=============================================================================
