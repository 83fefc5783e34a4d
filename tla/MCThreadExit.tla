---------------------------- MODULE MCThreadExit ----------------------------
(* Instances of ThreadExit for TLC.                                        *)
EXTENDS ThreadExit

CONSTANTS t1, t2

(* One thread is started by the program and joins the other, which ends in
   every way.                                                              *)
MCRoots == {t1}
MCLeavers == {t2}
=============================================================================
