------------------------------ MODULE MCFuture ------------------------------
(* Instances of Future for TLC.                                            *)
EXTENDS Future, TLC

CONSTANT t1

(* One thread makes any call; the others those that wait at the same states,
   or whose callbacks are run before or after and may throw.  (Threads that
   are alike in all else need not make every pair of calls both ways.)     *)
MCMayCall == [t \in Threads |->
                IF t = t1 THEN Calls ELSE {"get", "async_wait_for_any", "then"}]
=============================================================================
