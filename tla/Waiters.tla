------------------------------- MODULE Waiters -------------------------------
(***************************************************************************)
(* What a caller of condition_variable sees of its waits: where each       *)
(* thread is in wait(), and what a notify does to the threads it takes.    *)
(* Shared by Condition, the promise of the condition variable, and by the  *)
(* modules of the classes built on it, each of which adds its queues.      *)
(***************************************************************************)
EXTENDS Naturals, Sequences, SequencesExt

CONSTANT Threads

VARIABLE status

(* "out": not in wait(); "waiting", "timed": in the queue, without and with
   a timer; "no_timeout", "timeout": woken, with the status that wait will
   return once it has locked the mutex again.                              *)
Results == {"no_timeout", "timeout"}

Blocked(t) == status[t] \in {"waiting", "timed"}
Woken(t) == status[t] \in Results

(* A notify takes the threads W from a queue.  One whose timer has expired
   already -- its handler is still to run -- returns cv_status::timeout.
   S is the status of every thread before.                                 *)
WakesFrom(S, W) ==
    \E r \in [W -> Results] :
       /\ \A t \in W : S[t] = "waiting" => r[t] = "no_timeout"
       /\ status' = [t \in Threads |-> IF t \in W THEN r[t] ELSE S[t]]
Wakes(W) == WakesFrom(status, W)

(* The threads that notify_one and notify_all take from queue q, and what
   the first leaves of it.                                                 *)
First(q) == {t \in ToSet(q) : t = q[1]}
All(q) == ToSet(q)
Others(q) == IF q = <<>> THEN q ELSE Tail(q)
=============================================================================
