------------------------------ MODULE Condition ------------------------------
(***************************************************************************)
(* What condition_variable promises: threads queue up, each notification   *)
(* takes the one that has waited longest or all of them, a timed waiter    *)
(* may also leave by itself, and a thread returns only once it was woken.  *)
(* A timed waiter that is notified may still be told that it timed out.    *)
(* ConditionVariable implements this specification; ConcurrentQueue,       *)
(* SharedTimedMutex and Future are built on it.                            *)
(***************************************************************************)
EXTENDS Waiters

VARIABLE queue

vars == <<queue, status>>

Init == /\ queue = <<>>
        /\ status = [t \in Threads |-> "out"]

Wait(t) == /\ status[t] = "out"
           /\ \E kind \in {"waiting", "timed"} :
                 status' = [status EXCEPT ![t] = kind]
           /\ queue' = Append(queue, t)

NotifyOne == /\ queue # <<>>
             /\ Wakes(First(queue))
             /\ queue' = Others(queue)

NotifyAll == /\ queue # <<>>
             /\ Wakes(All(queue))
             /\ queue' = <<>>

Timeout(t) == /\ status[t] = "timed"
              /\ status' = [status EXCEPT ![t] = "timeout"]
              /\ queue' = RemoveFirst(queue, t)

Return(t) == /\ Woken(t)
             /\ status' = [status EXCEPT ![t] = "out"]
             /\ UNCHANGED queue

Next == \/ NotifyOne
        \/ NotifyAll
        \/ \E t \in Threads : Wait(t) \/ Timeout(t) \/ Return(t)

Spec == Init /\ [][Next]_vars

(* Woken threads return, and timers expire.                                *)
Fairness == \A t \in Threads : WF_vars(Return(t)) /\ WF_vars(Timeout(t))
=============================================================================
