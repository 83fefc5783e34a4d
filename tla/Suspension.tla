----------------------------- MODULE Suspension -----------------------------
(***************************************************************************)
(* What the thread layer promises to everything built above it, and asks   *)
(* of it.  A green thread alternates between running and parked and goes   *)
(* on running only by consuming one activation.  An activation is posted   *)
(* only for a thread that is parked or has announced that it will park; it *)
(* is kept until then; there is never more than one outstanding, and none  *)
(* is left for a thread that ended.                                        *)
(* ThreadObject implements this specification, and Mutex is shown to use   *)
(* threads within it.                                                      *)
(***************************************************************************)
EXTENDS Naturals

CONSTANT Threads

VARIABLES ctx,    \* "absent", "parked", "running", "parking" or "ended"
          wake    \* wake[t]: an activation of t is posted and not yet consumed

vars == <<ctx, wake>>

Init == /\ ctx = [t \in Threads |-> "absent"]
        /\ wake = [t \in Threads |-> FALSE]

\* A new thread starts parked with its first activation already posted.
Create(t) == /\ ctx[t] = "absent"
             /\ ctx' = [ctx EXCEPT ![t] = "parked"]
             /\ wake' = [wake EXCEPT ![t] = TRUE]

\* A parked thread is woken, or one that is on its way to park.
Wake(t) == /\ ctx[t] \in {"parked", "parking"}
           /\ ~wake[t]
           /\ wake' = [wake EXCEPT ![t] = TRUE]
           /\ UNCHANGED ctx

\* The posted activation is consumed.
Run(t) == /\ ctx[t] = "parked"
          /\ wake[t]
          /\ ctx' = [ctx EXCEPT ![t] = "running"]
          /\ wake' = [wake EXCEPT ![t] = FALSE]

\* From now on the thread can be woken.
Announce(t) == /\ ctx[t] = "running"
               /\ ctx' = [ctx EXCEPT ![t] = "parking"]
               /\ UNCHANGED wake

Park(t) == /\ ctx[t] \in {"running", "parking"}
           /\ ctx' = [ctx EXCEPT ![t] = "parked"]
           /\ UNCHANGED wake

End(t) == /\ ctx[t] = "running"
          /\ ~wake[t]
          /\ ctx' = [ctx EXCEPT ![t] = "ended"]
          /\ UNCHANGED wake

Next == \E t \in Threads : \/ Create(t) \/ Wake(t) \/ Run(t) \/ Announce(t)
                            \/ Park(t) \/ End(t)

Spec == Init /\ [][Next]_vars
=============================================================================
