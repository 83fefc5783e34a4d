------------------------------ MODULE TimedMutex ------------------------------
(***************************************************************************)
(* boost::green_thread::timed_mutex.  A waiter of try_lock_rel has a timer *)
(* whose handler alone resumes it: when the timer expires, and also when   *)
(* unlock() hands it the mutex, since unlock() then only cancels the timer.*)
(* The handler is wrapped in the strand of the waiter, so it runs once the *)
(* waiter has switched out.                                                *)
(*                                                                         *)
(* Suspension, interruption and the spinlock are as in Mutex.              *)
(***************************************************************************)
EXTENDS Naturals, Sequences, SequencesExt

CONSTANTS Threads, NoThread

VARIABLES owner,        \* owner_
          suspended,    \* suspended_, the f_ of its entries
          timer,        \* the waiter's timer
          at,           \* where each thread is in a call
          wake,         \* an activation of the thread is posted
          holds,        \* the caller was told it has the mutex
          interrupted   \* an accepted interruption request (at level 0)

vars == <<owner, suspended, timer, at, wake, holds, interrupted>>

(* A timer is "none", "armed", "fired" -- expired or cancelled, its handler
   queued on the waiter's strand -- or "handled"; a thread is in "user" code,
   "pausing", "paused" or "resumed" in a wait, or "yielding" or "yielded" at
   the end of a hand-over.                                                 *)

Init == /\ owner = NoThread
        /\ suspended = <<>>
        /\ timer = [t \in Threads |-> "none"]
        /\ at = [t \in Threads |-> "user"]
        /\ wake = [t \in Threads |-> FALSE]
        /\ holds = [t \in Threads |-> FALSE]
        /\ interrupted = [t \in Threads |-> FALSE]

Go(t, from, to) == at[t] = from /\ at' = [at EXCEPT ![t] = to]

-----------------------------------------------------------------------------
(* Taking a free mutex, in lock, try_lock or try_lock_rel; try_lock of the
   owner returns true as well.                                             *)
Take(t) == /\ at[t] = "user"
           /\ owner' = t
           /\ holds' = [holds EXCEPT ![t] = TRUE]
           /\ UNCHANGED <<suspended, timer, at, wake, interrupted>>
LockFree(t) == owner = NoThread /\ Take(t)
TryLock(t) == owner \in {NoThread, t} /\ Take(t)
TryLockRelFree(t) == owner = NoThread /\ Take(t)

(* Queueing for a mutex owned by another thread; x is the state the timer
   of the caller is put in.                                                *)
Enqueue(t, x) == /\ Go(t, "user", "pausing")
                 /\ owner \notin {NoThread, t}
                 /\ suspended' = Append(suspended, t)
                 /\ timer' = [timer EXCEPT ![t] = x]
                 /\ UNCHANGED <<owner, wake, holds, interrupted>>
LockWait(t) == Enqueue(t, "none")
TryLockRelWait(t) == Enqueue(t, "armed")

UnlockFree(t) == /\ at[t] = "user"
                 /\ owner = t
                 /\ suspended = <<>>
                 /\ owner' = NoThread
                 /\ holds' = [holds EXCEPT ![t] = FALSE]
                 /\ UNCHANGED <<suspended, timer, at, wake, interrupted>>

(* What unlock changes for a waiter with or without timer.                 *)
HandOver(t) == /\ Go(t, "user", "yielding")
               /\ owner = t
               /\ suspended # <<>>
               /\ owner' = Head(suspended)
               /\ suspended' = Tail(suspended)
               /\ holds' = [holds EXCEPT ![t] = FALSE]
               /\ UNCHANGED interrupted

(* Variant: the timer of the new owner is not cancelled.                   *)
HandOffNoCancel(t) ==
    /\ HandOver(t)
    /\ LET u == Head(suspended)
       IN  wake' = [wake EXCEPT ![u] = timer[u] = "none"]
    /\ UNCHANGED timer

(* unlock: the oldest waiter becomes the owner; its timer is cancelled (no
   effect on one that has expired), or it is resumed if it has none.       *)
UnlockHandOff(t) ==
    /\ HandOver(t)
    /\ LET u == Head(suspended)
       IN  IF timer[u] = "none"
           THEN wake' = [wake EXCEPT ![u] = TRUE] /\ UNCHANGED timer
           ELSE /\ timer' = [timer EXCEPT ![u] = "fired"]
                /\ UNCHANGED wake

-----------------------------------------------------------------------------
(* The timer.                                                              *)

Expires(t) == /\ timer[t] = "armed"
              /\ timer' = [timer EXCEPT ![t] = "fired"]
              /\ UNCHANGED <<owner, suspended, at, wake, holds, interrupted>>

Fires(t) == /\ timer[t] = "fired"
            /\ at[t] = "paused"
            /\ timer' = [timer EXCEPT ![t] = "handled"]
            /\ wake' = [wake EXCEPT ![t] = TRUE]
            /\ UNCHANGED <<owner, at, holds, interrupted>>

(* Variant: the handler leaves its thread in the queue.                    *)
TimeoutKeepsQueue(t) == Fires(t) /\ UNCHANGED suspended

(* Variant: the handler does nothing at all for the owner.                 *)
TimeoutSkipsOwner(t) == /\ Fires(t)
                        /\ owner # t
                        /\ suspended' = RemoveFirst(suspended, t)

(* timeout_handler: unless it was made the owner, the thread leaves the
   queue; resume it in either case.                                        *)
TimeoutHandler(t) == /\ Fires(t)
                     /\ suspended' = IF owner # t THEN RemoveFirst(suspended, t)
                                                  ELSE suspended

-----------------------------------------------------------------------------
(* Switching out and in, and the ends of the calls.                        *)

SwitchOut(t) == /\ Go(t, "pausing", "paused")
                /\ UNCHANGED <<owner, suspended, timer, wake, holds,
                               interrupted>>

Activated(t) == /\ Go(t, "paused", "resumed")
                /\ wake[t]
                /\ wake' = [wake EXCEPT ![t] = FALSE]
                /\ UNCHANGED <<owner, suspended, timer, holds, interrupted>>

(* lock returns; try_lock_rel, which had a timer, returns owner_==tf.      *)
WaitReturns(t) ==
    /\ Go(t, "resumed", "user")
    /\ ~interrupted[t]
    /\ holds' = [holds EXCEPT ![t] = timer[t] = "none" \/ owner = t]
    /\ timer' = [timer EXCEPT ![t] = "none"]
    /\ UNCHANGED <<owner, suspended, wake, interrupted>>

(* pause throws thread_interrupted, and so does the call.                  *)
WaitThrows(t) == /\ Go(t, "resumed", "user")
                 /\ interrupted[t]
                 /\ timer' = [timer EXCEPT ![t] = "none"]
                 /\ UNCHANGED <<owner, suspended, wake, holds, interrupted>>

(* yield at the end of unlock, with an arbitrary hint (see Mutex).         *)
YieldReturns(t) == /\ Go(t, "yielding", "user")
                   /\ UNCHANGED <<owner, suspended, timer, wake, holds,
                                  interrupted>>

YieldSwitches(t) == /\ Go(t, "yielding", "yielded")
                    /\ wake' = [wake EXCEPT ![t] = TRUE]
                    /\ UNCHANGED <<owner, suspended, timer, holds, interrupted>>

UnlockReturns(t) == /\ Go(t, "yielded", "user")
                    /\ wake[t]
                    /\ wake' = [wake EXCEPT ![t] = FALSE]
                    /\ UNCHANGED <<owner, suspended, timer, holds, interrupted>>

(* thread::interrupt, by anybody.                                          *)
Interrupt(t) == /\ interrupted' = [interrupted EXCEPT ![t] = TRUE]
                /\ UNCHANGED <<owner, suspended, timer, at, wake, holds>>

-----------------------------------------------------------------------------
Acquire(t) == LockFree(t) \/ TryLock(t) \/ TryLockRelFree(t)
              \/ LockWait(t) \/ TryLockRelWait(t)
Release(t) == UnlockFree(t) \/ UnlockHandOff(t)
Inside(t) == \/ SwitchOut(t) \/ Activated(t) \/ WaitReturns(t) \/ WaitThrows(t)
             \/ YieldReturns(t) \/ YieldSwitches(t) \/ UnlockReturns(t)
Timers(t) == Expires(t) \/ TimeoutHandler(t)

Next == \E t \in Threads :
           Acquire(t) \/ Release(t) \/ Inside(t) \/ Timers(t) \/ Interrupt(t)

Spec == Init /\ [][Next]_vars

(* Fairness: activated threads run, timers expire and their handlers run.  *)
FairSpec == Spec /\ \A t \in Threads : WF_vars(Inside(t)) /\ WF_vars(Timers(t))

-----------------------------------------------------------------------------
(* Properties.                                                             *)

Waiting(t) == at[t] \in {"pausing", "paused"}
Queued(t) == \E i \in 1..Len(suspended) : suspended[i] = t

(* Every waiter will be resumed exactly once: by a hand-over or a timer to
   come, by a handler that is queued, or by an activation already posted --
   when the timer expires just as the mutex is handed over, too.  Nobody
   stays queued after its timeout, so that unlock() hands the mutex only to
   threads that wait for it, and nobody waits for a free mutex.            *)
OneResume ==
    /\ \A t \in Threads :
          IF Waiting(t)
          THEN /\ timer[t] = "none"    => (Queued(t) <=> ~wake[t])
               /\ timer[t] = "armed"   => Queued(t) /\ ~wake[t]
               /\ timer[t] = "fired"   => ~wake[t]
               /\ timer[t] = "handled" => wake[t] /\ ~Queued(t)
          ELSE ~Queued(t) /\ (wake[t] => at[t] = "yielded")
    /\ suspended # <<>> => owner # NoThread

(* try_lock_for and try_lock_until return, also when the mutex is never
   unlocked.  If callers that have it always unlock it again, and nobody is
   interrupted, every untimed lock() gets it in the end.                   *)
TimedLockReturns(t) == Waiting(t) /\ timer[t] # "none" ~> at[t] = "user"
UntimedLockReturns(t) == Waiting(t) /\ timer[t] = "none" ~> holds[t]
CallersUnlock == \A t \in Threads : []~interrupted[t] /\ []<>~holds[t]
EveryLockReturns ==
    \A t \in Threads : /\ TimedLockReturns(t)
                       /\ CallersUnlock => UntimedLockReturns(t)
=============================================================================
