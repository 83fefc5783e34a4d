-------------------------------- MODULE Mutex --------------------------------
(***************************************************************************)
(* boost::green_thread::mutex: FIFO queue of suspended threads, ownership  *)
(* handed directly from unlock() to the oldest of them.                    *)
(*                                                                         *)
(* The green threads run on several workers and may call lock, try_lock,   *)
(* unlock and interrupt each other at any time.  Suspension and activation *)
(* are those of Suspension.tla (ThreadObject implements it).  The sections *)
(* under the spinlock mtx_ are one step each; what happens between         *)
(* releasing it in relock_guard and taking it again is not.                *)
(***************************************************************************)
EXTENDS Naturals, Sequences

CONSTANTS Threads,      \* the green threads using the mutex
          NoThread      \* the empty owner_

ASSUME NoThreadAssumption == NoThread \notin Threads

VARIABLES owner,        \* owner_
          suspended,    \* suspended_
          at,           \* where each thread is in lock() or unlock()
          wake,         \* an activation of the thread is posted
          holds,        \* the last lock()/try_lock() told its caller it has
                        \* the mutex, and it has not called unlock() since
          interrupted,  \* interrupt_requested_
          shielded      \* interrupt_disable_level_ > 0

vars == <<owner, suspended, at, wake, holds, interrupted, shielded>>

(* "user": in the caller's code; "pausing": queued, mtx_ released, not yet
   switched out; "paused": switched out; "resumed": running again inside
   pause(); "yielding": has handed the mutex over, mtx_ released;
   "switching": switched out with READY; "yielded": posted again.          *)
Places == {"user", "pausing", "paused", "resumed",
           "yielding", "switching", "yielded"}

Init == /\ owner = NoThread
        /\ suspended = <<>>
        /\ at = [t \in Threads |-> "user"]
        /\ wake = [t \in Threads |-> FALSE]
        /\ holds = [t \in Threads |-> FALSE]
        /\ interrupted = [t \in Threads |-> FALSE]
        /\ shielded = [t \in Threads |-> FALSE]

Go(t, from, to) == at[t] = from /\ at' = [at EXCEPT ![t] = to]

-----------------------------------------------------------------------------
(* lock: nobody owns the mutex.  (With the caller as owner it throws
   DEADLOCK and changes nothing.)                                          *)
LockFree(t) == /\ at[t] = "user"
               /\ owner = NoThread
               /\ owner' = t
               /\ holds' = [holds EXCEPT ![t] = TRUE]
               /\ UNCHANGED <<suspended, at, wake, interrupted, shielded>>

(* Variant: the newest waiter goes to the front.                           *)
LockWaitFront(t) == /\ Go(t, "user", "pausing")
                    /\ owner \notin {NoThread, t}
                    /\ suspended' = <<t>> \o suspended
                    /\ UNCHANGED <<owner, wake, holds, interrupted, shielded>>

(* lock: another thread owns it; queue up, release mtx_, pause.            *)
LockWait(t) == /\ Go(t, "user", "pausing")
               /\ owner \notin {NoThread, t}
               /\ suspended' = Append(suspended, t)
               /\ UNCHANGED <<owner, wake, holds, interrupted, shielded>>

(* try_lock; an owner is told it has the mutex.  (Otherwise it returns
   false and changes nothing.)                                             *)
TryLock(t) == /\ at[t] = "user"
              /\ owner \in {NoThread, t}
              /\ owner' = t
              /\ holds' = [holds EXCEPT ![t] = TRUE]
              /\ UNCHANGED <<suspended, at, wake, interrupted, shielded>>

(* unlock by the owner, nobody waits.  (By another thread it throws NOPERM
   and changes nothing.)                                                   *)
UnlockFree(t) == /\ at[t] = "user"
                 /\ owner = t
                 /\ suspended = <<>>
                 /\ owner' = NoThread
                 /\ holds' = [holds EXCEPT ![t] = FALSE]
                 /\ UNCHANGED <<suspended, at, wake, interrupted, shielded>>

(* Variants of the hand-over: the waiter is not resumed; the mutex is freed
   and the waiter left to find out; the new owner stays in the queue.    *)
HandOffSilently(t) == /\ Go(t, "user", "yielding")
                      /\ owner = t
                      /\ suspended # <<>>
                      /\ owner' = Head(suspended)
                      /\ suspended' = Tail(suspended)
                      /\ holds' = [holds EXCEPT ![t] = FALSE]
                      /\ UNCHANGED <<wake, interrupted, shielded>>
FreeAndResume(t) == /\ Go(t, "user", "yielding")
                    /\ owner = t
                    /\ suspended # <<>>
                    /\ owner' = NoThread
                    /\ suspended' = Tail(suspended)
                    /\ wake' = [wake EXCEPT ![Head(suspended)] = TRUE]
                    /\ holds' = [holds EXCEPT ![t] = FALSE]
                    /\ UNCHANGED <<interrupted, shielded>>
HandOffQueued(t) == /\ Go(t, "user", "yielding")
                    /\ owner = t
                    /\ suspended # <<>>
                    /\ owner' = Head(suspended)
                    /\ wake' = [wake EXCEPT ![Head(suspended)] = TRUE]
                    /\ holds' = [holds EXCEPT ![t] = FALSE]
                    /\ UNCHANGED <<suspended, interrupted, shielded>>

(* unlock by the owner: the oldest waiter becomes the owner and is resumed;
   release mtx_, then yield to it.                                         *)
UnlockHandOff(t) == /\ Go(t, "user", "yielding")
                    /\ owner = t
                    /\ suspended # <<>>
                    /\ owner' = Head(suspended)
                    /\ suspended' = Tail(suspended)
                    /\ wake' = [wake EXCEPT ![Head(suspended)] = TRUE]
                    /\ holds' = [holds EXCEPT ![t] = FALSE]
                    /\ UNCHANGED <<interrupted, shielded>>

-----------------------------------------------------------------------------
(* pause: switch out, and go on once activated.                            *)
SwitchOut(t) == /\ Go(t, "pausing", "paused")
                /\ UNCHANGED <<owner, suspended, wake, holds, interrupted,
                               shielded>>

Activated(t) == /\ Go(t, "paused", "resumed")
                /\ wake[t]
                /\ wake' = [wake EXCEPT ![t] = FALSE]
                /\ UNCHANGED <<owner, suspended, holds, interrupted, shielded>>

Interruptible(t) == interrupted[t] /\ ~shielded[t]

(* pause and lock return: the caller takes it that it has the mutex.       *)
LockReturns(t) == /\ Go(t, "resumed", "user")
                  /\ ~Interruptible(t)
                  /\ holds' = [holds EXCEPT ![t] = TRUE]
                  /\ UNCHANGED <<owner, suspended, wake, interrupted, shielded>>

(* pause throws thread_interrupted, and so does lock.                      *)
LockThrows(t) == /\ Go(t, "resumed", "user")
                 /\ Interruptible(t)
                 /\ UNCHANGED <<owner, suspended, wake, holds, interrupted,
                                shielded>>

(* yield(owner_) at the end of unlock.  owner_ is read after mtx_ has been
   released, while other threads may assign it, so the hint is arbitrary:
   yield may return at once, or switch out and post itself again.          *)
YieldReturns(t) == /\ Go(t, "yielding", "user")
                   /\ UNCHANGED <<owner, suspended, wake, holds, interrupted,
                                  shielded>>

YieldSwitches(t) == /\ Go(t, "yielding", "switching")
                    /\ UNCHANGED <<owner, suspended, wake, holds, interrupted,
                                   shielded>>

Reposted(t) == /\ Go(t, "switching", "yielded")
               /\ wake' = [wake EXCEPT ![t] = TRUE]
               /\ UNCHANGED <<owner, suspended, holds, interrupted, shielded>>

UnlockReturns(t) == /\ Go(t, "yielded", "user")
                    /\ wake[t]
                    /\ wake' = [wake EXCEPT ![t] = FALSE]
                    /\ UNCHANGED <<owner, suspended, holds, interrupted,
                                   shielded>>

-----------------------------------------------------------------------------
(* thread::interrupt, by anybody: dropped while interruption is disabled,
   never cleared once recorded.                                            *)
Interrupt(t) == /\ ~shielded[t]
                /\ interrupted' = [interrupted EXCEPT ![t] = TRUE]
                /\ UNCHANGED <<owner, suspended, at, wake, holds, shielded>>

(* Entering and leaving a disable_interruption scope.                      *)
Shield(t) == /\ at[t] = "user"
             /\ shielded' = [shielded EXCEPT ![t] = ~@]
             /\ UNCHANGED <<owner, suspended, at, wake, holds, interrupted>>

Acquire(t) == LockFree(t) \/ LockWait(t) \/ TryLock(t)
Release(t) == UnlockFree(t) \/ UnlockHandOff(t)
Inside(t) == \/ SwitchOut(t) \/ Activated(t) \/ LockReturns(t) \/ LockThrows(t)
             \/ YieldReturns(t) \/ YieldSwitches(t) \/ Reposted(t)
             \/ UnlockReturns(t)

Next == \E t \in Threads : \/ Acquire(t) \/ Release(t) \/ Inside(t)
                            \/ Shield(t) \/ Interrupt(t)

Spec == Init /\ [][Next]_vars

(* Fairness: workers run the threads that are activated.                   *)
FairSpec == Spec /\ \A t \in Threads : WF_vars(Inside(t))

-----------------------------------------------------------------------------
(* Properties.                                                             *)

(* Every variable stays in its domain.                                     *)
TypeOK == /\ owner \in Threads \cup {NoThread}
          /\ suspended \in Seq(Threads)
          /\ at \in [Threads -> Places]
          /\ wake \in [Threads -> BOOLEAN]
          /\ holds \in [Threads -> BOOLEAN]
          /\ interrupted \in [Threads -> BOOLEAN]
          /\ shielded \in [Threads -> BOOLEAN]

(* Two callers never both believe that they have the mutex, although a
   woken waiter takes it from lock() without looking at owner_ again.      *)
MutualExclusion == \A t, u \in Threads : holds[t] /\ holds[u] => t = u

(* The mutex is never free while somebody is queued for it: nobody can
   overtake the queue through the fast path of lock() or try_lock().       *)
HeldWhileWaited == suspended # <<>> => owner # NoThread

Waiting(t) == at[t] \in {"pausing", "paused"}
Queued(t) == \E i \in 1..Len(suspended) : suspended[i] = t

(* A thread inside the wait of lock() is in the queue or owns the mutex with
   its activation posted, never both and never neither: no wake-up is lost
   between queueing, releasing mtx_ and switching out.                     *)
NoWaiterLost ==
    \A t \in Threads : Waiting(t) => (Queued(t) <=> ~(owner = t /\ wake[t]))

(* Ownership passes to waiters in the order in which they queued up: a thread
   that is ahead of another, in the queue or by being in it, stays so until
   it gets the mutex, whatever is interrupted or yields.                   *)
Index(q, t) == CHOOSE i \in 1..Len(q) : q[i] = t
Ahead(t, u) == /\ Queued(t)
               /\ Queued(u) => Index(suspended, t) < Index(suspended, u)
FirstComeFirstServed ==
    [][/\ suspended # <<>> /\ owner' # owner => owner' = Head(suspended)
       /\ \A t, u \in Threads :
            t # u /\ Ahead(t, u) /\ Queued(t)' => Ahead(t, u)']_vars

(* The mutex uses suspension as ThreadObject provides it: it resumes only
   threads that are switched out or have queued up to be, whether to wait
   or to yield, and a thread goes on only when it has been resumed.        *)
ctx == [t \in Threads |->
          IF at[t] = "pausing" THEN "parking"
          ELSE IF at[t] \in {"paused", "switching", "yielded"} THEN "parked"
          ELSE "running"]
Kernel == INSTANCE Suspension
UsesSuspension == [][Kernel!Next]_<<ctx, wake>>

(* If callers that have the mutex always unlock it again, and nobody is
   interrupted, then every lock() returns: no waiter starves.              *)
EveryLockReturns ==
    (\A t \in Threads : []~interrupted[t] /\ []<>~holds[t])
       => \A t \in Threads : Waiting(t) ~> holds[t]
=============================================================================
