-------------------------- MODULE ConditionVariable --------------------------
(***************************************************************************)
(* boost::green_thread::condition_variable composed with the mutex its     *)
(* waiters hold (module Mutex, every action of it unchanged).              *)
(*                                                                         *)
(* wait() queues the thread, unlocks the mutex, pauses, and locks the      *)
(* mutex again in the destructor of relock_guard -- also when pause has    *)
(* thrown.  unlock() may yield on the way, so that the thread can be       *)
(* notified, and even its timer handled, while the activation that ends    *)
(* the yield is still posted.  The two activations of the thread are then  *)
(* kept apart here as wake (the mutex's) and notified (the condition       *)
(* variable's): the code consumes them one after the other, whichever      *)
(* comes first.                                                            *)
(***************************************************************************)
EXTENDS Mutex, SequencesExt

VARIABLES cond,         \* suspended_ of the condition variable
          timer,        \* the timer of a waiter, and then the status it set
          in,           \* where each thread is in wait()
          notified,     \* the activation that ends the wait is posted
          flag,         \* the condition that the callers wait for
          mustNotify    \* callers that set flag and have yet to notify

mutexVars == vars
waitVars == <<cond, timer, in, notified>>
clientVars == <<flag, mustNotify>>
cvVars == <<mutexVars, waitVars, clientVars>>

(* "queued": on the queue, about to unlock; "unlocked": has released the
   mutex, perhaps still inside a yielding unlock; "paused"; "relock": pause
   returned; "unwinding": pause threw; "terminated": lock() threw in the
   destructor of relock_guard, which is noexcept.  A timer is "none",
   "armed", "expired" or "cancelled"; once its handler has run it holds the
   status that wait_rel returns.                                           *)

CVInit == /\ Init
          /\ cond = <<>>
          /\ timer = [t \in Threads |-> "none"]
          /\ in = [t \in Threads |-> "out"]
          /\ notified = [t \in Threads |-> FALSE]
          /\ flag = FALSE
          /\ mustNotify = {}

Move(t, from, to) == in[t] = from /\ in' = [in EXCEPT ![t] = to]

-----------------------------------------------------------------------------
(* wait and wait_rel.                                                      *)

(* Queue up, holding the mutex; x is the state of the caller's timer.      *)
Enqueue(t, x) == /\ Move(t, "out", "queued")
                 /\ at[t] = "user"
                 /\ holds[t]
                 /\ ~flag
                 /\ owner = t
                 /\ cond' = Append(cond, t)
                 /\ timer' = [timer EXCEPT ![t] = x]
                 /\ UNCHANGED <<mutexVars, notified, clientVars>>
Wait(t) == Enqueue(t, "none")
WaitRel(t) == Enqueue(t, "armed")

(* The constructor of relock_guard: mutex::unlock, all of it.              *)
Unlock(t) == /\ Move(t, "queued", "unlocked")
             /\ Release(t)
             /\ UNCHANGED <<cond, timer, notified, clientVars>>

(* pause, once unlock has returned.                                        *)
Pause(t) == /\ Move(t, "unlocked", "paused")
            /\ at[t] = "user"
            /\ UNCHANGED <<mutexVars, cond, timer, notified, clientVars>>

PauseEnds(t, to) == /\ Move(t, "paused", to)
                    /\ notified[t]
                    /\ notified' = [notified EXCEPT ![t] = FALSE]
                    /\ UNCHANGED <<mutexVars, cond, timer, clientVars>>
PauseReturns(t) == ~Interruptible(t) /\ PauseEnds(t, "relock")
PauseThrows(t) == Interruptible(t) /\ PauseEnds(t, "unwinding")

Relocking(t) == in[t] \in {"relock", "unwinding"}
Leave(t) == /\ in' = [in EXCEPT ![t] = "out"]
            /\ timer' = [timer EXCEPT ![t] = "none"]

(* Variant: the destructor only tries to lock.                             *)
RelockTries(t) == /\ Relocking(t)
                  /\ at[t] = "user"
                  /\ LockFree(t) \/ (owner # NoThread /\ UNCHANGED mutexVars)
                  /\ Leave(t)
                  /\ UNCHANGED <<cond, notified, clientVars>>

(* The destructor of relock_guard: mutex::lock, and the end of the wait.   *)
RelockFree(t) == /\ Relocking(t)
                 /\ LockFree(t)
                 /\ Leave(t)
                 /\ UNCHANGED <<cond, notified, clientVars>>
RelockWait(t) == /\ Relocking(t)
                 /\ LockWait(t)
                 /\ UNCHANGED <<waitVars, clientVars>>
RelockReturns(t) == /\ Relocking(t)
                    /\ LockReturns(t)
                    /\ Leave(t)
                    /\ UNCHANGED <<cond, notified, clientVars>>
RelockThrows(t) == /\ Relocking(t)
                   /\ LockThrows(t)
                   /\ in' = [in EXCEPT ![t] = "terminated"]
                   /\ UNCHANGED <<cond, timer, notified, clientVars>>

-----------------------------------------------------------------------------
(* The timer of wait_rel.                                                  *)

Expires(t) == /\ timer[t] = "armed"
              /\ timer' = [timer EXCEPT ![t] = "expired"]
              /\ UNCHANGED <<mutexVars, cond, in, notified, clientVars>>

(* The handler is wrapped in the strand of its thread, so it runs while the
   thread is switched out: paused, or posted again by a yielding unlock.   *)
Handled(t, from, to) == /\ timer[t] = from
                        /\ in[t] = "paused" \/ at[t] = "yielded"
                        /\ timer' = [timer EXCEPT ![t] = to]
                        /\ notified' = [notified EXCEPT ![t] = TRUE]
                        /\ UNCHANGED <<mutexVars, in, clientVars>>

(* Variant: a thread that timed out stays in the queue.                    *)
TimeoutKeepsQueue(t) == /\ Handled(t, "expired", "timeout")
                        /\ UNCHANGED cond

(* Variant: a handler that does not find its thread leaves it alone.       *)
TimeoutOnlyQueued(t) == /\ Handled(t, "expired", "timeout")
                        /\ Contains(cond, t)
                        /\ cond' = RemoveFirst(cond, t)

(* timeout_handler without error: the thread leaves the queue, if no notify
   has taken it; in either case it is resumed and told of the timeout.     *)
TimeoutHandler(t) == /\ Handled(t, "expired", "timeout")
                     /\ cond' = RemoveFirst(cond, t)

(* Variant: the handler of a cancelled timer returns at once.              *)
CancelIgnored(t) == /\ timer[t] = "cancelled"
                    /\ in[t] = "paused"
                    /\ timer' = [timer EXCEPT ![t] = "no_timeout"]
                    /\ UNCHANGED <<mutexVars, cond, in, notified, clientVars>>

(* timeout_handler of a cancelled timer.                                   *)
CancelHandler(t) == /\ Handled(t, "cancelled", "no_timeout")
                    /\ UNCHANGED cond

-----------------------------------------------------------------------------
(* notify_one and notify_all.                                              *)

(* Variant: notify resumes waiters with a timer as well.                   *)
WakesDirectly(W) == /\ timer' = [t \in Threads |->
                          IF t \in W /\ timer[t] = "armed" THEN "cancelled"
                                                           ELSE timer[t]]
                    /\ notified' = [t \in Threads |->
                                     notified[t] \/ t \in W]

(* Every thread of W has been taken from the queue: cancel its timer (no
   effect if it has expired), or resume it if it has none.                 *)
Wakes(W) == /\ timer' = [t \in Threads |->
                          IF t \in W /\ timer[t] = "armed" THEN "cancelled"
                                                           ELSE timer[t]]
            /\ notified' = [t \in Threads |->
                             notified[t] \/ (t \in W /\ timer[t] = "none")]

(* On an empty queue notify_one returns and changes nothing.               *)
TakeOne == /\ cond # <<>>
           /\ Wakes({Head(cond)})
           /\ cond' = Tail(cond)
TakeAll == /\ Wakes(ToSet(cond))
           /\ cond' = <<>>

(* In a green thread both end with a yield without hint.                   *)
Yield(t) == /\ in[t] = "out"
            /\ Go(t, "user", "switching")
            /\ UNCHANGED <<owner, suspended, wake, holds, interrupted,
                           shielded, in, flag>>
NotifyOne(t) == TakeOne /\ Yield(t) /\ UNCHANGED mustNotify

NotifyAll(t) == TakeAll /\ Yield(t) /\ mustNotify' = mustNotify \ {t}

(* From a native thread.                                                   *)
NotifyFromOutside == TakeOne \/ TakeAll
ForeignNotify == /\ NotifyFromOutside
                 /\ UNCHANGED <<mutexVars, in, clientVars>>

-----------------------------------------------------------------------------
(* The callers: they lock, unlock and interrupt as they like, wait in a loop
   while flag is FALSE, set it with the mutex locked and then notify all.  *)

Client(t) == /\ in[t] = "out"
             /\ Acquire(t) \/ Release(t)
             /\ UNCHANGED <<waitVars, clientVars>>

SetFlag(t) == /\ in[t] = "out"
              /\ at[t] = "user"
              /\ holds[t]
              /\ ~flag
              /\ flag' = TRUE
              /\ mustNotify' = mustNotify \cup {t}
              /\ UNCHANGED <<mutexVars, waitVars>>

(* Switching out and in, inside the calls of the mutex and of notify.      *)
InsideCalls(t) == /\ \/ SwitchOut(t) \/ Activated(t) \/ YieldReturns(t)
                     \/ YieldSwitches(t) \/ Reposted(t) \/ UnlockReturns(t)
                     \/ in[t] = "out" /\ (LockReturns(t) \/ LockThrows(t))
                  /\ UNCHANGED <<waitVars, clientVars>>

InterruptCaller(t) == Interrupt(t) /\ UNCHANGED <<waitVars, clientVars>>

Waits(t) == Wait(t) \/ WaitRel(t)
InWait(t) == \/ Unlock(t) \/ Pause(t) \/ PauseReturns(t) \/ PauseThrows(t)
             \/ RelockFree(t) \/ RelockWait(t) \/ RelockReturns(t)
             \/ RelockThrows(t)
Timers(t) == Expires(t) \/ TimeoutHandler(t) \/ CancelHandler(t)

(* The process is gone once std::terminate has been called.                *)
Alive == \A t \in Threads : in[t] # "terminated"

CVNext == /\ Alive
          /\ \/ ForeignNotify
             \/ \E t \in Threads : \/ Client(t) \/ SetFlag(t) \/ InsideCalls(t)
                                   \/ Waits(t) \/ InWait(t) \/ Timers(t)
                                   \/ NotifyOne(t) \/ NotifyAll(t)
                                   \/ InterruptCaller(t)

CVSpec == CVInit /\ [][CVNext]_cvVars

(* Fairness: activated threads run and timers are handled; a caller unlocks
   and notifies as it must, whatever else it calls in between.             *)
Fairness == \A t \in Threads :
               /\ WF_cvVars(InsideCalls(t))
               /\ WF_cvVars(InWait(t)) /\ WF_cvVars(Timers(t))
               /\ SF_cvVars(holds[t] /\ Client(t) /\ Release(t))
               /\ SF_cvVars(t \in mustNotify /\ NotifyAll(t))

CVFairSpec == CVSpec /\ Fairness

-----------------------------------------------------------------------------
(* Properties.                                                             *)

(* wait() returns and throws only with the mutex locked by its caller,
   whoever barged in on the way and however the wait ended.                *)
WaitEndsLocked ==
    [][\A t \in Threads : Relocking(t) /\ in'[t] = "out" => holds'[t]]_cvVars

(* From the moment it is queued -- before it releases the mutex -- until it
   is resumed, a waiter is woken by exactly one party: a notify still to
   come, its timer's handler, or an activation posted already; a notify can
   take it until its timer expires, and no more once it has been woken.
   Outside wait() nothing that could wake it is left over.                 *)
Parties(t) ==
    {p \in {"queue"} : Contains(cond, t) /\ timer[t] = "none"}
    \cup {p \in {"timer"} : timer[t] \in {"armed", "expired", "cancelled"}}
    \cup {p \in {"posted"} : notified[t]}

OneWakeUp ==
    /\ IsInjective(cond)
    /\ \A t \in Threads :
          IF in[t] \in {"queued", "unlocked", "paused"}
          THEN /\ \E p \in {"queue", "timer", "posted"} : Parties(t) = {p}
               /\ timer[t] = "armed" => Contains(cond, t)
               /\ Contains(cond, t) => ~notified[t]
          ELSE Parties(t) = {} /\ ~Contains(cond, t)

(* Waiting in a loop for a condition that is set under the mutex and
   announced with notify_all ends, if nobody is interrupted: the
   notification is not lost between the test of the condition and the
   pause.  (An interrupted lock() leaves the mutex with a thread that does
   not know it; an interrupted second lock ends the program.)              *)
Calm == \A t \in Threads : ~interrupted[t]
NotifiedWaitsEnd ==
    []Calm => \A t \in Threads : flag /\ in[t] # "out" ~> in[t] = "out"

(* Seen from its callers it is a Condition: a waiter is in the queue until
   a notify or its own timer's handler takes it, and then returns, or
   throws, with the status settled at that moment.                         *)
Status(t) ==
    IF in[t] = "out" THEN "out"
    ELSE IF Contains(cond, t) THEN IF timer[t] = "none" THEN "waiting" ELSE "timed"
    ELSE IF timer[t] \in {"expired", "timeout"} THEN "timeout" ELSE "no_timeout"
C == INSTANCE Condition WITH queue <- cond,
                             status <- [t \in Threads |-> Status(t)]
ImplementsCondition == C!Spec

(* And no wait that was woken or has a timer lasts for ever if nobody is
   interrupted.                                                            *)
ImplementsFairCondition == ImplementsCondition /\ ([]Calm => C!Fairness)
=============================================================================
