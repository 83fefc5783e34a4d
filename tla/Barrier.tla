------------------------------- MODULE Barrier -------------------------------
(***************************************************************************)
(* boost::green_thread::barrier, composed with the condition variable and, *)
(* through it, the mutex it is made of (their actions unchanged).  Nobody  *)
(* else uses that condition variable, so flag stays FALSE and nobody owes  *)
(* a notification.                                                         *)
(*                                                                         *)
(* The thread that completes a generation calls the completion function    *)
(* with the mutex locked.  Its result is the size of the next generation;  *)
(* when it throws, the new generation has begun with a count of zero and   *)
(* nobody is notified.  A thread interrupted in wait() has been counted    *)
(* and stays in the condition variable until its generation is complete.   *)
(***************************************************************************)
EXTENDS ConditionVariable

CONSTANTS MayInterrupt,     \* the threads that may be interrupted
          Sizes,            \* what the constructor and the function return
          FunctionThrows,   \* whether the completion function may throw
          Width,            \* number of values of unsigned int
          MaxGeneration     \* bound: generations completed

ASSUME SizesAssumption == Sizes \subseteq 1..(Width - 1)

(* m_generation does not wrap around: whoever locks the mutex before the
   bound may complete a generation after it.                               *)
ASSUME WidthAssumption == /\ Width \in Nat /\ MaxGeneration \in Nat
                          /\ IsFiniteSet(Threads)
                          /\ MaxGeneration + Cardinality(Threads) < Width

VARIABLES count,        \* m_count
          generation,   \* m_generation
          size,         \* what m_count was set to for this generation
          call,         \* where each thread is in barrier::wait
          gen,          \* gen, of the call
          failed        \* a completion function has thrown

barrierVars == <<count, generation, size, gen, failed>>
allVars == <<cvVars, barrierVars, call>>

(* "locking": in the constructor of the lock; "waiting": counted;
   "completing": about to notify; "leaving": about to unlock and return or
   throw; otherwise "out".                                                 *)
BarrierInit == /\ CVInit
               /\ count \in Sizes
               /\ size = count
               /\ generation = 0
               /\ call = [t \in Threads |-> "out"]
               /\ gen = [t \in Threads |-> 0]
               /\ failed = FALSE

To(t, place) == call' = [call EXCEPT ![t] = place]
InUserCode(t) == at[t] = "user" /\ in[t] = "out"

-----------------------------------------------------------------------------
(* wait, by a thread that has nothing else of the barrier to do.           *)

Lock(t) == /\ call[t] = "out"
           /\ generation < MaxGeneration
           /\ InUserCode(t)
           /\ LockFree(t) \/ LockWait(t)
           /\ To(t, "locking")
           /\ UNCHANGED <<waitVars, clientVars, barrierVars>>

Locked(t) == call[t] = "locking" /\ InUserCode(t) /\ holds[t]

Decremented == (count + Width - 1) % Width

(* --m_count is not zero: remember the generation and wait.                *)
Arrive(t) == /\ Locked(t)
             /\ Decremented # 0
             /\ count' = Decremented
             /\ gen' = [gen EXCEPT ![t] = generation]
             /\ Wait(t)
             /\ To(t, "waiting")
             /\ UNCHANGED <<generation, size, failed>>

(* Variant: the count is left where it is.                                 *)
CompleteUnreset(t, n) == /\ Locked(t)
                         /\ Decremented = 0
                         /\ generation' = (generation + 1) % Width
                         /\ count' = Decremented
                         /\ size' = n
                         /\ To(t, "completing")
                         /\ UNCHANGED <<cvVars, gen, failed>>

(* --m_count is zero: the next generation begins, n threads strong.        *)
Complete(t, n) == /\ Locked(t)
                  /\ Decremented = 0
                  /\ generation' = (generation + 1) % Width
                  /\ count' = n
                  /\ size' = n
                  /\ To(t, "completing")
                  /\ UNCHANGED <<cvVars, gen, failed>>

(* ... or the completion function throws, and m_count stays zero.          *)
CompletionThrows(t) == /\ FunctionThrows
                       /\ Locked(t)
                       /\ Decremented = 0
                       /\ generation' = (generation + 1) % Width
                       /\ count' = Decremented
                       /\ failed' = TRUE
                       /\ To(t, "leaving")
                       /\ UNCHANGED <<cvVars, size, gen>>

(* Variant: one waiter is notified.                                        *)
NotifyOnly(t) == /\ call[t] = "completing"
                 /\ NotifyOne(t)
                 /\ To(t, "leaving")
                 /\ UNCHANGED barrierVars

NotifyWaiters(t) == /\ call[t] = "completing"
                    /\ NotifyAll(t)
                    /\ To(t, "leaving")
                    /\ UNCHANGED barrierVars

(* The steps of m_cond.wait; thrown out of it, the call ends.              *)
InCondWait(t) == /\ InWait(t)
                 /\ To(t, IF in[t] = "unwinding" /\ in'[t] = "out"
                          THEN "leaving" ELSE call[t])
                 /\ UNCHANGED barrierVars

(* The test of the loop after it.                                          *)
WaitAgain(t) == /\ call[t] = "waiting"
                /\ InUserCode(t)
                /\ gen[t] = generation
                /\ Wait(t)
                /\ UNCHANGED <<call, barrierVars>>
LeaveLoop(t) == /\ call[t] = "waiting"
                /\ InUserCode(t)
                /\ gen[t] # generation
                /\ To(t, "leaving")
                /\ UNCHANGED <<cvVars, barrierVars>>

(* The destructor of the lock.                                             *)
UnlockAndReturn(t) == /\ call[t] = "leaving"
                      /\ InUserCode(t)
                      /\ Release(t)
                      /\ To(t, "out")
                      /\ UNCHANGED <<waitVars, clientVars, barrierVars>>

(* Switching out and in; an interrupted lock() throws, and so does wait().  *)
Switches(t) == /\ InsideCalls(t)
               /\ To(t, IF at[t] = "resumed" /\ at'[t] = "user" /\ ~holds'[t]
                        THEN "out" ELSE call[t])
               /\ UNCHANGED barrierVars

IsInterrupted(t) == /\ t \in MayInterrupt
                    /\ ~interrupted[t]
                    /\ InterruptCaller(t)
                    /\ UNCHANGED <<call, barrierVars>>

Proceeds(t) == \/ Arrive(t) \/ \E n \in Sizes : Complete(t, n)
               \/ CompletionThrows(t) \/ NotifyWaiters(t)
               \/ WaitAgain(t) \/ LeaveLoop(t) \/ UnlockAndReturn(t)
               \/ InCondWait(t) \/ Switches(t)

BarrierNext == /\ Alive
               /\ \E t \in Threads : Lock(t) \/ Proceeds(t) \/ IsInterrupted(t)

BarrierSpec == BarrierInit /\ [][BarrierNext]_allVars

(* Fairness: workers run the threads that are activated.  Nobody has to
   call wait().                                                            *)
BarrierFairSpec ==
    BarrierSpec /\ \A t \in Threads : WF_allVars(Alive /\ Proceeds(t))

-----------------------------------------------------------------------------
(* Properties.                                                             *)

(* Between two calls m_count is what is missing from this generation: the
   threads counted for it are exactly those that wait for it -- no thread
   is counted twice, none leaves while its generation is incomplete, and an
   interrupted one stays as well -- unless a completion function has
   thrown.                                                                 *)
Counted == {t \in Threads : call[t] = "waiting" /\ gen[t] = generation}
CountExact == ~failed => count + Cardinality(Counted) = size

(* Every thread of a completed generation leaves, if the completion function
   returns and nobody is interrupted.                                      *)
GenerationsLeave ==
    [](~failed /\ Calm) => \A t \in Threads :
                 (call[t] = "waiting" /\ gen[t] # generation)
                    ~> call[t] # "waiting"
=============================================================================
