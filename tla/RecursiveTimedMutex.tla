------------------------- MODULE RecursiveTimedMutex -------------------------
(***************************************************************************)
(* boost::green_thread::recursive_timed_mutex: a timed_mutex whose owner   *)
(* may lock it again, counted by level_.  Its code repeats timed_mutex's;  *)
(* each action here is the action of TimedMutex together with what happens *)
(* to level_, and the actions of an owner that locks again or undoes such  *)
(* a lock.                                                                 *)
(***************************************************************************)
EXTENDS Naturals, Sequences

CONSTANTS Threads, NoThread,
          MaxLevel      \* bound on level_: how often an owner locks again

ASSUME NoThreadAssumption == NoThread \notin Threads
ASSUME LevelAssumption == MaxLevel \in Nat \ {0}

VARIABLES owner, suspended, timer, at, wake, holds, interrupted, \* TimedMutex
          level,        \* level_
          depth         \* the locks each caller was told it has

timedVars == <<owner, suspended, timer, at, wake, holds, interrupted>>
vars == <<timedVars, level, depth>>

T == INSTANCE TimedMutex

(* The constructor leaves level_ uninitialized.                            *)
Init == /\ T!Init
        /\ level \in 0..MaxLevel
        /\ depth = [t \in Threads |-> 0]

Depth(t, n) == depth' = [depth EXCEPT ![t] = n]

-----------------------------------------------------------------------------
(* lock, try_lock and try_lock_rel on a free mutex.                        *)
LockFree(t) == T!LockFree(t) /\ level' = 1 /\ Depth(t, 1)

(* All three by the owner: one level more.                                 *)
LockAgain(t) == /\ at[t] = "user"
                /\ owner = t
                /\ level < MaxLevel
                /\ level' = level + 1
                /\ Depth(t, depth[t] + 1)
                /\ holds' = [holds EXCEPT ![t] = TRUE]
                /\ UNCHANGED <<owner, suspended, timer, at, wake, interrupted>>

(* lock and try_lock_rel while another thread has it.                      *)
LockWait(t) == T!LockWait(t) /\ UNCHANGED <<level, depth>>
TryLockRelWait(t) == T!TryLockRelWait(t) /\ UNCHANGED <<level, depth>>

(* Callers undo only the locks they have.                                  *)
Undo(t) == depth[t] > 0 /\ Depth(t, depth[t] - 1)

(* unlock of the owner: one level less ...                                 *)
UnlockAgain(t) == /\ at[t] = "user"
                  /\ owner = t
                  /\ level > 1
                  /\ level' = level - 1
                  /\ Undo(t)
                  /\ holds' = [holds EXCEPT ![t] = depth[t] > 1]
                  /\ UNCHANGED <<owner, suspended, timer, at, wake,
                                 interrupted>>

(* ... and at the last one, with nobody or somebody waiting.               *)
UnlockFree(t) == /\ level = 1
                 /\ T!UnlockFree(t)
                 /\ level' = 0
                 /\ Undo(t)

(* Variant: the new owner starts at level 0.                               *)
HandOffAtZero(t) == /\ level = 1
                    /\ T!UnlockHandOff(t)
                    /\ level' = 0
                    /\ Undo(t)

UnlockHandOff(t) == /\ level = 1
                    /\ T!UnlockHandOff(t)
                    /\ level' = 1
                    /\ Undo(t)

(* Variant: the handler leaves its thread in the queue.                    *)
TimeoutKeepsQueue(t) == T!TimeoutKeepsQueue(t) /\ UNCHANGED <<level, depth>>

Expires(t) == T!Expires(t) /\ UNCHANGED <<level, depth>>
TimeoutHandler(t) == T!TimeoutHandler(t) /\ UNCHANGED <<level, depth>>

(* The end of a wait, with or without the mutex.                           *)
WaitReturns(t) == /\ T!WaitReturns(t)
                  /\ Depth(t, IF holds'[t] THEN 1 ELSE 0)
                  /\ UNCHANGED level

Switches(t) == /\ \/ T!SwitchOut(t) \/ T!Activated(t) \/ T!WaitThrows(t)
                  \/ T!YieldReturns(t) \/ T!YieldSwitches(t)
                  \/ T!UnlockReturns(t)
               /\ UNCHANGED <<level, depth>>

Interrupt(t) == T!Interrupt(t) /\ UNCHANGED <<level, depth>>

Acquire(t) == \/ LockFree(t) \/ LockAgain(t)
              \/ LockWait(t) \/ TryLockRelWait(t)
Release(t) == UnlockAgain(t) \/ UnlockFree(t) \/ UnlockHandOff(t)
Inside(t) == WaitReturns(t) \/ Switches(t)
Timers(t) == Expires(t) \/ TimeoutHandler(t)

Next == \E t \in Threads :
           Acquire(t) \/ Release(t) \/ Inside(t) \/ Timers(t) \/ Interrupt(t)

Spec == Init /\ [][Next]_vars

(* Fairness: activated threads run, timers expire and their handlers run.  *)
FairSpec == Spec /\ \A t \in Threads : WF_vars(Inside(t)) /\ WF_vars(Timers(t))

-----------------------------------------------------------------------------
(* Properties.                                                             *)

(* A thread keeps the mutex until it has undone every lock that succeeded,
   whoever waits for it, times out or is interrupted.  As long as nobody has
   been interrupted level_ is the number of locks to undo -- one of them
   still to be told to a new owner that has not gone on yet.               *)
Interrupted == \E t \in Threads : interrupted[t]
OwnedWhileLocked ==
    \A t \in Threads : depth[t] > 0 => owner = t /\ depth[t] <= level
LevelCountsLocks ==
    /\ OwnedWhileLocked
    /\ \A t \in Threads : owner = t /\ ~Interrupted =>
          level = IF at[t] \in {"pausing", "paused", "resumed"}
                  THEN 1 ELSE depth[t]

(* Until then it is a timed_mutex, seen from outside.                      *)
ImplementsTimedMutex == [][Interrupted \/ T!Next]_T!vars

(* Every waiter is resumed exactly once, by a hand-over or by its timer,
   also when the two coincide and whatever the level of the owner is; the
   mutex goes only to threads that still wait for it.                      *)
OneResume == T!OneResume

(* Timed calls return; if callers that have the mutex undo all their locks
   again, and nobody is interrupted, every lock() gets it in the end.      *)
EveryLockReturns == T!EveryLockReturns
=============================================================================
