---------------------------- MODULE MonitorProofs ----------------------------
(***************************************************************************)
(* Proofs about Mutex, ConditionVariable and Barrier, each of which is     *)
(* composed of the ones before it, for every set of threads.               *)
(***************************************************************************)
EXTENDS Barrier, QueueFacts, FiniteSetTheorems

-----------------------------------------------------------------------------
(* The mutex.  MutualExclusion is not inductive: a woken waiter leaves     *)
(* lock() without looking at owner_, so one has to know that whoever woke  *)
(* it made it the owner.  IInv says this by accounting for every thread    *)
(* inside the wait of lock().                                              *)

(* A caller that believes it has the mutex is the owner, in its own code or
   in the yield at the end of a notify.                                    *)
HoldersOwn == \A t \in Threads :
                 holds[t] => owner = t /\ at[t] \in {"user", "switching", "yielded"}

(* The queue: threads that wait, are not the owner and have no activation
   posted, each queued once.                                               *)
QueueSound == /\ \A i \in 1..Len(suspended) :
                    /\ Waiting(suspended[i])
                    /\ owner # suspended[i]
                    /\ ~wake[suspended[i]]
              /\ \A i, j \in 1..Len(suspended) :
                    suspended[i] = suspended[j] => i = j

(* A thread in the wait of lock() that is not queued has been handed the
   mutex and activated.                                                    *)
WaitersAccounted ==
    \A t \in Threads : Waiting(t) /\ ~Queued(t) => owner = t /\ wake[t]

(* A thread that was activated in lock() owns the mutex.                   *)
ResumedOwn == \A t \in Threads : at[t] = "resumed" => owner = t

(* An activation is posted only for a thread that will consume it.         *)
NoStrayWake == \A t \in Threads :
                  wake[t] => at[t] \in {"pausing", "paused", "yielded"}

IInv == /\ TypeOK
        /\ HoldersOwn
        /\ QueueSound
        /\ HeldWhileWaited
        /\ WaitersAccounted
        /\ ResumedOwn
        /\ NoStrayWake
-----------------------------------------------------------------------------
(* What Append, Head and Tail do to a queue of threads.                    *)

(* A queue grows at its end only.                                          *)
LEMMA MutexAppendFacts ==
    ASSUME NEW q \in Seq(Threads), NEW t \in Threads
    PROVE  /\ Append(q, t) \in Seq(Threads)
           /\ Len(Append(q, t)) = Len(q) + 1
           /\ \A i \in 1..Len(q) : Append(q, t)[i] = q[i]
           /\ Append(q, t)[Len(q) + 1] = t
           /\ Len(q) \in Nat
BY SMT

(* A queue that is not empty shrinks at its front only.                    *)
LEMMA MutexTailFacts ==
    ASSUME NEW q \in Seq(Threads), q # <<>>
    PROVE  /\ Head(q) \in Threads
           /\ Head(q) = q[1]
           /\ Tail(q) \in Seq(Threads)
           /\ Len(q) \in Nat \ {0}
           /\ Len(Tail(q)) = Len(q) - 1
           /\ \A i \in 1..Len(Tail(q)) : Tail(q)[i] = q[i + 1]
BY SMT

-----------------------------------------------------------------------------
(* Type correctness.                                                       *)

(* The initial state is well typed.                                        *)
LEMMA InitTypeOK == Init => TypeOK
BY DEF Init, TypeOK, Places

(* Every step keeps every variable in its domain.                          *)
LEMMA NextTypeOK == TypeOK /\ [Next]_vars => TypeOK'
<1> SUFFICES ASSUME TypeOK, [Next]_vars PROVE TypeOK'
  OBVIOUS
<1> USE DEF TypeOK, Places, Go
<1>1. ASSUME NEW t \in Threads, Acquire(t) PROVE TypeOK'
  <2>1. CASE LockFree(t) \/ TryLock(t)
    BY <2>1 DEF LockFree, TryLock
  <2>2. CASE LockWait(t)
    BY <2>2, MutexAppendFacts DEF LockWait
  <2> QED BY <1>1, <2>1, <2>2 DEF Acquire
<1>2. ASSUME NEW t \in Threads, Release(t) PROVE TypeOK'
  <2>1. CASE UnlockFree(t)
    BY <2>1 DEF UnlockFree
  <2>2. CASE UnlockHandOff(t)
    BY <2>2, MutexTailFacts DEF UnlockHandOff
  <2> QED BY <1>2, <2>1, <2>2 DEF Release
<1>3. ASSUME NEW t \in Threads, Inside(t) PROVE TypeOK'
  BY <1>3 DEF Inside, SwitchOut, Activated, LockReturns, LockThrows,
              YieldReturns, YieldSwitches, Reposted, UnlockReturns
<1>4. ASSUME NEW t \in Threads, Shield(t) PROVE TypeOK'
  BY <1>4 DEF Shield
<1>5. ASSUME NEW t \in Threads, Interrupt(t) PROVE TypeOK'
  BY <1>5 DEF Interrupt
<1>6. CASE UNCHANGED vars
  BY <1>6 DEF vars
<1> QED BY <1>1, <1>2, <1>3, <1>4, <1>5, <1>6 DEF Next

(* Mutex never leaves its types, whatever is called when.                  *)
THEOREM TypeCorrect == Spec => []TypeOK
BY InitTypeOK, NextTypeOK, PTL DEF Spec

-----------------------------------------------------------------------------
(* The inductive invariant.                                                *)

(* Nobody waits and nobody owns the mutex at first.                        *)
LEMMA InitIInv == Init => IInv
<1> SUFFICES ASSUME Init PROVE IInv
  OBVIOUS
<1>1. TypeOK
  BY InitTypeOK
<1>2. Len(suspended) = 0
  BY DEF Init
<1> QED
  BY <1>1, <1>2, NoThreadAssumption
  DEF Init, IInv, HoldersOwn, QueueSound, HeldWhileWaited, WaitersAccounted,
      ResumedOwn, NoStrayWake, Waiting

(* Taking a free mutex: by HeldWhileWaited nobody is queued.               *)
LEMMA TakeIInv ==
    ASSUME IInv, TypeOK', NEW t \in Threads, LockFree(t) \/ TryLock(t)
    PROVE  IInv'
<1> USE DEF IInv
<1>1. /\ at[t] = "user"
      /\ owner \in {NoThread, t}
      /\ owner' = t
      /\ holds' = [holds EXCEPT ![t] = TRUE]
      /\ UNCHANGED <<suspended, at, wake>>
  BY DEF LockFree, TryLock
<1>2. owner = NoThread => Len(suspended) = 0
  BY DEF HeldWhileWaited
<1>3. HoldersOwn'
  BY <1>1, NoThreadAssumption DEF HoldersOwn, TypeOK
<1>4. QueueSound'
  BY <1>1, <1>2 DEF QueueSound, Waiting
<1>5. HeldWhileWaited'
  BY <1>1, NoThreadAssumption DEF HeldWhileWaited
<1>6. WaitersAccounted'
  BY <1>1, NoThreadAssumption DEF WaitersAccounted, Waiting, Queued
<1>7. ResumedOwn' /\ NoStrayWake'
  BY <1>1, NoThreadAssumption DEF ResumedOwn, NoStrayWake
<1> QED BY <1>3, <1>4, <1>5, <1>6, <1>7

(* Queueing up: the caller is new in the queue, since it is not waiting.   *)
LEMMA LockWaitIInv ==
    ASSUME IInv, TypeOK', NEW t \in Threads, LockWait(t)
    PROVE  IInv'
<1> USE DEF IInv
<1> DEFINE n == Len(suspended)
<1>1. /\ n \in Nat
      /\ Len(suspended') = n + 1
      /\ \A i \in 1..n : suspended'[i] = suspended[i]
      /\ suspended'[n + 1] = t
  BY MutexAppendFacts DEF LockWait, TypeOK
<1>2. /\ at[t] = "user"
      /\ at' = [at EXCEPT ![t] = "pausing"]
      /\ owner # t /\ owner # NoThread
      /\ UNCHANGED <<owner, wake, holds>>
  BY DEF LockWait, Go
<1>3. \A i \in 1..n : suspended[i] \in Threads /\ suspended[i] # t
  BY <1>1, <1>2 DEF QueueSound, Waiting, TypeOK
<1>4. ~wake[t]
  BY <1>2 DEF NoStrayWake
<1>5. /\ at'[t] = "pausing"
      /\ \A u \in Threads \ {t} : at'[u] = at[u]
  BY <1>2 DEF TypeOK
<1> HIDE DEF n
<1>6. HoldersOwn'
  BY <1>2, <1>5 DEF HoldersOwn
<1>7. QueueSound'
  <2>1. ASSUME NEW i \in 1..(n + 1)
        PROVE  /\ Waiting(suspended[i])'
               /\ owner' # suspended'[i]
               /\ ~wake'[suspended'[i]]
    <3>1. CASE i \in 1..n
      BY <3>1, <1>1, <1>2, <1>3, <1>5 DEF QueueSound, Waiting, n
    <3>2. CASE i = n + 1
      BY <3>2, <1>1, <1>2, <1>4, <1>5 DEF Waiting
    <3> QED BY <1>1, <3>1, <3>2
  <2>2. ASSUME NEW i \in 1..(n + 1), NEW j \in 1..(n + 1),
               suspended'[i] = suspended'[j]
        PROVE  i = j
    <3>1. CASE i \in 1..n /\ j \in 1..n
      BY <3>1, <2>2, <1>1 DEF QueueSound, n
    <3>2. CASE i = n + 1 \/ j = n + 1
      BY <3>2, <2>2, <1>1, <1>3
    <3> QED BY <1>1, <3>1, <3>2
  <2> QED BY <1>1, <2>1, <2>2 DEF QueueSound
<1>8. HeldWhileWaited'
  BY <1>2 DEF HeldWhileWaited
<1>9. WaitersAccounted'
  <2>1. Queued(t)'
    BY <1>1 DEF Queued
  <2>2. \A u \in Threads \ {t} : Queued(u) => Queued(u)'
    BY <1>1 DEF Queued, n
  <2> QED BY <1>2, <1>5, <2>1, <2>2 DEF WaitersAccounted, Waiting
<1>10. ResumedOwn' /\ NoStrayWake'
  BY <1>2, <1>4, <1>5 DEF ResumedOwn, NoStrayWake
<1> QED BY <1>6, <1>7, <1>8, <1>9, <1>10

(* Unlocking with nobody queued: whoever is still in lock() would own it.  *)
LEMMA UnlockFreeIInv ==
    ASSUME IInv, TypeOK', NEW t \in Threads, UnlockFree(t)
    PROVE  IInv'
<1> USE DEF IInv
<1>1. /\ at[t] = "user" /\ owner = t /\ suspended = <<>>
      /\ owner' = NoThread
      /\ holds' = [holds EXCEPT ![t] = FALSE]
      /\ UNCHANGED <<suspended, at, wake>>
  BY DEF UnlockFree
<1>2. Len(suspended) = 0
  BY <1>1
<1>3. HoldersOwn'
  BY <1>1 DEF HoldersOwn, TypeOK
<1>4. QueueSound' /\ HeldWhileWaited'
  BY <1>1, <1>2 DEF QueueSound, HeldWhileWaited
<1>5. \A u \in Threads : ~Waiting(u)
  BY <1>1, <1>2 DEF WaitersAccounted, Waiting, Queued
<1>6. WaitersAccounted'
  BY <1>1, <1>5 DEF WaitersAccounted, Waiting
<1>7. ResumedOwn' /\ NoStrayWake'
  BY <1>1 DEF ResumedOwn, NoStrayWake
<1> QED BY <1>3, <1>4, <1>6, <1>7

(* Handing over: the head of the queue leaves it, becomes the owner and is
   activated; nobody else is affected.                                     *)
LEMMA HandOffIInv ==
    ASSUME IInv, TypeOK', NEW t \in Threads, UnlockHandOff(t)
    PROVE  IInv'
<1> USE DEF IInv
<1> DEFINE n == Len(suspended)
           h == suspended[1]
<1>1. /\ n \in Nat \ {0}
      /\ h \in Threads
      /\ Len(suspended') = n - 1
      /\ \A i \in 1..(n - 1) : suspended'[i] = suspended[i + 1]
      /\ owner' = h
      /\ wake' = [wake EXCEPT ![h] = TRUE]
  BY MutexTailFacts DEF UnlockHandOff, TypeOK
<1>2. /\ at[t] = "user" /\ owner = t
      /\ at' = [at EXCEPT ![t] = "yielding"]
      /\ holds' = [holds EXCEPT ![t] = FALSE]
  BY DEF UnlockHandOff, Go
<1>3. /\ Waiting(h) /\ h # t /\ ~wake[h]
      /\ \A i \in 1..(n - 1) : suspended[i + 1] \in Threads \ {h, t}
  BY <1>1, <1>2 DEF QueueSound, Waiting, TypeOK
<1>4. /\ at'[t] = "yielding"
      /\ \A u \in Threads \ {t} : at'[u] = at[u]
      /\ wake'[h]
      /\ \A u \in Threads \ {h} : wake'[u] = wake[u]
  BY <1>1, <1>2 DEF TypeOK
<1>5. HoldersOwn'
  BY <1>2, <1>4 DEF HoldersOwn, TypeOK
<1>6. QueueSound'
  <2>1. ASSUME NEW i \in 1..(n - 1)
        PROVE  /\ Waiting(suspended[i + 1])
               /\ ~wake[suspended[i + 1]]
    BY <1>1 DEF QueueSound
  <2>2. ASSUME NEW i \in 1..(n - 1)
        PROVE  /\ Waiting(suspended[i])'
               /\ owner' # suspended'[i]
               /\ ~wake'[suspended'[i]]
    BY <2>1, <1>1, <1>3, <1>4 DEF Waiting
  <2>3. ASSUME NEW i \in 1..(n - 1), NEW j \in 1..(n - 1),
               suspended'[i] = suspended'[j]
        PROVE  i = j
    BY <2>3, <1>1 DEF QueueSound
  <2> QED BY <1>1, <2>2, <2>3 DEF QueueSound
<1>7. HeldWhileWaited'
  BY <1>1, NoThreadAssumption DEF HeldWhileWaited
<1>8. WaitersAccounted'
  <2>1. ASSUME NEW u \in Threads \ {h}, Queued(u) PROVE Queued(u)'
    <3>1. PICK i \in 1..n : suspended[i] = u
      BY <2>1 DEF Queued
    <3>2. i # 1 /\ i - 1 \in 1..(n - 1)
      BY <3>1, <1>1
    <3>3. suspended'[i - 1] = u
      BY <3>1, <3>2, <1>1
    <3> QED BY <3>2, <3>3, <1>1 DEF Queued
  <2>2. \A u \in Threads : Waiting(u)' => Waiting(u)
    BY <1>4 DEF Waiting
  <2>3. \A u \in Threads : Waiting(u) /\ ~Queued(u) => FALSE
    BY <1>2 DEF WaitersAccounted, Waiting
  <2> QED BY <1>1, <1>4, <2>1, <2>2, <2>3 DEF WaitersAccounted
<1>9. ResumedOwn' /\ NoStrayWake'
  <2>1. \A u \in Threads : at[u] # "resumed"
    BY <1>2 DEF ResumedOwn
  <2>2. ResumedOwn'
    BY <2>1, <1>4 DEF ResumedOwn
  <2>3. ~wake[t]
    BY <1>2 DEF NoStrayWake
  <2> QED BY <2>2, <2>3, <1>3, <1>4 DEF NoStrayWake, Waiting
<1> QED BY <1>5, <1>6, <1>7, <1>8, <1>9

(* The steps of a thread inside lock() and unlock().                       *)
LEMMA InsideIInv ==
    ASSUME IInv, TypeOK', NEW t \in Threads, Inside(t)
    PROVE  IInv'
<1> USE DEF IInv, Go
<1>1. /\ UNCHANGED <<owner, suspended>>
      /\ \A u \in Threads \ {t} : at'[u] = at[u] /\ wake'[u] = wake[u]
                                  /\ holds'[u] = holds[u]
  BY DEF Inside, SwitchOut, Activated, LockReturns, LockThrows, YieldReturns,
         YieldSwitches, Reposted, UnlockReturns, TypeOK
<1>2. HeldWhileWaited'
  BY <1>1 DEF HeldWhileWaited
<1>3. \A i \in 1..Len(suspended) : suspended[i] \in Threads
  BY DEF TypeOK
<1>4. \A u \in Threads : Queued(u)' <=> Queued(u)
  BY <1>1 DEF Queued
<1>5. CASE SwitchOut(t)
  <2>1. /\ at[t] = "pausing" /\ at' = [at EXCEPT ![t] = "paused"]
        /\ UNCHANGED <<wake, holds>>
    BY <1>5 DEF SwitchOut
  <2>2. at'[t] = "paused"
    BY <2>1 DEF TypeOK
  <2>3. HoldersOwn' /\ ResumedOwn' /\ NoStrayWake'
    BY <1>1, <2>1, <2>2 DEF HoldersOwn, ResumedOwn, NoStrayWake
  <2>4. QueueSound'
    BY <1>1, <1>3, <2>1, <2>2 DEF QueueSound, Waiting
  <2>5. WaitersAccounted'
    BY <1>1, <1>4, <2>1, <2>2 DEF WaitersAccounted, Waiting
  <2> QED BY <1>2, <2>3, <2>4, <2>5
<1>6. CASE Activated(t)
  <2>1. /\ at[t] = "paused" /\ wake[t]
        /\ at' = [at EXCEPT ![t] = "resumed"]
        /\ wake' = [wake EXCEPT ![t] = FALSE]
        /\ UNCHANGED holds
    BY <1>6 DEF Activated
  <2>2. at'[t] = "resumed" /\ ~wake'[t]
    BY <2>1 DEF TypeOK
  <2>3. ~Queued(t)
    BY <2>1 DEF QueueSound, Queued
  <2>4. owner = t
    BY <2>1, <2>3 DEF WaitersAccounted, Waiting
  <2>5. HoldersOwn' /\ ResumedOwn' /\ NoStrayWake'
    BY <1>1, <2>1, <2>2, <2>4 DEF HoldersOwn, ResumedOwn, NoStrayWake
  <2>6. QueueSound'
    BY <1>1, <1>3, <2>3 DEF QueueSound, Waiting, Queued
  <2>7. WaitersAccounted'
    BY <1>1, <1>4, <2>2 DEF WaitersAccounted, Waiting
  <2> QED BY <1>2, <2>5, <2>6, <2>7
<1>7. CASE \/ LockReturns(t) \/ LockThrows(t) \/ YieldReturns(t)
           \/ YieldSwitches(t) \/ Reposted(t) \/ UnlockReturns(t)
  <2>1. ~Waiting(t) /\ ~Waiting(t)'
    BY <1>7 DEF LockReturns, LockThrows, YieldReturns, YieldSwitches,
                Reposted, UnlockReturns, Waiting, TypeOK
  <2>2. ~Queued(t)
    BY <2>1 DEF QueueSound, Queued
  <2>3. QueueSound'
    BY <1>1, <1>3, <2>2 DEF QueueSound, Waiting, Queued
  <2>4. WaitersAccounted'
    BY <1>1, <1>4, <2>1 DEF WaitersAccounted, Waiting
  <2>5. HoldersOwn'
    <3>1. CASE LockReturns(t)
      BY <3>1, <1>1 DEF HoldersOwn, ResumedOwn, LockReturns, TypeOK
    <3>2. CASE ~LockReturns(t)
      <4>1. /\ UNCHANGED holds
            /\ \/ at[t] \in {"resumed", "yielding"}
               \/ at'[t] \in {"user", "switching", "yielded"}
        BY <1>7, <3>2 DEF LockThrows, YieldReturns, YieldSwitches, Reposted,
                          UnlockReturns, TypeOK
      <4> QED BY <1>1, <4>1 DEF HoldersOwn
    <3> QED BY <3>1, <3>2
  <2>6. ResumedOwn'
    <3>1. at'[t] # "resumed"
      BY <1>7 DEF LockReturns, LockThrows, YieldReturns, YieldSwitches,
                  Reposted, UnlockReturns, TypeOK
    <3> QED BY <1>1, <3>1 DEF ResumedOwn
  <2>7. NoStrayWake'
    <3>1. wake'[t] => at'[t] = "yielded"
      BY <1>7 DEF LockReturns, LockThrows, YieldReturns, YieldSwitches,
                  Reposted, UnlockReturns, NoStrayWake, TypeOK
    <3> QED BY <1>1, <3>1 DEF NoStrayWake
  <2> QED BY <1>2, <2>3, <2>4, <2>5, <2>6, <2>7
<1> QED BY <1>5, <1>6, <1>7 DEF Inside

(* Every step keeps the invariant.                                         *)
LEMMA NextIInv == IInv /\ [Next]_vars => IInv'
<1> SUFFICES ASSUME IInv, [Next]_vars PROVE IInv'
  OBVIOUS
<1>1. TypeOK'
  BY NextTypeOK DEF IInv
<1>2. ASSUME NEW t \in Threads, Acquire(t) PROVE IInv'
  BY <1>1, <1>2, TakeIInv, LockWaitIInv DEF Acquire
<1>3. ASSUME NEW t \in Threads, Release(t) PROVE IInv'
  BY <1>1, <1>3, UnlockFreeIInv, HandOffIInv DEF Release
<1>4. ASSUME NEW t \in Threads, Inside(t) PROVE IInv'
  BY <1>1, <1>4, InsideIInv
<1>5. CASE UNCHANGED <<owner, suspended, at, wake, holds>>
  BY <1>1, <1>5 DEF IInv, HoldersOwn, QueueSound, HeldWhileWaited,
                    WaitersAccounted, ResumedOwn, NoStrayWake, Waiting, Queued
<1>6. ASSUME NEW t \in Threads, Shield(t) \/ Interrupt(t) PROVE IInv'
  BY <1>5, <1>6 DEF Shield, Interrupt
<1>7. CASE UNCHANGED vars
  BY <1>5, <1>7 DEF vars
<1> QED BY <1>2, <1>3, <1>4, <1>6, <1>7 DEF Next

-----------------------------------------------------------------------------
(* The theorems.                                                           *)

(* The invariant holds in every reachable state.                           *)
LEMMA Invariance == Spec => []IInv
BY InitIInv, NextIInv, PTL DEF Spec

(* No two callers hold the mutex at once, whatever the interleaving and
   whoever is interrupted when.                                            *)
THEOREM MutexExcludes == Spec => []MutualExclusion
<1>1. IInv => MutualExclusion
  BY DEF IInv, HoldersOwn, MutualExclusion
<1> QED BY <1>1, Invariance, PTL

(* While threads are queued the mutex is owned: the fast path of lock() and
   try_lock() cannot overtake them.                                        *)
THEOREM MutexHeldWhileWaited == Spec => []HeldWhileWaited
<1>1. IInv => HeldWhileWaited
  BY DEF IInv
<1> QED BY <1>1, Invariance, PTL

(* Every thread in the wait of lock() is either queued or has been given
   the mutex together with its activation.                                 *)
THEOREM MutexLosesNoWaiter == Spec => []NoWaiterLost
<1>1. ASSUME IInv PROVE NoWaiterLost
  BY <1>1 DEF IInv, QueueSound, WaitersAccounted, NoWaiterLost, Queued
<1> QED BY <1>1, Invariance, PTL

-----------------------------------------------------------------------------
(* The use of suspension.                                                  *)

(* Each step is one of Suspension, or changes nothing there: threads queue
   up before they can be resumed, and are resumed once.                    *)
LEMMA StepUsesSuspension == IInv /\ [Next]_vars => [Kernel!Next]_<<ctx, wake>>
<1> SUFFICES ASSUME IInv, [Next]_vars
             PROVE  [Kernel!Next]_<<ctx, wake>>
  OBVIOUS
<1> USE DEF ctx, Go
<1>1. TypeOK
  BY DEF IInv
<1>2. ASSUME NEW t \in Threads, Acquire(t) PROVE [Kernel!Next]_<<ctx, wake>>
  <2>1. CASE LockFree(t) \/ TryLock(t)
    BY <2>1 DEF LockFree, TryLock
  <2>2. CASE LockWait(t)
    <3>1. Kernel!Announce(t)
      BY <1>1, <2>2 DEF LockWait, Kernel!Announce, TypeOK, Places
    <3> QED BY <3>1 DEF Kernel!Next
  <2> QED BY <1>2, <2>1, <2>2 DEF Acquire
<1>3. ASSUME NEW t \in Threads, Release(t) PROVE [Kernel!Next]_<<ctx, wake>>
  <2>1. CASE UnlockFree(t)
    BY <2>1 DEF UnlockFree
  <2>2. CASE UnlockHandOff(t)
    <3> DEFINE h == Head(suspended)
    <3>1. h \in Threads /\ h = suspended[1] /\ 1 \in 1..Len(suspended)
      BY <1>1, <2>2, MutexTailFacts DEF UnlockHandOff, TypeOK
    <3>2. at[h] \in {"pausing", "paused"} /\ ~wake[h]
      BY <3>1 DEF IInv, QueueSound, Waiting
    <3>3. UNCHANGED ctx
      BY <1>1, <2>2 DEF UnlockHandOff, TypeOK
    <3>4. Kernel!Wake(h)
      BY <1>1, <2>2, <3>1, <3>2, <3>3 DEF UnlockHandOff, Kernel!Wake, TypeOK
    <3> QED BY <3>1, <3>4 DEF Kernel!Next
  <2> QED BY <1>3, <2>1, <2>2 DEF Release
<1>4. ASSUME NEW t \in Threads, Inside(t) PROVE [Kernel!Next]_<<ctx, wake>>
  <2>1. CASE SwitchOut(t) \/ YieldSwitches(t)
    <3>1. Kernel!Park(t)
      BY <1>1, <2>1 DEF SwitchOut, YieldSwitches, Kernel!Park, TypeOK
    <3> QED BY <3>1 DEF Kernel!Next
  <2>2. CASE Activated(t) \/ UnlockReturns(t)
    <3>1. Kernel!Run(t)
      BY <1>1, <2>2 DEF Activated, UnlockReturns, Kernel!Run, TypeOK
    <3> QED BY <3>1 DEF Kernel!Next
  <2>3. CASE Reposted(t)
    <3>1. ~wake[t]
      BY <2>3 DEF Reposted, IInv, NoStrayWake
    <3>2. Kernel!Wake(t)
      BY <1>1, <2>3, <3>1 DEF Reposted, Kernel!Wake, TypeOK
    <3> QED BY <3>2 DEF Kernel!Next
  <2>4. CASE LockReturns(t) \/ LockThrows(t) \/ YieldReturns(t)
    BY <1>1, <2>4 DEF LockReturns, LockThrows, YieldReturns, TypeOK
  <2> QED BY <1>4, <2>1, <2>2, <2>3, <2>4 DEF Inside
<1>5. ASSUME NEW t \in Threads, Shield(t) \/ Interrupt(t)
      PROVE  [Kernel!Next]_<<ctx, wake>>
  BY <1>5 DEF Shield, Interrupt
<1>6. CASE UNCHANGED vars
  BY <1>6 DEF vars
<1> QED BY <1>2, <1>3, <1>4, <1>5, <1>6 DEF Next

(* lock and unlock keep the contract of the thread layer: never a second
   activation, never one for a thread that is not about to park.           *)
THEOREM MutexUsesSuspension == Spec => UsesSuspension
BY StepUsesSuspension, Invariance, PTL DEF Spec, UsesSuspension

-----------------------------------------------------------------------------
(* The order of the waiters.                                               *)

(* Nobody is queued twice, so each place in the queue is the place of the
   thread that is there.                                                   *)
LEMMA IndexIsPlace ==
    ASSUME NEW q \in Seq(Threads),
           \A i, j \in 1..Len(q) : q[i] = q[j] => i = j,
           NEW i \in 1..Len(q)
    PROVE  Index(q, q[i]) = i
BY DEF Index

(* A queue that grows at its end, or shrinks at its front, keeps the order. *)
LEMMA StepKeepsOrder ==
    ASSUME IInv, IInv', NEW k \in {0, 1},
           NEW u \in Threads, NEW t \in Threads, t # u,
           \A i \in 1..Len(suspended)' : i + k \in 1..Len(suspended)
                                          => suspended'[i] = suspended[i + k],
           \A i \in 1..Len(suspended)' : i + k \notin 1..Len(suspended)
                                          => ~Queued(suspended'[i]),
           Ahead(t, u), Queued(t)'
    PROVE  Ahead(t, u)'
<1>1. /\ suspended \in Seq(Threads) /\ suspended' \in Seq(Threads)
      /\ Len(suspended) \in Nat /\ Len(suspended)' \in Nat
  BY DEF IInv, TypeOK
<1>2. PICK i \in 1..Len(suspended)' : suspended'[i] = t
  BY DEF Queued
<1>3. i + k \in 1..Len(suspended) /\ suspended[i + k] = t
  BY <1>2 DEF Ahead
<1>4. Index(suspended, t) = i + k /\ Index(suspended', t) = i
  BY <1>1, <1>2, <1>3, IndexIsPlace DEF IInv, QueueSound
<1>5. ASSUME Queued(u)' PROVE Index(suspended', t) < Index(suspended', u)
  <2>1. PICK j \in 1..Len(suspended)' : suspended'[j] = u
    BY <1>5 DEF Queued
  <2>2. Index(suspended', u) = j
    BY <1>1, <2>1, IndexIsPlace DEF IInv, QueueSound
  <2>3. CASE j + k \in 1..Len(suspended)
    <3>1. suspended[j + k] = u /\ Queued(u)
      BY <2>1, <2>3 DEF Queued
    <3>2. Index(suspended, u) = j + k
      BY <1>1, <2>3, <3>1, IndexIsPlace DEF IInv, QueueSound
    <3> QED BY <1>4, <2>2, <3>1, <3>2 DEF Ahead
  <2>4. CASE j + k \notin 1..Len(suspended)
    BY <1>1, <1>3, <1>4, <2>1, <2>2, <2>4
  <2> QED BY <2>3, <2>4
<1> QED BY <1>5 DEF Ahead

(* What a step does to the queue: a thread that is not in it is added at
   the end, its head becomes the owner, or nothing.                        *)
LEMMA QueueStep ==
    ASSUME IInv, [Next]_vars
    PROVE  \/ \E t \in Threads : LockWait(t) /\ ~Queued(t)
           \/ \E t \in Threads : UnlockHandOff(t)
           \/ /\ UNCHANGED suspended
              /\ suspended # <<>> => UNCHANGED owner
<1>1. \A t \in Threads : at[t] = "user" => ~Queued(t)
  BY DEF IInv, QueueSound, Queued, Waiting
<1>2. ASSUME NEW t \in Threads, LockFree(t) \/ TryLock(t)
      PROVE  UNCHANGED suspended /\ (suspended # <<>> => UNCHANGED owner)
  BY <1>2 DEF LockFree, TryLock, IInv, HeldWhileWaited
<1>3. ASSUME NEW t \in Threads, LockWait(t) PROVE ~Queued(t)
  BY <1>1, <1>3 DEF LockWait, Go
<1>4. ASSUME NEW t \in Threads, UnlockFree(t)
      PROVE  UNCHANGED suspended /\ (suspended # <<>> => UNCHANGED owner)
  BY <1>4 DEF UnlockFree
<1>5. ASSUME NEW t \in Threads, Inside(t) \/ Shield(t) \/ Interrupt(t)
      PROVE  UNCHANGED <<suspended, owner>>
  BY <1>5 DEF Inside, SwitchOut, Activated, LockReturns, LockThrows, YieldReturns,
              YieldSwitches, Reposted, UnlockReturns, Shield, Interrupt
<1>6. CASE UNCHANGED vars
  BY <1>6 DEF vars
<1> QED BY <1>2, <1>3, <1>4, <1>5, <1>6 DEF Next, Acquire, Release

(* A step gives the mutex to the head of the queue and keeps the others in
   their order.                                                            *)
LEMMA StepServesFirst ==
    ASSUME IInv, IInv', [Next]_vars
    PROVE  /\ suspended # <<>> /\ owner' # owner => owner' = Head(suspended)
           /\ \A t, u \in Threads :
                t # u /\ Ahead(t, u) /\ Queued(t)' => Ahead(t, u)'
<1>1. suspended \in Seq(Threads) /\ Len(suspended) \in Nat
  BY DEF IInv, TypeOK
<1>2. ASSUME NEW v \in Threads, LockWait(v), ~Queued(v),
             NEW t \in Threads, NEW u \in Threads, t # u, Ahead(t, u), Queued(t)'
      PROVE  Ahead(t, u)'
  <2>1. /\ Len(suspended)' = Len(suspended) + 1
        /\ \A i \in 1..Len(suspended) : suspended'[i] = suspended[i]
        /\ suspended'[Len(suspended) + 1] = v
    BY <1>1, <1>2, MutexAppendFacts DEF LockWait
  <2>2. \A i \in 1..Len(suspended)' :
           IF i + 0 \in 1..Len(suspended) THEN suspended'[i] = suspended[i + 0]
                                          ELSE ~Queued(suspended'[i])
    BY <1>1, <1>2, <2>1
  <2> QED BY <1>2, <2>2, StepKeepsOrder
<1>3. ASSUME NEW v \in Threads, UnlockHandOff(v),
             NEW t \in Threads, NEW u \in Threads, t # u, Ahead(t, u), Queued(t)'
      PROVE  Ahead(t, u)'
  <2>1. /\ Len(suspended)' = Len(suspended) - 1
        /\ \A i \in 1..Len(suspended)' : suspended'[i] = suspended[i + 1]
    BY <1>1, <1>3, MutexTailFacts DEF UnlockHandOff
  <2>2. \A i \in 1..Len(suspended)' : i + 1 \in 1..Len(suspended)
    BY <1>1, <2>1
  <2> QED BY <1>3, <2>1, <2>2, StepKeepsOrder
<1>4. ASSUME UNCHANGED suspended,
             NEW t \in Threads, NEW u \in Threads, Ahead(t, u)
      PROVE  Ahead(t, u)'
  BY <1>4 DEF Ahead, Queued, Index
<1>5. suspended # <<>> /\ owner' # owner => owner' = Head(suspended)
  BY QueueStep DEF LockWait, UnlockHandOff
<1> QED BY <1>2, <1>3, <1>4, <1>5, QueueStep

(* Waiters get the mutex in the order in which they queued up, and none is
   overtaken, however lock, unlock and interruptions interleave.           *)
THEOREM MutexServesInOrder == Spec => FirstComeFirstServed
<1>1. IInv /\ IInv' /\ [Next]_vars
         => [/\ suspended # <<>> /\ owner' # owner => owner' = Head(suspended)
             /\ \A t, u \in Threads :
                  t # u /\ Ahead(t, u) /\ Queued(t)' => Ahead(t, u)']_vars
  BY StepServesFirst
<1> QED BY <1>1, Invariance, PTL DEF Spec, FirstComeFirstServed
-----------------------------------------------------------------------------
(* The condition variable.  OneWakeUp is not inductive: it allows a thread *)
(* whose timer a notify has cancelled to be in the queue still, and the    *)
(* handler of that timer would then activate a thread that another notify  *)
(* can activate again.  CVInv says in which of three ways each waiter is   *)
(* going to be woken.  The same three are what a step of Condition, the    *)
(* specification that the callers see, distinguishes, so the refinement    *)
(* rests on CVInv as well.                                                 *)

(* Where a wait can be, and what its timer can say.                        *)
WaitPlaces == {"out", "queued", "unlocked", "paused", "relock", "unwinding",
               "terminated"}
Pending == {"armed", "expired", "cancelled"}

CVTypeOK == /\ cond \in Seq(Threads)
            /\ timer \in [Threads -> {"none", "timeout", "no_timeout"} \cup Pending]
            /\ in \in [Threads -> WaitPlaces]
            /\ notified \in [Threads -> BOOLEAN]
            /\ holds \in [Threads -> BOOLEAN]

InCond(t) == t \in ToSet(cond)
Sleeps(t) == in[t] \in {"queued", "unlocked", "paused"}

(* A waiter is still in the queue, or has been taken from it and left to its
   timer's handler, or has been activated; outside the wait it is none.    *)
WaiterOK(t) ==
    /\ Sleeps(t) =>
         \/ InCond(t) /\ ~notified[t] /\ timer[t] \in {"none", "armed", "expired"}
         \/ ~InCond(t) /\ ~notified[t] /\ timer[t] \in {"expired", "cancelled"}
         \/ ~InCond(t) /\ notified[t] /\ timer[t] \notin Pending
    /\ ~Sleeps(t) => ~InCond(t) /\ ~notified[t] /\ timer[t] \notin Pending
    /\ in[t] = "out" => timer[t] = "none"

CVInv == /\ CVTypeOK
         /\ Distinct(cond)
         /\ \A t \in Threads : WaiterOK(t)

-----------------------------------------------------------------------------
LEMMA MembersFacts ==
    ASSUME NEW q \in Seq(Threads)
    PROVE  /\ ToSet(q) \subseteq Threads
           /\ \A t : Contains(q, t) <=> t \in ToSet(q)
           /\ IsInjective(q) <=> Distinct(q)
BY MemberFacts DEF Contains, IsInjective, Distinct

LEMMA RemoveAbsent ==
    ASSUME NEW q \in Seq(Threads), NEW t, t \notin ToSet(q)
    PROVE  RemoveFirst(q, t) = q
<1>1. \A i \in 1..Len(q) : q[i] # t
  BY MemberFacts
<1> QED
  BY <1>1 DEF RemoveFirst

(* What the steps of the mutex leave to the wait.                          *)
LEMMA MutexFacts ==
    ASSUME holds \in [Threads -> BOOLEAN], NEW t \in Threads
    PROVE  /\ Acquire(t) \/ Release(t) => holds' \in [Threads -> BOOLEAN]
           /\ LockFree(t) \/ LockReturns(t) =>
                 holds' \in [Threads -> BOOLEAN] /\ holds'[t]
           /\ \/ LockWait(t) \/ SwitchOut(t) \/ Activated(t)
              \/ YieldReturns(t) \/ YieldSwitches(t) \/ Reposted(t)
              \/ UnlockReturns(t) \/ LockThrows(t) \/ Interrupt(t)
              => UNCHANGED holds
<1>1. LockFree(t) \/ LockReturns(t) \/ TryLock(t) => holds' = [holds EXCEPT ![t] = TRUE]
  BY DEF LockFree, LockReturns, TryLock
<1>2. Release(t) => holds' = [holds EXCEPT ![t] = FALSE]
  BY DEF Release, UnlockFree, UnlockHandOff
<1>3. \/ LockWait(t) \/ SwitchOut(t) \/ Activated(t)
      \/ YieldReturns(t) \/ YieldSwitches(t) \/ Reposted(t)
      \/ UnlockReturns(t) \/ LockThrows(t) \/ Interrupt(t)
      => UNCHANGED holds
  BY DEF LockWait, SwitchOut, Activated, YieldReturns, YieldSwitches,
         Reposted, UnlockReturns, LockThrows, Interrupt
<1> QED
  BY <1>1, <1>2, <1>3 DEF Acquire

(* A step that moves t alone.                                              *)
LEMMA OneMoves ==
    ASSUME CVInv, CVTypeOK', NEW t \in Threads, WaiterOK(t)', Distinct(cond)',
           \A u \in Threads \ {t} : /\ in'[u] = in[u] /\ timer'[u] = timer[u]
                                    /\ notified'[u] = notified[u]
                                    /\ InCond(u)' <=> InCond(u)
    PROVE  /\ CVInv'
           /\ \A u \in Threads \ {t} : Status(u)' = Status(u)
<1>1. cond \in Seq(Threads) /\ cond' \in Seq(Threads)
  BY DEF CVInv, CVTypeOK
<1>2. ASSUME NEW u \in Threads \ {t} PROVE WaiterOK(u)' /\ Status(u)' = Status(u)
  <2>1. WaiterOK(u)'
    BY DEF CVInv, WaiterOK, Sleeps
  <2>2. Contains(cond, u)' <=> Contains(cond, u)
    BY <1>1, MembersFacts DEF InCond
  <2> QED
    BY <2>1, <2>2 DEF Status
<1> QED
  BY <1>2 DEF CVInv

-----------------------------------------------------------------------------
(* Each step of the condition variable keeps CVInv and is a step of the     *)
(* Condition that the callers see, or one that they do not see.            *)
Seen == [t \in Threads |-> Status(t)]
Kept == CVInv' /\ [C!Next]_(C!vars)

(* A step that moves t, and is not seen.                                   *)
LEMMA Unseen ==
    ASSUME CVInv, CVInv', NEW t \in Threads, cond' = cond, Status(t)' = Status(t),
           \A u \in Threads \ {t} : Status(u)' = Status(u)
    PROVE  Kept
<1>1. Seen' = Seen
  BY DEF Seen
<1>2. UNCHANGED C!vars
  BY <1>1 DEF C!vars, Seen
<1> QED
  BY <1>2 DEF Kept

(* Steps of the mutex and of the callers.                                  *)
LEMMA OutsideKept ==
    ASSUME CVInv, UNCHANGED waitVars, holds' \in [Threads -> BOOLEAN]
    PROVE  Kept
<1>1. UNCHANGED <<cond, timer, in, notified>>
  BY DEF waitVars
<1>2. CVInv'
  BY <1>1 DEF CVInv, CVTypeOK, WaiterOK, Sleeps, InCond
<1>3. \A t \in Threads : Status(t)' = Status(t)
  BY <1>1 DEF Status
<1>4. UNCHANGED C!vars
  BY <1>1, <1>3 DEF C!vars
<1> QED
  BY <1>2, <1>4 DEF Kept

(* wait and wait_rel queue the thread up.                                  *)
LEMMA EnqueueKept ==
    ASSUME CVInv, NEW t \in Threads, NEW x \in {"none", "armed"}, Enqueue(t, x)
    PROVE  Kept
<1>1. /\ CVTypeOK /\ Distinct(cond) /\ WaiterOK(t)
      /\ in[t] = "out" /\ cond' = Append(cond, t)
      /\ in' = [in EXCEPT ![t] = "queued"] /\ timer' = [timer EXCEPT ![t] = x]
      /\ notified' = notified /\ holds' = holds
  BY DEF CVInv, Enqueue, Move, mutexVars, vars
<1>2. ~InCond(t) /\ ~notified[t]
  BY <1>1 DEF WaiterOK, Sleeps
<1>3. /\ cond' \in Seq(Threads) /\ Distinct(cond')
      /\ ToSet(cond') = ToSet(cond) \cup {t}
  BY <1>1, <1>2, AppendFacts DEF CVTypeOK, InCond
<1>4. /\ CVTypeOK' /\ in'[t] = "queued" /\ timer'[t] = x
      /\ \A u \in Threads \ {t} : in'[u] = in[u] /\ timer'[u] = timer[u]
  BY <1>1, <1>3 DEF CVTypeOK, WaitPlaces, Pending
<1>5. WaiterOK(t)'
  BY <1>1, <1>2, <1>3, <1>4 DEF WaiterOK, Sleeps, InCond
<1>6. CVInv' /\ \A u \in Threads \ {t} : Status(u)' = Status(u)
  BY <1>1, <1>3, <1>4, <1>5, OneMoves DEF InCond
<1>7. Status(t) = "out" /\ Status(t)' \in {"waiting", "timed"}
  BY <1>1, <1>3, <1>4, MembersFacts DEF Status
<1>8. C!Wait(t)
  <2>1. [u \in Threads |-> Status(u)]' = [[u \in Threads |-> Status(u)]
                                              EXCEPT ![t] = Status(t)']
    BY <1>6
  <2> QED
    BY <2>1, <1>1, <1>7 DEF C!Wait
<1> QED
  BY <1>6, <1>8 DEF Kept, C!Next

(* A thread goes on inside its wait.                                       *)
LEMMA MoveKept ==
    ASSUME CVInv, NEW t \in Threads, holds' \in [Threads -> BOOLEAN],
           \/ Unlock(t) \/ Pause(t) \/ PauseReturns(t) \/ PauseThrows(t)
           \/ RelockThrows(t)
    PROVE  Kept
<1>1. CVTypeOK /\ Distinct(cond) /\ WaiterOK(t)
  BY DEF CVInv
<1>2. cond' = cond /\ timer' = timer
  BY DEF Unlock, Pause, PauseReturns, PauseThrows, PauseEnds, RelockThrows
<1>3. PICK to \in WaitPlaces \ {"out"} : in' = [in EXCEPT ![t] = to]
  BY DEF Unlock, Pause, PauseReturns, PauseThrows, PauseEnds, RelockThrows, Move,
         WaitPlaces
<1>4. notified' = notified \/ notified' = [notified EXCEPT ![t] = FALSE]
  BY DEF Unlock, Pause, PauseReturns, PauseThrows, PauseEnds, RelockThrows
<1>5. /\ CVTypeOK' /\ in'[t] = to /\ in[t] # "out"
      /\ \A u \in Threads \ {t} : in'[u] = in[u] /\ notified'[u] = notified[u]
  <2>1. in[t] # "out"
    BY DEF Unlock, Pause, PauseReturns, PauseThrows, PauseEnds, RelockThrows, Move,
           Relocking
  <2> QED
    BY <2>1, <1>1, <1>2, <1>3, <1>4 DEF CVTypeOK, WaitPlaces
<1>6. WaiterOK(t)'
  <2>1. CASE Unlock(t) \/ Pause(t)
    BY <2>1, <1>1, <1>2, <1>5
    DEF Unlock, Pause, Move, WaiterOK, Sleeps, InCond, CVTypeOK
  <2>2. CASE PauseReturns(t) \/ PauseThrows(t)
    <3>1. /\ in[t] = "paused" /\ notified[t]
          /\ notified' = [notified EXCEPT ![t] = FALSE]
          /\ in'[t] \in {"relock", "unwinding"}
      BY <2>2, <1>1 DEF PauseReturns, PauseThrows, PauseEnds, Move, CVTypeOK
    <3> QED
      BY <3>1, <1>1, <1>2 DEF WaiterOK, Sleeps, InCond, CVTypeOK
  <2>3. CASE RelockThrows(t)
    <3>1. /\ in[t] \in {"relock", "unwinding"} /\ in'[t] = "terminated"
          /\ notified' = notified
      BY <2>3, <1>1 DEF RelockThrows, Relocking, CVTypeOK
    <3> QED
      BY <3>1, <1>1, <1>2 DEF WaiterOK, Sleeps, InCond
  <2> QED
    BY <2>1, <2>2, <2>3
<1>7. CVInv' /\ \A u \in Threads \ {t} : Status(u)' = Status(u)
  BY <1>1, <1>2, <1>5, <1>6, OneMoves DEF InCond
<1>8. Status(t)' = Status(t)
  BY <1>2, <1>5 DEF Status
<1> QED
  BY <1>2, <1>7, <1>8, Unseen

(* wait returns or throws.                                                 *)
LEMMA LeaveKept ==
    ASSUME CVInv, NEW t \in Threads, holds' \in [Threads -> BOOLEAN],
           RelockFree(t) \/ RelockReturns(t)
    PROVE  Kept
<1>1. /\ CVTypeOK /\ Distinct(cond) /\ WaiterOK(t)
      /\ in[t] \in {"relock", "unwinding"}
      /\ in' = [in EXCEPT ![t] = "out"] /\ timer' = [timer EXCEPT ![t] = "none"]
      /\ cond' = cond /\ notified' = notified
  BY DEF CVInv, RelockFree, RelockReturns, Relocking, Leave
<1>2. ~InCond(t) /\ ~notified[t]
  BY <1>1 DEF WaiterOK, Sleeps
<1>3. /\ CVTypeOK' /\ in'[t] = "out" /\ timer'[t] = "none"
      /\ \A u \in Threads \ {t} : in'[u] = in[u] /\ timer'[u] = timer[u]
  BY <1>1 DEF CVTypeOK, WaitPlaces, Pending
<1>4. WaiterOK(t)'
  BY <1>1, <1>2, <1>3 DEF WaiterOK, Sleeps, InCond, Pending
<1>5. CVInv' /\ \A u \in Threads \ {t} : Status(u)' = Status(u)
  BY <1>1, <1>3, <1>4, OneMoves DEF InCond
<1>6. Status(t) \in {"timeout", "no_timeout"} /\ Status(t)' = "out"
  BY <1>1, <1>2, <1>3, MembersFacts DEF Status, CVTypeOK, InCond
<1>7. C!Return(t)
  <2>1. [u \in Threads |-> Status(u)]' = [[u \in Threads |-> Status(u)]
                                              EXCEPT ![t] = "out"]
    BY <1>5, <1>6
  <2> QED
    BY <2>1, <1>1, <1>6 DEF C!Return, C!Woken, C!Results
<1> QED
  BY <1>5, <1>7 DEF Kept, C!Next

-----------------------------------------------------------------------------
(* The timer expires: t waits with its timer armed, so it is still queued. *)
LEMMA ExpiresKept ==
    ASSUME CVInv, NEW t \in Threads, Expires(t)
    PROVE  Kept
<1>1. /\ CVTypeOK /\ Distinct(cond) /\ WaiterOK(t) /\ timer[t] = "armed"
      /\ timer' = [timer EXCEPT ![t] = "expired"]
      /\ UNCHANGED <<cond, in, notified, holds>>
  BY DEF CVInv, Expires, mutexVars, vars
<1>2. Sleeps(t) /\ InCond(t) /\ ~notified[t] /\ in[t] # "out"
  BY <1>1 DEF WaiterOK, Pending
<1>3. /\ CVTypeOK' /\ timer'[t] = "expired"
      /\ \A u \in Threads \ {t} : timer'[u] = timer[u]
  BY <1>1 DEF CVTypeOK, Pending
<1>4. WaiterOK(t)'
  BY <1>1, <1>2, <1>3 DEF WaiterOK, Sleeps, InCond
<1>5. CVInv' /\ \A u \in Threads \ {t} : Status(u)' = Status(u)
  BY <1>1, <1>3, <1>4, OneMoves DEF InCond
<1>6. Status(t)' = Status(t)
  BY <1>1, <1>2, <1>3, MembersFacts DEF Status, CVTypeOK, InCond
<1> QED
  BY <1>1, <1>5, <1>6, Unseen

(* Its handler takes t from the queue, if no notify has done so already.   *)
LEMMA TimeoutKept ==
    ASSUME CVInv, NEW t \in Threads, TimeoutHandler(t)
    PROVE  Kept
<1>1. /\ CVTypeOK /\ Distinct(cond) /\ WaiterOK(t) /\ timer[t] = "expired"
      /\ timer' = [timer EXCEPT ![t] = "timeout"]
      /\ notified' = [notified EXCEPT ![t] = TRUE]
      /\ cond' = RemoveFirst(cond, t) /\ UNCHANGED <<in, holds>>
  BY DEF CVInv, TimeoutHandler, Handled, mutexVars, vars
<1>2. Sleeps(t) /\ in[t] # "out"
  BY <1>1 DEF WaiterOK, Sleeps, Pending
<1>3. cond' \in Seq(Threads) /\ Distinct(cond') /\ ToSet(cond') = ToSet(cond) \ {t}
  BY <1>1, RemoveFirstFacts DEF CVTypeOK
<1>4. /\ CVTypeOK' /\ timer'[t] = "timeout" /\ notified'[t]
      /\ \A u \in Threads \ {t} : timer'[u] = timer[u] /\ notified'[u] = notified[u]
  BY <1>1, <1>3 DEF CVTypeOK, Pending
<1>5. WaiterOK(t)'
  BY <1>1, <1>2, <1>3, <1>4 DEF WaiterOK, Sleeps, InCond, Pending
<1>6. CVInv' /\ \A u \in Threads \ {t} : Status(u)' = Status(u)
  BY <1>1, <1>3, <1>4, <1>5, OneMoves DEF InCond
<1>7. Status(t)' = "timeout"
  BY <1>1, <1>2, <1>3, <1>4, MembersFacts DEF Status
<1>8. CASE InCond(t)
  <2>1. Status(t) = "timed"
    BY <1>1, <1>2, <1>8, MembersFacts DEF Status, CVTypeOK, InCond
  <2>2. [u \in Threads |-> Status(u)]' = [[u \in Threads |-> Status(u)]
                                              EXCEPT ![t] = "timeout"]
    BY <1>6, <1>7
  <2>3. cond' = C!RemoveFirst(cond, t)
    BY <1>1 DEF RemoveFirst, SelectInSeq, RemoveAt, Min,
                C!RemoveFirst, C!SelectInSeq, C!RemoveAt, C!Min
  <2>4. C!Timeout(t)
    BY <2>1, <2>2, <2>3 DEF C!Timeout
  <2> QED
    BY <2>4, <1>6 DEF Kept, C!Next
<1>9. CASE ~InCond(t)
  <2>1. cond' = cond
    BY <1>1, <1>9, RemoveAbsent DEF CVTypeOK, InCond
  <2>2. Status(t) = "timeout"
    BY <1>1, <1>2, <1>9, MembersFacts DEF Status, CVTypeOK, InCond
  <2> QED
    BY <2>1, <2>2, <1>6, <1>7, Unseen
<1> QED
  BY <1>8, <1>9

LEMMA CancelKept ==
    ASSUME CVInv, NEW t \in Threads, CancelHandler(t)
    PROVE  Kept
<1>1. /\ CVTypeOK /\ Distinct(cond) /\ WaiterOK(t) /\ timer[t] = "cancelled"
      /\ timer' = [timer EXCEPT ![t] = "no_timeout"]
      /\ notified' = [notified EXCEPT ![t] = TRUE]
      /\ UNCHANGED <<cond, in, holds>>
  BY DEF CVInv, CancelHandler, Handled, mutexVars, vars
<1>2. Sleeps(t) /\ in[t] # "out" /\ ~InCond(t)
  BY <1>1 DEF WaiterOK, Sleeps, Pending
<1>3. /\ CVTypeOK' /\ timer'[t] = "no_timeout" /\ notified'[t]
      /\ \A u \in Threads \ {t} : timer'[u] = timer[u] /\ notified'[u] = notified[u]
  BY <1>1 DEF CVTypeOK, Pending
<1>4. WaiterOK(t)'
  BY <1>1, <1>2, <1>3 DEF WaiterOK, Sleeps, InCond, Pending
<1>5. CVInv' /\ \A u \in Threads \ {t} : Status(u)' = Status(u)
  BY <1>1, <1>3, <1>4, OneMoves DEF InCond
<1>6. Status(t)' = Status(t)
  BY <1>1, <1>2, <1>3, MembersFacts DEF Status, CVTypeOK, InCond
<1> QED
  BY <1>1, <1>5, <1>6, Unseen

(* notify takes W, the first waiter or all of them, from the queue.  The   *)
(* status of each is settled: a timer that has expired says timeout.       *)
LEMMA TakeFacts ==
    ASSUME CVInv, UNCHANGED <<in, holds>>, NEW W \in SUBSET ToSet(cond), Wakes(W),
           cond' \in Seq(Threads), Distinct(cond'), ToSet(cond') = ToSet(cond) \ W
    PROVE  CVInv' /\ C!Wakes(W)
<1>1. /\ CVTypeOK /\ \A t \in Threads : WaiterOK(t)
      /\ W \subseteq Threads /\ \A t \in W : InCond(t)
  BY MembersFacts DEF CVInv, CVTypeOK, InCond
<1>2. /\ timer' = [t \in Threads |-> IF t \in W /\ timer[t] = "armed" THEN "cancelled"
                                                                    ELSE timer[t]]
      /\ notified' = [t \in Threads |-> notified[t] \/ (t \in W /\ timer[t] = "none")]
  BY DEF Wakes
<1>3. CVTypeOK'
  <2>1. timer' \in [Threads -> {"none", "timeout", "no_timeout"} \cup Pending]
    BY <1>1, <1>2 DEF CVTypeOK, Pending
  <2>2. notified' \in [Threads -> BOOLEAN]
    BY <1>2
  <2> QED
    BY <2>1, <2>2, <1>1 DEF CVTypeOK
<1>4. ASSUME NEW t \in Threads, t \notin W
      PROVE  WaiterOK(t)' /\ Status(t)' = Status(t)
  <2>1. timer'[t] = timer[t] /\ notified'[t] = notified[t] /\ (InCond(t)' <=> InCond(t))
    BY <1>1, <1>2, <1>4 DEF CVTypeOK, InCond
  <2>2. Contains(cond, t)' <=> Contains(cond, t)
    BY <2>1, <1>1, MembersFacts DEF CVTypeOK, InCond
  <2> QED
    BY <2>1, <2>2, <1>1 DEF WaiterOK, Sleeps, Status
<1>5. ASSUME NEW t \in W
      PROVE  /\ WaiterOK(t)' /\ Status(t)' \in {"timeout", "no_timeout"}
             /\ Status(t) = "waiting" => Status(t)' = "no_timeout"
  <2>1. /\ t \in Threads /\ Sleeps(t) /\ InCond(t) /\ ~notified[t] /\ in[t] # "out"
        /\ timer[t] \in {"none", "armed", "expired"} /\ ~InCond(t)'
    BY <1>1, <1>5 DEF WaiterOK, Sleeps, InCond
  <2>2. /\ Contains(cond, t) /\ ~Contains(cond, t)'
    BY <2>1, <1>1, MembersFacts DEF CVTypeOK, InCond
  <2>3. \/ timer[t] = "none" /\ timer'[t] = "none" /\ notified'[t]
        \/ timer[t] = "armed" /\ timer'[t] = "cancelled" /\ ~notified'[t]
        \/ timer[t] = "expired" /\ timer'[t] = "expired" /\ ~notified'[t]
    BY <2>1, <1>2, <1>5
  <2>4. WaiterOK(t)'
    BY <2>1, <2>3 DEF WaiterOK, Sleeps, Pending
  <2> QED
    BY <2>1, <2>2, <2>3, <2>4 DEF Status
<1>6. CVInv'
  BY <1>3, <1>4, <1>5 DEF CVInv
<1>7. C!Wakes(W)
  <2> DEFINE S == [t \in Threads |-> Status(t)]
             r == [t \in W |-> Status(t)']
  <2>1. r \in [W -> {"no_timeout", "timeout"}]
    BY <1>5
  <2>2. \A t \in W : S[t] = "waiting" => r[t] = "no_timeout"
    BY <1>1, <1>5
  <2>3. [t \in Threads |-> Status(t)]'
           = [t \in Threads |-> IF t \in W THEN r[t] ELSE S[t]]
    BY <1>4
  <2> QED
    BY <2>1, <2>2, <2>3 DEF C!Wakes, C!WakesFrom, C!Results
<1> QED
  BY <1>6, <1>7

LEMMA TakeKept ==
    ASSUME CVInv, UNCHANGED <<in, holds>>, TakeOne \/ TakeAll
    PROVE  Kept
<1>1. cond \in Seq(Threads) /\ Distinct(cond)
  BY DEF CVInv, CVTypeOK
<1>2. CASE TakeOne
  <2>1. /\ cond # <<>> /\ Wakes({cond[1]}) /\ cond' = Tail(cond)
    BY <1>1, <1>2 DEF TakeOne
  <2>2. /\ {cond[1]} \in SUBSET ToSet(cond) /\ Tail(cond) \in Seq(Threads)
        /\ Distinct(Tail(cond)) /\ ToSet(Tail(cond)) = ToSet(cond) \ {cond[1]}
    BY <1>1, <2>1, TailFacts, MemberFacts
  <2>3. CVInv' /\ C!Wakes({cond[1]})
    BY <2>1, <2>2, TakeFacts
  <2>4. C!First(cond) = {cond[1]} /\ C!Others(cond) = Tail(cond)
    BY <2>1, <2>2 DEF C!First, C!Others, C!ToSet, ToSet
  <2>5. C!NotifyOne
    BY <2>1, <2>3, <2>4 DEF C!NotifyOne
  <2> QED
    BY <2>3, <2>5 DEF Kept, C!Next
<1>3. CASE TakeAll
  <2>1. Wakes(ToSet(cond)) /\ cond' = <<>>
    BY <1>3 DEF TakeAll
  <2>2. CVInv' /\ C!Wakes(ToSet(cond))
    BY <2>1, EmptyFacts, TakeFacts
  <2>3. CASE cond = <<>>
    <3>1. C!Wakes({})
      BY <2>2, <2>3, EmptyFacts
    <3>2. UNCHANGED C!vars
      BY <3>1, <2>1, <2>3 DEF C!Wakes, C!WakesFrom, C!vars
    <3> QED
      BY <3>2, <2>2 DEF Kept
  <2>4. CASE cond # <<>>
    <3>1. C!NotifyAll
      BY <2>1, <2>2, <2>4 DEF C!NotifyAll, C!All, C!ToSet, ToSet
    <3> QED
      BY <3>1, <2>2 DEF Kept, C!Next
  <2> QED
    BY <2>3, <2>4
<1> QED
  BY <1>2, <1>3

-----------------------------------------------------------------------------
LEMMA CVInitInv == CVInit => CVInv /\ C!Init
<1> SUFFICES ASSUME CVInit PROVE CVInv /\ C!Init
  OBVIOUS
<1>1. /\ cond = <<>> /\ timer = [t \in Threads |-> "none"]
      /\ in = [t \in Threads |-> "out"] /\ notified = [t \in Threads |-> FALSE]
      /\ holds \in [Threads -> BOOLEAN]
  BY DEF CVInit, Init
<1>2. CVTypeOK
  BY <1>1, EmptyFacts DEF CVTypeOK, WaitPlaces
<1>3. \A t \in Threads : WaiterOK(t)
  BY <1>1, EmptyFacts DEF WaiterOK, Sleeps, InCond, Pending
<1>4. \A t \in Threads : Status(t) = "out"
  BY <1>1 DEF Status
<1> QED
  BY <1>1, <1>2, <1>3, <1>4, EmptyFacts DEF CVInv, C!Init

(* A step keeps CVInv, is one that Condition allows, and ends a wait only
   with the mutex.                                                         *)
WaitsEndWithMutex == \A t \in Threads : Relocking(t) /\ in'[t] = "out" => holds'[t]
LEMMA StepKept ==
    ASSUME CVInv, [CVNext]_cvVars
    PROVE  Kept /\ WaitsEndWithMutex
<1>1. CVTypeOK
  BY DEF CVInv
<1>2. ASSUME UNCHANGED in PROVE WaitsEndWithMutex
  BY <1>2 DEF WaitsEndWithMutex, Relocking
<1>3. CASE UNCHANGED cvVars
  <2>1. UNCHANGED waitVars /\ UNCHANGED in /\ holds' \in [Threads -> BOOLEAN]
    BY <1>1, <1>3 DEF cvVars, waitVars, mutexVars, vars, CVTypeOK
  <2> QED
    BY <2>1, <1>2, OutsideKept
<1>4. CASE ForeignNotify
  <2>1. UNCHANGED <<in, holds>> /\ (TakeOne \/ TakeAll)
    BY <1>4 DEF ForeignNotify, NotifyFromOutside, mutexVars, vars
  <2> QED
    BY <2>1, <1>2, TakeKept
<1>5. ASSUME NEW t \in Threads,
             \/ Client(t) \/ SetFlag(t) \/ InsideCalls(t) \/ Waits(t) \/ InWait(t)
             \/ Timers(t) \/ NotifyOne(t) \/ NotifyAll(t) \/ InterruptCaller(t)
      PROVE  Kept /\ WaitsEndWithMutex
  <2> USE MutexFacts
  <2>1. CASE \/ Client(t) \/ SetFlag(t) \/ InsideCalls(t) \/ InterruptCaller(t)
             \/ RelockWait(t)
    <3>1. UNCHANGED waitVars /\ UNCHANGED in
      BY <2>1 DEF Client, SetFlag, InsideCalls, InterruptCaller, RelockWait, waitVars
    <3>2. holds' \in [Threads -> BOOLEAN]
      BY <2>1, <1>1 DEF Client, SetFlag, InsideCalls, InterruptCaller, RelockWait,
                        mutexVars, vars, CVTypeOK
    <3> QED
      BY <3>1, <3>2, <1>2, OutsideKept
  <2>2. CASE Waits(t)
    <3>1. PICK x \in {"none", "armed"} : Enqueue(t, x)
      BY <2>2 DEF Waits, Wait, WaitRel
    <3>2. WaitsEndWithMutex
      BY <3>1, <1>1 DEF Enqueue, Move, WaitsEndWithMutex, Relocking, CVTypeOK
    <3> QED
      BY <3>1, <3>2, EnqueueKept
  <2>3. CASE \/ Unlock(t) \/ Pause(t) \/ PauseReturns(t) \/ PauseThrows(t)
             \/ RelockThrows(t)
    <3>1. holds' \in [Threads -> BOOLEAN]
      BY <2>3, <1>1 DEF Unlock, Pause, PauseReturns, PauseThrows, PauseEnds,
                        RelockThrows, mutexVars, vars, CVTypeOK
    <3>2. PICK to \in WaitPlaces \ {"out"} : in' = [in EXCEPT ![t] = to]
      BY <2>3 DEF Unlock, Pause, PauseReturns, PauseThrows, PauseEnds, RelockThrows,
                  Move, WaitPlaces
    <3>3. WaitsEndWithMutex
      BY <3>2, <1>1 DEF WaitsEndWithMutex, Relocking, CVTypeOK
    <3> QED
      BY <3>1, <3>3, <2>3, MoveKept
  <2>4. CASE RelockFree(t) \/ RelockReturns(t)
    <3>1. holds' \in [Threads -> BOOLEAN] /\ holds'[t]
      BY <2>4, <1>1 DEF RelockFree, RelockReturns, CVTypeOK
    <3>2. in' = [in EXCEPT ![t] = "out"]
      BY <2>4 DEF RelockFree, RelockReturns, Leave
    <3>3. WaitsEndWithMutex
      BY <3>1, <3>2, <1>1 DEF WaitsEndWithMutex, Relocking, CVTypeOK
    <3> QED
      BY <3>1, <3>3, <2>4, LeaveKept
  <2>5. CASE Timers(t)
    <3>1. UNCHANGED in
      BY <2>5 DEF Timers, Expires, TimeoutHandler, CancelHandler, Handled
    <3> QED
      BY <3>1, <2>5, <1>2, ExpiresKept, TimeoutKept, CancelKept DEF Timers
  <2>6. CASE NotifyOne(t) \/ NotifyAll(t)
    <3>1. UNCHANGED <<in, holds>> /\ (TakeOne \/ TakeAll)
      BY <2>6 DEF NotifyOne, NotifyAll, Yield
    <3> QED
      BY <3>1, <1>2, TakeKept
  <2> QED
    BY <1>5, <2>1, <2>2, <2>3, <2>4, <2>5, <2>6 DEF InWait
<1> QED
  BY <1>3, <1>4, <1>5 DEF CVNext

-----------------------------------------------------------------------------
LEMMA CVInvariance == CVSpec => []CVInv
<1>1. CVInv /\ [CVNext]_cvVars => CVInv'
  BY StepKept DEF Kept
<1> QED
  BY <1>1, CVInitInv, PTL DEF CVSpec

(* A waiter of condition_variable is woken by exactly one of a notify, its
   timer and an activation posted already, from the moment it queues up
   until it is resumed, and nothing that could wake it is left over.       *)
THEOREM WokenByOne == CVSpec => []OneWakeUp
<1>1. CVInv => OneWakeUp
  <2> SUFFICES ASSUME CVInv PROVE OneWakeUp
    OBVIOUS
  <2>1. CVTypeOK /\ IsInjective(cond)
    BY MembersFacts DEF CVInv, CVTypeOK
  <2>2. ASSUME NEW t \in Threads
        PROVE  IF in[t] \in {"queued", "unlocked", "paused"}
               THEN /\ \E p \in {"queue", "timer", "posted"} : Parties(t) = {p}
                    /\ timer[t] = "armed" => Contains(cond, t)
                    /\ Contains(cond, t) => ~notified[t]
               ELSE Parties(t) = {} /\ ~Contains(cond, t)
    <3>1. WaiterOK(t) /\ (Contains(cond, t) <=> InCond(t))
      BY <2>1, MembersFacts DEF CVInv, CVTypeOK, InCond
    <3>2. CASE Sleeps(t)
      <4>1. CASE InCond(t) /\ timer[t] = "none"
        <5>1. Parties(t) = {"queue"}
          BY <3>1, <3>2, <4>1 DEF Parties, WaiterOK
        <5> QED
          BY <5>1, <3>1, <3>2, <4>1 DEF WaiterOK, Sleeps
      <4>2. CASE ~notified[t] /\ timer[t] # "none"
        <5>1. Parties(t) = {"timer"}
          BY <3>1, <3>2, <4>2 DEF Parties, WaiterOK
        <5> QED
          BY <5>1, <3>1, <3>2, <4>2 DEF WaiterOK, Sleeps
      <4>3. CASE notified[t]
        <5>1. Parties(t) = {"posted"}
          BY <3>1, <3>2, <4>3 DEF Parties, WaiterOK, Pending
        <5> QED
          BY <5>1, <3>1, <3>2, <4>3 DEF WaiterOK, Sleeps, Pending
      <4> QED
        BY <3>1, <3>2, <4>1, <4>2, <4>3 DEF WaiterOK
    <3>3. CASE ~Sleeps(t)
      <4>1. Parties(t) = {}
        BY <3>1, <3>3 DEF Parties, WaiterOK, Pending
      <4> QED
        BY <4>1, <3>1, <3>3 DEF WaiterOK, Sleeps
    <3> QED
      BY <3>2, <3>3
  <2> QED
    BY <2>1, <2>2 DEF OneWakeUp
<1> QED
  BY <1>1, CVInvariance, PTL

(* wait and wait_rel return and throw only with the mutex locked by their
   caller.                                                                 *)
THEOREM WaitReturnsLocked == CVSpec => WaitEndsLocked
<1>1. CVInv /\ [CVNext]_cvVars
         => [\A t \in Threads : Relocking(t) /\ in'[t] = "out" => holds'[t]]_cvVars
  BY StepKept DEF WaitsEndWithMutex
<1> QED
  BY <1>1, CVInvariance, PTL DEF CVSpec, WaitEndsLocked

(* condition_variable over the real mutex keeps the promises of Condition,
   the specification that the modules of the classes built on it use: first
   come, first notified, and nobody returns unless it was woken.           *)
THEOREM ConditionRefined == CVSpec => ImplementsCondition
<1>1. CVInv /\ [CVNext]_cvVars => [C!Next]_(C!vars)
  BY StepKept DEF Kept
<1>2. CVInit => C!Init
  BY CVInitInv
<1> QED
  BY <1>1, <1>2, CVInvariance, PTL DEF CVSpec, ImplementsCondition, C!Spec

-----------------------------------------------------------------------------
(* The mutex inside the condition variable.  Its own Next has no step that *)
(* leaves the mutex locked across a yield, as notify does.                 *)

(* A notify yields, perhaps with the mutex locked.                         *)
LEMMA YieldIInv ==
    ASSUME IInv, NEW t \in Threads, Yield(t)
    PROVE  IInv'
<1> USE DEF IInv
<1>1. /\ at[t] = "user" /\ at' = [at EXCEPT ![t] = "switching"]
      /\ UNCHANGED <<owner, suspended, wake, holds, interrupted, shielded>>
  BY DEF Yield, Go
<1>2. TypeOK' /\ at'[t] = "switching" /\ \A u \in Threads \ {t} : at'[u] = at[u]
  BY <1>1 DEF TypeOK, Places
<1>3. \A i \in 1..Len(suspended) : suspended[i] \in Threads \ {t}
  BY <1>1 DEF TypeOK, QueueSound, Waiting
<1>4. HoldersOwn' /\ HeldWhileWaited'
  BY <1>1, <1>2 DEF HoldersOwn, HeldWhileWaited
<1>5. QueueSound' /\ WaitersAccounted'
  BY <1>1, <1>2, <1>3 DEF QueueSound, WaitersAccounted, Waiting, Queued
<1>6. ResumedOwn' /\ NoStrayWake'
  BY <1>1, <1>2 DEF ResumedOwn, NoStrayWake
<1> QED
  BY <1>2, <1>4, <1>5, <1>6

(* Every other step is one of the mutex, or leaves it alone.               *)
LEMMA CVNextIInv == IInv /\ [CVNext]_cvVars => IInv'
<1> SUFFICES ASSUME IInv, [CVNext]_cvVars PROVE IInv'
  OBVIOUS
<1>1. CASE UNCHANGED vars
  BY <1>1, NextIInv
<1>2. ASSUME NEW t \in Threads,
             Acquire(t) \/ Release(t) \/ Inside(t) \/ Interrupt(t)
      PROVE  IInv'
  BY <1>2, NextIInv DEF Next
<1>3. ASSUME NEW t \in Threads, NotifyOne(t) \/ NotifyAll(t) PROVE IInv'
  BY <1>3, YieldIInv DEF NotifyOne, NotifyAll
<1>4. ASSUME NEW t \in Threads, InWait(t) PROVE IInv'
  BY <1>1, <1>2, <1>4
  DEF InWait, Unlock, Pause, PauseReturns, PauseThrows, PauseEnds, RelockFree,
      RelockWait, RelockReturns, RelockThrows, Acquire, Inside, mutexVars
<1>5. ASSUME NEW t \in Threads, Client(t) \/ InsideCalls(t) \/ InterruptCaller(t)
      PROVE  IInv'
  BY <1>2, <1>5 DEF Client, InsideCalls, InterruptCaller, Inside
<1>6. ASSUME NEW t \in Threads, SetFlag(t) \/ Waits(t) \/ Timers(t) PROVE IInv'
  BY <1>1, <1>6 DEF SetFlag, Waits, Wait, WaitRel, Enqueue, Timers, Expires,
                    TimeoutHandler, CancelHandler, Handled, mutexVars
<1> QED
  BY <1>1, <1>3, <1>4, <1>5, <1>6 DEF CVNext, ForeignNotify, cvVars, mutexVars

LEMMA CVKeepsIInv == CVSpec => []IInv
BY InitIInv, CVNextIInv, PTL DEF CVSpec, CVInit

(* The mutex excludes also when its holders wait for a condition, are timed
   out and interrupted there, and notify with the mutex locked.            *)
THEOREM MonitorExcludes == CVSpec => []MutualExclusion
<1>1. IInv => MutualExclusion
  BY DEF IInv, HoldersOwn, MutualExclusion
<1> QED
  BY <1>1, CVKeepsIInv, PTL

-----------------------------------------------------------------------------
(* The barrier.  CountExact is not inductive: a thread may leave wait only *)
(* because whoever resumed it has begun a new generation, with the mutex   *)
(* locked, before anybody else could be counted for it.                    *)

BarrierTypeOK ==
    /\ count \in Nat /\ generation \in Nat
    /\ size \in Sizes
    /\ call \in [Threads -> {"out", "locking", "waiting", "completing", "leaving"}]
    /\ gen \in [Threads -> Nat]
    /\ failed \in BOOLEAN

(* Only a counted thread is inside the condition variable; the thread that
   is about to notify has the mutex.                                       *)
CallOK(t) == /\ call[t] # "waiting" => in[t] = "out"
             /\ call[t] = "completing" => holds[t]
             /\ call[t] = "waiting" => gen[t] <= generation

(* A thread counted for this generation has not been woken, and while a
   thread is about to notify there is none.                                *)
CountedAsleep == /\ \A t \in Counted : InCond(t)
                 /\ (\E u \in Threads : call[u] = "completing") => Counted = {}

(* m_count has not reached zero, and is exact.                             *)
CountOK == ~failed => /\ count \in 1..(Width - 1)
                      /\ count + Cardinality(Counted) = size

(* Each of the threads that lock the mutex may complete one generation.    *)
InLock == {t \in Threads : call[t] = "locking"}
GenerationBounded ==
    generation + Cardinality(InLock) <= MaxGeneration + Cardinality(Threads)

BarrierInv == /\ BarrierTypeOK
              /\ \A t \in Threads : CallOK(t)
              /\ CountedAsleep
              /\ CountOK
              /\ GenerationBounded

(* The barrier uses the condition variable as its callers may.             *)
LEMMA BarrierUsesCondition == [BarrierNext]_allVars => [CVNext]_cvVars
<1> SUFFICES ASSUME [BarrierNext]_allVars PROVE [CVNext]_cvVars
  OBVIOUS
<1>1. CASE UNCHANGED allVars
  BY <1>1 DEF allVars
<1>2. ASSUME Alive, NEW t \in Threads,
             Lock(t) \/ Proceeds(t) \/ IsInterrupted(t)
      PROVE  [CVNext]_cvVars
  <2>1. CASE Lock(t) \/ UnlockAndReturn(t)
    <3>1. Client(t)
      BY <2>1 DEF Lock, UnlockAndReturn, InUserCode, Client, Acquire
    <3> QED
      BY <3>1, <1>2 DEF CVNext
  <2>2. CASE Arrive(t) \/ WaitAgain(t)
    BY <2>2, <1>2 DEF Arrive, WaitAgain, CVNext, Waits
  <2>3. CASE \/ \E n \in Sizes : Complete(t, n)
             \/ CompletionThrows(t) \/ LeaveLoop(t)
    BY <2>3 DEF Complete, CompletionThrows, LeaveLoop
  <2>4. CASE NotifyWaiters(t) \/ InCondWait(t) \/ Switches(t) \/ IsInterrupted(t)
    BY <2>4, <1>2 DEF NotifyWaiters, InCondWait, Switches, IsInterrupted, CVNext
  <2> QED
    BY <1>2, <2>1, <2>2, <2>3, <2>4 DEF Proceeds
<1> QED
  BY <1>1, <1>2 DEF BarrierNext

LEMMA BarrierKeepsBoth == BarrierSpec => [](IInv /\ CVInv)
<1>1. IInv /\ CVInv /\ [BarrierNext]_allVars => (IInv /\ CVInv)'
  BY BarrierUsesCondition, CVNextIInv, StepKept DEF Kept
<1>2. BarrierInit => IInv /\ CVInv
  BY InitIInv, CVInitInv DEF BarrierInit, CVInit
<1> QED
  BY <1>1, <1>2, PTL DEF BarrierSpec

-----------------------------------------------------------------------------
(* Arithmetic of unsigned int, below the wrap-around.                      *)

LEMMA NextGeneration ==
    ASSUME NEW g \in Nat, g + 1 < Width
    PROVE  (g + 1) % Width = g + 1
BY WidthAssumption, SMT

LEMMA DecrementFacts ==
    ASSUME NEW c \in 1..(Width - 1)
    PROVE  (c + Width - 1) % Width = c - 1
<1>1. /\ Width \in Nat /\ c \in Nat /\ c >= 1 /\ c < Width
      /\ c + Width - 1 = (c - 1) + Width
  BY WidthAssumption
<1> DEFINE k == c - 1
<1>2. k \in Nat /\ k < Width
  BY <1>1
<1> HIDE DEF k
<1>3. (k + Width) % Width = k
  BY <1>1, <1>2, SMT
<1> QED
  BY <1>1, <1>3 DEF k

(* A wrapped count is a natural number as well.                            *)
LEMMA CountIsNat == ASSUME NEW c \in Nat PROVE (c + Width - 1) % Width \in Nat
<1>1. Width \in Nat \ {0}
  BY WidthAssumption, FS_CardinalityType
<1>2. c + Width - 1 \in Nat
  BY <1>1
<1> QED
  BY <1>1, <1>2, SMT

LEMMA SubsetFinite ==
    ASSUME NEW S \in SUBSET Threads
    PROVE  /\ IsFiniteSet(S) /\ Cardinality(S) \in Nat
           /\ Cardinality(S) <= Cardinality(Threads)
BY WidthAssumption, FS_Subset, FS_CardinalityType

-----------------------------------------------------------------------------
(* What every step of a thread t leaves alone.                             *)
Moves(t) == Lock(t) \/ Proceeds(t) \/ IsInterrupted(t)

(* The mutex takes itself only from the thread that unlocks it.            *)
LEMMA MutexHolds ==
    ASSUME CVTypeOK, NEW t \in Threads, NEW u \in Threads \ {t}
    PROVE  /\ Acquire(t) \/ Release(t) \/ Inside(t) \/ Interrupt(t)
                 => holds'[u] = holds[u]
           /\ Acquire(t) \/ Inside(t) \/ Interrupt(t) => (holds[t] => holds'[t])
<1>1. Acquire(t) \/ Inside(t) \/ Interrupt(t)
         => UNCHANGED holds \/ holds' = [holds EXCEPT ![t] = TRUE]
  BY DEF Acquire, LockFree, LockWait, TryLock, Inside, SwitchOut, Activated,
         LockReturns, LockThrows, YieldReturns, YieldSwitches, Reposted,
         UnlockReturns, Interrupt
<1>2. Release(t) => holds' = [holds EXCEPT ![t] = FALSE]
  BY DEF Release, UnlockFree, UnlockHandOff
<1> QED
  BY <1>1, <1>2 DEF CVTypeOK

(* A step of t does not move anybody else.                                 *)
LEMMA OthersStay ==
    ASSUME CVTypeOK, BarrierTypeOK, NEW t \in Threads, Moves(t),
           NEW u \in Threads \ {t}
    PROVE  /\ call'[u] = call[u] /\ gen'[u] = gen[u]
           /\ in'[u] = in[u] /\ holds'[u] = holds[u]
<1> USE DEF CVTypeOK, BarrierTypeOK, To
<1>1. CASE Lock(t) \/ UnlockAndReturn(t)
  BY <1>1, MutexHolds DEF Lock, UnlockAndReturn, waitVars, barrierVars, Acquire
<1>2. CASE Arrive(t) \/ WaitAgain(t)
  BY <1>2 DEF Arrive, WaitAgain, Wait, Enqueue, Move, mutexVars, vars, barrierVars
<1>3. CASE (\E n \in Sizes : Complete(t, n)) \/ CompletionThrows(t) \/ LeaveLoop(t)
  BY <1>3 DEF Complete, CompletionThrows, LeaveLoop, cvVars, mutexVars, vars,
              waitVars, barrierVars
<1>4. CASE NotifyWaiters(t)
  BY <1>4 DEF NotifyWaiters, NotifyAll, Yield, barrierVars
<1>5. CASE InCondWait(t)
  <2>1. call'[u] = call[u] /\ gen'[u] = gen[u]
    BY <1>5 DEF InCondWait, barrierVars
  <2>2. InWait(t)
    BY <1>5 DEF InCondWait
  <2>3. in'[u] = in[u]
    BY <2>2 DEF InWait, Unlock, Pause, PauseReturns, PauseThrows, PauseEnds, RelockFree,
                RelockWait, RelockReturns, RelockThrows, Move, Leave, waitVars
  <2>4. holds'[u] = holds[u]
    BY <2>2, MutexHolds
    DEF InWait, Unlock, Pause, PauseReturns, PauseThrows, PauseEnds, RelockFree,
        RelockWait, RelockReturns, RelockThrows, Acquire, Inside, mutexVars, vars
  <2> QED
    BY <2>1, <2>3, <2>4
<1>6. CASE Switches(t) \/ IsInterrupted(t)
  BY <1>6, MutexHolds DEF Switches, InsideCalls, IsInterrupted, InterruptCaller, Inside,
                          waitVars, barrierVars
<1> QED
  BY <1>1, <1>2, <1>3, <1>4, <1>5, <1>6 DEF Moves, Proceeds

LEMMA BarrierTypes ==
    ASSUME BarrierTypeOK, NEW t \in Threads, Moves(t)
    PROVE  BarrierTypeOK'
<1> USE DEF BarrierTypeOK, To
<1>1. Decremented \in Nat /\ (generation + 1) % Width \in Nat
  <2>1. Width \in Nat \ {0}
    BY WidthAssumption, FS_CardinalityType
  <2> QED
    BY <2>1, CountIsNat, SMT DEF Decremented
<1>2. \A n \in Sizes : n \in Nat
  BY SizesAssumption
<1>3. CASE Arrive(t)
  BY <1>1, <1>3 DEF Arrive
<1>4. CASE \E n \in Sizes : Complete(t, n)
  BY <1>1, <1>2, <1>4 DEF Complete
<1>5. CASE CompletionThrows(t)
  BY <1>1, <1>5 DEF CompletionThrows
<1>6. CASE Lock(t) \/ UnlockAndReturn(t) \/ LeaveLoop(t) \/ NotifyWaiters(t)
  BY <1>6 DEF Lock, UnlockAndReturn, LeaveLoop, NotifyWaiters, barrierVars
<1>7. CASE WaitAgain(t) \/ IsInterrupted(t)
  BY <1>7 DEF WaitAgain, IsInterrupted, barrierVars
<1>8. CASE InCondWait(t) \/ Switches(t)
  BY <1>8 DEF InCondWait, Switches, barrierVars
<1> QED
  BY <1>3, <1>4, <1>5, <1>6, <1>7, <1>8 DEF Moves, Proceeds

-----------------------------------------------------------------------------
(* A thread that is not asleep in the condition variable is not counted.   *)
LEMMA AwakeNotCounted ==
    ASSUME CVInv, BarrierInv, NEW t \in Threads, ~Sleeps(t)
    PROVE  t \notin Counted
BY DEF CVInv, WaiterOK, BarrierInv, CountedAsleep

(* The others keep what holds of each of them.                             *)
LEMMA OthersOK ==
    ASSUME CVInv, BarrierInv, BarrierTypeOK', NEW t \in Threads, Moves(t),
           generation <= generation', CallOK(t)'
    PROVE  \A u \in Threads : CallOK(u)'
<1>1. ASSUME NEW u \in Threads \ {t} PROVE CallOK(u)'
  <2>1. CallOK(u) /\ CVTypeOK /\ BarrierTypeOK
    BY DEF BarrierInv, CVInv
  <2>2. /\ call'[u] = call[u] /\ gen'[u] = gen[u]
        /\ in'[u] = in[u] /\ holds'[u] = holds[u]
    BY <2>1, OthersStay
  <2> QED
    BY <2>1, <2>2 DEF CallOK, BarrierTypeOK
<1> QED
  BY <1>1

LEMMA BoundKept ==
    ASSUME BarrierInv, BarrierTypeOK', UNCHANGED generation, InLock' \subseteq InLock
    PROVE  GenerationBounded'
<1>1. InLock \in SUBSET Threads
  BY DEF InLock
<1>2. /\ Cardinality(InLock) \in Nat /\ Cardinality(InLock') \in Nat
      /\ Cardinality(InLock') <= Cardinality(InLock) /\ Cardinality(Threads) \in Nat
  BY <1>1, SubsetFinite, FS_Subset
<1> QED
  BY <1>2, WidthAssumption DEF BarrierInv, GenerationBounded, BarrierTypeOK

(* A step that counts nobody and begins no generation.                     *)
LEMMA QuietStep ==
    ASSUME CVInv, BarrierInv, NEW t \in Threads, Moves(t),
           UNCHANGED barrierVars, CallOK(t)', t \in Counted' <=> t \in Counted,
           call'[t] = "completing" => call[t] = "completing",
           \A u \in Counted : InCond(u)', GenerationBounded'
    PROVE  BarrierInv'
<1>1. CVTypeOK /\ BarrierTypeOK /\ BarrierTypeOK'
  BY BarrierTypes DEF CVInv, BarrierInv
<1>2. UNCHANGED <<count, generation, size, gen, failed>>
  BY DEF barrierVars
<1>3. \A u \in Threads : CallOK(u)'
  BY <1>1, <1>2, OthersOK DEF BarrierTypeOK
<1>4. \A u \in Threads \ {t} : call'[u] = call[u]
  BY <1>1, OthersStay
<1>5. Counted' = Counted
  BY <1>2, <1>4 DEF Counted
<1>6. CountedAsleep'
  BY <1>4, <1>5 DEF BarrierInv, CountedAsleep
<1>7. CountOK'
  BY <1>2, <1>5 DEF BarrierInv, CountOK
<1> QED
  BY <1>1, <1>3, <1>6, <1>7 DEF BarrierInv

-----------------------------------------------------------------------------
(* Steps that count nobody.                                                *)

LEMMA LockInv ==
    ASSUME CVInv, BarrierInv, NEW t \in Threads, Lock(t)
    PROVE  BarrierInv'
<1>1. /\ BarrierTypeOK /\ CVTypeOK /\ Moves(t)
      /\ call[t] = "out" /\ in[t] = "out" /\ in' = in /\ cond' = cond
      /\ call' = [call EXCEPT ![t] = "locking"]
      /\ generation < MaxGeneration /\ UNCHANGED barrierVars
  BY DEF BarrierInv, CVInv, Lock, InUserCode, To, waitVars, Moves
<1>2. BarrierTypeOK' /\ call'[t] = "locking"
  BY <1>1, BarrierTypes DEF BarrierTypeOK
<1>3. CallOK(t)' /\ t \notin Counted' /\ t \notin Counted
  BY <1>1, <1>2 DEF CallOK, Counted
<1>4. \A u \in Counted : InCond(u)'
  BY <1>1 DEF BarrierInv, CountedAsleep, InCond
<1>5. GenerationBounded'
  <2>1. InLock' \in SUBSET Threads
    BY DEF InLock
  <2>2. /\ Cardinality(InLock') \in Nat /\ Cardinality(Threads) \in Nat
        /\ Cardinality(InLock') <= Cardinality(Threads)
    BY <2>1, SubsetFinite, WidthAssumption, FS_CardinalityType
  <2>3. generation' = generation
    BY <1>1 DEF barrierVars
  <2> QED
    BY <1>1, <2>2, <2>3, WidthAssumption DEF GenerationBounded, BarrierTypeOK
<1> QED
  BY <1>1, <1>2, <1>3, <1>4, <1>5, QuietStep

(* Everybody in the queue is of an earlier generation.                     *)
LEMMA NotifyInv ==
    ASSUME CVInv, BarrierInv, NEW t \in Threads, NotifyWaiters(t)
    PROVE  BarrierInv'
<1>1. /\ BarrierTypeOK /\ CVTypeOK /\ Moves(t)
      /\ call[t] = "completing" /\ in' = in
      /\ call' = [call EXCEPT ![t] = "leaving"] /\ UNCHANGED barrierVars
  BY DEF BarrierInv, CVInv, NotifyWaiters, NotifyAll, Yield, To, Moves, Proceeds
<1>2. BarrierTypeOK' /\ call'[t] = "leaving"
  BY <1>1, BarrierTypes DEF BarrierTypeOK
<1>3. CallOK(t)' /\ t \notin Counted' /\ t \notin Counted
  BY <1>1, <1>2 DEF BarrierInv, CallOK, Counted
<1>4. Counted = {}
  BY <1>1 DEF BarrierInv, CountedAsleep
<1>5. \A u \in Threads \ {t} : call'[u] = call[u]
  BY <1>1, OthersStay
<1>6. GenerationBounded'
  <2>1. InLock' \subseteq InLock
    BY <1>2, <1>5 DEF InLock
  <2> QED
    BY <1>1, <1>2, <2>1, BoundKept DEF barrierVars
<1> QED
  BY <1>1, <1>2, <1>3, <1>4, <1>6, QuietStep

(* A thread that is thrown out of wait has been woken before.              *)
LEMMA CondWaitInv ==
    ASSUME CVInv, BarrierInv, NEW t \in Threads, InCondWait(t)
    PROVE  BarrierInv'
<1>1. /\ BarrierTypeOK /\ CVTypeOK /\ Moves(t) /\ InWait(t) /\ UNCHANGED barrierVars
      /\ To(t, IF in[t] = "unwinding" /\ in'[t] = "out" THEN "leaving" ELSE call[t])
  BY DEF BarrierInv, CVInv, InCondWait, Moves, Proceeds
<1>2. in[t] # "out" /\ cond' = cond
  BY <1>1 DEF InWait, Unlock, Pause, PauseReturns, PauseThrows, PauseEnds, RelockFree,
              RelockWait, RelockReturns, RelockThrows, Move, Relocking, waitVars
<1>3. call[t] = "waiting"
  BY <1>2 DEF BarrierInv, CallOK
<1>4. /\ BarrierTypeOK'
      /\ \/ call'[t] = "waiting" /\ call' = call
         \/ call'[t] = "leaving" /\ in[t] = "unwinding" /\ in'[t] = "out"
  BY <1>1, <1>3, BarrierTypes DEF BarrierTypeOK, To
<1>5. CallOK(t)'
  BY <1>1, <1>3, <1>4 DEF BarrierInv, CallOK, barrierVars
<1>6. t \in Counted' <=> t \in Counted
  <2>1. CASE in[t] = "unwinding"
    <3>1. t \notin Counted
      BY <2>1, AwakeNotCounted DEF Sleeps
    <3> QED
      BY <3>1, <1>1, <1>3, <1>4 DEF Counted, barrierVars
  <2>2. CASE in[t] # "unwinding"
    BY <2>2, <1>1, <1>3, <1>4 DEF Counted, barrierVars
  <2> QED
    BY <2>1, <2>2
<1>7. \A u \in Counted : InCond(u)'
  BY <1>2 DEF BarrierInv, CountedAsleep, InCond
<1>8. GenerationBounded'
  <2>1. \A u \in Threads \ {t} : call'[u] = call[u]
    BY <1>1, OthersStay
  <2>2. InLock' \subseteq InLock
    BY <2>1, <1>4 DEF InLock
  <2> QED
    BY <1>1, <1>4, <2>2, BoundKept DEF barrierVars
<1> QED
  BY <1>1, <1>4, <1>5, <1>6, <1>7, <1>8, QuietStep

(* A woken waiter always finds that its generation is over.                *)
LEMMA ReturnedNotCounted ==
    ASSUME CVInv, BarrierInv, NEW t \in Threads, call[t] = "waiting", in[t] = "out"
    PROVE  gen[t] # generation
<1>1. t \notin Counted
  BY AwakeNotCounted DEF Sleeps
<1> QED
  BY <1>1 DEF Counted

(* The call ends.                                                          *)
LEMMA LeaveInv ==
    ASSUME CVInv, BarrierInv, NEW t \in Threads, LeaveLoop(t) \/ UnlockAndReturn(t)
    PROVE  BarrierInv'
<1>1. /\ BarrierTypeOK /\ CVTypeOK /\ Moves(t) /\ UNCHANGED barrierVars
      /\ in[t] = "out" /\ UNCHANGED <<in, cond>>
      /\ \/ call[t] = "waiting" /\ call' = [call EXCEPT ![t] = "leaving"]
         \/ call[t] = "leaving" /\ call' = [call EXCEPT ![t] = "out"]
  BY DEF BarrierInv, CVInv, LeaveLoop, UnlockAndReturn, InUserCode, To, Moves, Proceeds,
         cvVars, waitVars, barrierVars
<1>2. BarrierTypeOK' /\ call'[t] \in {"leaving", "out"}
  BY <1>1, BarrierTypes DEF BarrierTypeOK
<1>3. CallOK(t)' /\ t \notin Counted'
  BY <1>1, <1>2 DEF CallOK, Counted
<1>4. t \notin Counted
  BY <1>1, AwakeNotCounted DEF Sleeps
<1>5. \A u \in Counted : InCond(u)'
  BY <1>1 DEF BarrierInv, CountedAsleep, InCond
<1>6. GenerationBounded'
  <2>1. \A u \in Threads \ {t} : call'[u] = call[u]
    BY <1>1, OthersStay
  <2>2. InLock' \subseteq InLock
    BY <2>1, <1>2 DEF InLock
  <2> QED
    BY <1>1, <1>2, <2>2, BoundKept DEF barrierVars
<1> QED
  BY <1>1, <1>2, <1>3, <1>4, <1>5, <1>6, QuietStep

(* Inside lock, unlock and notify.                                         *)
LEMMA SwitchInv ==
    ASSUME IInv, CVInv, BarrierInv, NEW t \in Threads, Switches(t) \/ IsInterrupted(t)
    PROVE  BarrierInv'
<1>1. /\ BarrierTypeOK /\ CVTypeOK /\ Moves(t) /\ UNCHANGED barrierVars
      /\ UNCHANGED <<in, cond>>
  BY DEF BarrierInv, CVInv, Switches, InsideCalls, IsInterrupted, InterruptCaller,
         Moves, Proceeds, waitVars
<1>2. /\ UNCHANGED call \/ (call'[t] = "out" /\ in[t] = "out" /\ ~holds'[t])
      /\ holds[t] => holds'[t]
  <2>1. CASE IsInterrupted(t)
    BY <2>1 DEF IsInterrupted, InterruptCaller, Interrupt
  <2>2. CASE Switches(t)
    <3>1. InsideCalls(t)
      BY <2>2 DEF Switches
    <3>2. Inside(t)
      BY <3>1 DEF InsideCalls, Inside
    <3>3. holds[t] => holds'[t]
      <4>1. UNCHANGED holds \/ holds' = [holds EXCEPT ![t] = TRUE]
        BY <3>2 DEF Inside, SwitchOut, Activated, LockReturns, LockThrows, YieldReturns,
                    YieldSwitches, Reposted, UnlockReturns
      <4> QED
        BY <4>1, <1>1 DEF CVTypeOK
    <3>4. at[t] = "resumed" /\ at'[t] = "user" => in[t] = "out"
      BY <3>1 DEF InsideCalls, SwitchOut, Activated, YieldReturns, YieldSwitches,
                  Reposted, UnlockReturns, Go
    <3>5. UNCHANGED call \/ (call'[t] = "out" /\ in[t] = "out" /\ ~holds'[t])
      BY <2>2, <3>4, <1>1 DEF Switches, To, BarrierTypeOK
    <3> QED
      BY <3>3, <3>5
  <2> QED
    BY <2>1, <2>2
<1>3. BarrierTypeOK'
  BY <1>1, BarrierTypes
<1>4. CallOK(t)' /\ (call'[t] = "completing" => call[t] = "completing")
  BY <1>1, <1>2 DEF BarrierInv, CallOK, barrierVars
<1>5. t \in Counted' <=> t \in Counted
  <2>1. CASE UNCHANGED call
    BY <2>1, <1>1 DEF Counted, barrierVars
  <2>2. CASE call'[t] = "out" /\ in[t] = "out"
    BY <2>2, AwakeNotCounted DEF Sleeps, Counted
  <2> QED
    BY <2>1, <2>2, <1>2
<1>6. \A u \in Counted : InCond(u)'
  BY <1>1 DEF BarrierInv, CountedAsleep, InCond
<1>7. GenerationBounded'
  <2>1. \A u \in Threads \ {t} : call'[u] = call[u]
    BY <1>1, OthersStay
  <2>2. InLock' \subseteq InLock
    BY <2>1, <1>2 DEF InLock
  <2> QED
    BY <1>1, <1>3, <2>2, BoundKept DEF barrierVars
<1> QED
  BY <1>1, <1>3, <1>4, <1>5, <1>6, <1>7, QuietStep

-----------------------------------------------------------------------------
(* Steps that count somebody or begin a generation.                        *)

(* Nobody else has the mutex, so no notification is about to be made.      *)
LEMMA NoneCompleting ==
    ASSUME IInv, BarrierInv, NEW t \in Threads, holds[t], call[t] # "completing"
    PROVE  \A u \in Threads : call[u] # "completing"
BY DEF IInv, HoldersOwn, BarrierInv, CallOK

LEMMA ArriveInv ==
    ASSUME IInv, CVInv, BarrierInv, NEW t \in Threads, Arrive(t)
    PROVE  BarrierInv'
<1>1. /\ BarrierTypeOK /\ CVTypeOK /\ Moves(t)
      /\ call[t] = "locking" /\ call' = [call EXCEPT ![t] = "waiting"]
      /\ in[t] = "out" /\ in' = [in EXCEPT ![t] = "queued"]
      /\ holds[t] /\ cond' = Append(cond, t)
      /\ gen' = [gen EXCEPT ![t] = generation]
      /\ Decremented # 0 /\ count' = Decremented
      /\ UNCHANGED <<generation, size, failed>>
  BY DEF BarrierInv, CVInv, Arrive, Locked, InUserCode, Wait, Enqueue, Move, To,
         Moves, Proceeds
<1>2. BarrierTypeOK' /\ call'[t] = "waiting" /\ gen'[t] = generation
  BY <1>1, BarrierTypes DEF BarrierTypeOK
<1>3. \A u \in Threads \ {t} : call'[u] = call[u] /\ gen'[u] = gen[u]
  BY <1>1, OthersStay
<1>4. \A u \in Threads : CallOK(u)'
  <2>1. CallOK(t)' /\ generation <= generation'
    BY <1>1, <1>2 DEF CallOK, BarrierTypeOK
  <2> QED
    BY <2>1, <1>1, <1>2, OthersOK
<1>5. Counted' = Counted \cup {t} /\ t \notin Counted
  BY <1>1, <1>2, <1>3 DEF Counted
<1>6. CountedAsleep'
  <2>1. ToSet(cond') = ToSet(cond) \cup {t}
    BY <1>1, AppendFacts DEF CVTypeOK
  <2>2. \A u \in Counted' : InCond(u)'
    BY <2>1, <1>5 DEF BarrierInv, CountedAsleep, InCond
  <2>3. \A u \in Threads : call'[u] # "completing"
    BY <1>1, <1>2, <1>3, NoneCompleting
  <2> QED
    BY <2>2, <2>3 DEF CountedAsleep
<1>7. CountOK'
  <2> SUFFICES ASSUME ~failed PROVE count' \in 1..(Width - 1)
                                   /\ count' + Cardinality(Counted') = size
    BY <1>1 DEF CountOK
  <2>1. count \in 1..(Width - 1) /\ count + Cardinality(Counted) = size
    BY DEF BarrierInv, CountOK
  <2>2. count' = count - 1
    BY <2>1, <1>1, DecrementFacts DEF Decremented
  <2>3. count' \in 1..(Width - 1)
    BY <2>1, <2>2, <1>1, WidthAssumption
  <2>4. Counted \in SUBSET Threads
    BY DEF Counted
  <2>5. Cardinality(Counted) \in Nat /\ Cardinality(Counted') = Cardinality(Counted) + 1
    BY <2>4, <1>5, SubsetFinite, FS_AddElement
  <2> QED
    BY <2>1, <2>2, <2>3, <2>5
<1>8. GenerationBounded'
  <2>1. InLock' \subseteq InLock
    BY <1>2, <1>3 DEF InLock
  <2> QED
    BY <1>1, <1>2, <2>1, BoundKept
<1> QED
  BY <1>2, <1>4, <1>6, <1>7, <1>8 DEF BarrierInv

(* The generation advances without wrapping around: everybody counted so far
   is of an earlier one.                                                   *)
LEMMA AdvanceFacts ==
    ASSUME BarrierInv, BarrierTypeOK', NEW t \in Threads, call[t] = "locking",
           call'[t] # "locking", call'[t] # "waiting",
           \A u \in Threads \ {t} : call'[u] = call[u] /\ gen'[u] = gen[u],
           generation' = (generation + 1) % Width
    PROVE  /\ generation' = generation + 1
           /\ Counted' = {} /\ GenerationBounded'
<1>1. InLock \in SUBSET Threads /\ t \in InLock /\ InLock' = InLock \ {t}
  BY DEF InLock
<1>2. /\ IsFiniteSet(InLock) /\ Cardinality(InLock) \in Nat
      /\ Cardinality(InLock') = Cardinality(InLock) - 1
  BY <1>1, SubsetFinite, FS_RemoveElement
<1>3. Cardinality(InLock') \in Nat
  BY <1>1, <1>2, FS_RemoveElement, FS_CardinalityType
<1>4. /\ generation \in Nat /\ Cardinality(Threads) \in Nat
      /\ generation + Cardinality(InLock) <= MaxGeneration + Cardinality(Threads)
      /\ MaxGeneration \in Nat /\ Width \in Nat
      /\ MaxGeneration + Cardinality(Threads) < Width
  BY WidthAssumption, FS_CardinalityType
  DEF BarrierInv, BarrierTypeOK, GenerationBounded
<1>5. generation + 1 < Width
  BY <1>2, <1>3, <1>4
<1>6. generation' = generation + 1
  BY <1>4, <1>5, NextGeneration
<1>7. Counted' = {}
  <2>1. ASSUME NEW u \in Threads, call'[u] = "waiting" PROVE gen'[u] # generation'
    <3>1. u # t /\ call[u] = "waiting" /\ gen'[u] = gen[u]
      BY <2>1
    <3>2. gen[u] \in Nat /\ gen[u] <= generation
      BY <3>1 DEF BarrierInv, BarrierTypeOK, CallOK
    <3> QED
      BY <3>1, <3>2, <1>4, <1>6
  <2> QED
    BY <2>1 DEF Counted
<1>8. GenerationBounded'
  BY <1>2, <1>3, <1>4, <1>6 DEF GenerationBounded
<1> QED
  BY <1>6, <1>7, <1>8

LEMMA CompleteInv ==
    ASSUME IInv, CVInv, BarrierInv, NEW t \in Threads,
           (\E n \in Sizes : Complete(t, n)) \/ CompletionThrows(t)
    PROVE  BarrierInv'
<1>1. /\ BarrierTypeOK /\ CVTypeOK /\ Moves(t)
      /\ call[t] = "locking" /\ in[t] = "out" /\ holds[t]
      /\ generation' = (generation + 1) % Width
      /\ UNCHANGED <<in, cond, holds, gen>>
      /\ call' \in {[call EXCEPT ![t] = "completing"], [call EXCEPT ![t] = "leaving"]}
      /\ ~failed' => count' = size' /\ size' \in Sizes
  <2>1. /\ BarrierTypeOK /\ CVTypeOK /\ Moves(t)
    BY DEF BarrierInv, CVInv, Moves, Proceeds
  <2>2. Locked(t) /\ generation' = (generation + 1) % Width /\ UNCHANGED <<cvVars, gen>>
    BY DEF Complete, CompletionThrows
  <2>3. UNCHANGED <<in, cond, holds>>
    BY <2>2 DEF cvVars, mutexVars, vars, waitVars
  <2>4. call' \in {[call EXCEPT ![t] = "completing"], [call EXCEPT ![t] = "leaving"]}
    BY DEF Complete, CompletionThrows, To
  <2>5. ~failed' => count' = size' /\ size' \in Sizes
    BY DEF Complete, CompletionThrows
  <2> QED
    BY <2>1, <2>2, <2>3, <2>4, <2>5 DEF Locked, InUserCode
<1>2. BarrierTypeOK' /\ call'[t] \in {"completing", "leaving"}
  BY <1>1, BarrierTypes DEF BarrierTypeOK
<1>3. \A u \in Threads \ {t} : call'[u] = call[u] /\ gen'[u] = gen[u]
  BY <1>1, OthersStay
<1>4. /\ generation' = generation + 1
      /\ Counted' = {} /\ GenerationBounded'
  BY <1>1, <1>2, <1>3, AdvanceFacts DEF BarrierInv
<1>5. \A u \in Threads : CallOK(u)'
  <2>1. CallOK(t)' /\ generation <= generation'
    BY <1>1, <1>2, <1>4 DEF CallOK, BarrierTypeOK
  <2> QED
    BY <2>1, <1>1, <1>2, OthersOK
<1>6. CountedAsleep'
  BY <1>4 DEF CountedAsleep
<1>7. CountOK'
  <2> SUFFICES ASSUME ~failed' PROVE count' \in 1..(Width - 1)
                                    /\ count' + Cardinality(Counted') = size'
    BY DEF CountOK
  <2>1. count' = size' /\ count' \in 1..(Width - 1)
    BY <1>1, SizesAssumption
  <2>2. Cardinality(Counted') = 0
    BY <1>4, FS_EmptySet
  <2>3. count' \in Nat
    BY <1>2 DEF BarrierTypeOK
  <2>4. \A n \in Nat : n + 0 = n
    OBVIOUS
  <2> QED
    BY <2>1, <2>2, <2>3, <2>4
<1> QED
  BY <1>2, <1>4, <1>5, <1>6, <1>7 DEF BarrierInv

-----------------------------------------------------------------------------
(* All of it together.                                                     *)
BarrierInitially == BarrierInit /\ IInv /\ CVInv

LEMMA BarrierInitInv == BarrierInitially => BarrierInv
<1> SUFFICES ASSUME BarrierInitially PROVE BarrierInv
  OBVIOUS
<1>1. /\ count \in Sizes /\ size = count /\ generation = 0
      /\ call = [t \in Threads |-> "out"] /\ gen = [t \in Threads |-> 0]
      /\ failed = FALSE /\ in = [t \in Threads |-> "out"]
  BY DEF BarrierInitially, BarrierInit, CVInit
<1>2. BarrierTypeOK /\ \A t \in Threads : CallOK(t)
  <2>1. count \in Nat
    BY <1>1, SizesAssumption
  <2>2. BarrierTypeOK
    BY <2>1, <1>1 DEF BarrierTypeOK
  <2>3. \A t \in Threads : CallOK(t)
    BY <1>1 DEF CallOK
  <2> QED
    BY <2>2, <2>3
<1>3. Counted = {} /\ InLock = {}
  BY <1>1 DEF Counted, InLock
<1>4. Cardinality(Counted) = 0 /\ Cardinality(InLock) = 0
  BY <1>3, FS_EmptySet
<1>5. CountedAsleep
  BY <1>3 DEF CountedAsleep
<1>6. CountOK
  <2>1. count \in 1..(Width - 1)
    BY <1>1, SizesAssumption
  <2> QED
    BY <2>1, <1>1, <1>4, WidthAssumption DEF CountOK
<1>7. GenerationBounded
  <2>1. MaxGeneration \in Nat /\ Cardinality(Threads) \in Nat
    BY WidthAssumption, FS_CardinalityType
  <2> QED
    BY <2>1, <1>1, <1>4 DEF GenerationBounded
<1> QED
  BY <1>2, <1>5, <1>6, <1>7 DEF BarrierInv

(* Nobody leaves wait before its generation is complete.                   *)
OnlyCompletedLeave ==
    \A t \in Threads :
       call[t] = "waiting" /\ call'[t] # "waiting" => gen[t] # generation

LEMMA BarrierStep ==
    ASSUME IInv, CVInv, BarrierInv, [BarrierNext]_allVars
    PROVE  BarrierInv' /\ OnlyCompletedLeave
<1>1. CASE UNCHANGED allVars
  <2>1. UNCHANGED <<in, cond, holds, count, generation, size, gen, failed, call>>
    BY <1>1 DEF allVars, cvVars, mutexVars, vars, waitVars, barrierVars
  <2>2. BarrierTypeOK' /\ \A t \in Threads : CallOK(t)'
    BY <2>1 DEF BarrierInv, BarrierTypeOK, CallOK
  <2>3. Counted' = Counted /\ InLock' = InLock
    BY <2>1 DEF Counted, InLock
  <2>4. CountedAsleep' /\ CountOK' /\ GenerationBounded'
    BY <2>1, <2>3 DEF BarrierInv, CountedAsleep, CountOK, GenerationBounded, InCond
  <2>5. OnlyCompletedLeave
    BY <2>1 DEF OnlyCompletedLeave
  <2> QED
    BY <2>2, <2>4, <2>5 DEF BarrierInv
<1>2. ASSUME NEW t \in Threads, Moves(t) PROVE BarrierInv' /\ OnlyCompletedLeave
  <2>1. ~WaitAgain(t)
    BY ReturnedNotCounted DEF WaitAgain, InUserCode
  <2>2. BarrierInv'
    BY <1>2, <2>1, LockInv, NotifyInv, CondWaitInv, LeaveInv, SwitchInv, ArriveInv,
       CompleteInv DEF Moves, Proceeds
  <2>3. CVTypeOK /\ BarrierTypeOK
    BY DEF CVInv, BarrierInv
  <2>4. \A u \in Threads \ {t} : call'[u] = call[u]
    BY <1>2, <2>3, OthersStay
  <2>5. ASSUME call[t] = "waiting", call'[t] # "waiting" PROVE gen[t] # generation
    <3>1. CASE LeaveLoop(t)
      BY <3>1 DEF LeaveLoop
    <3>2. CASE InCondWait(t)
      <4>1. in[t] = "unwinding"
        BY <3>2, <2>3, <2>5 DEF InCondWait, To, BarrierTypeOK
      <4>2. t \notin Counted
        BY <4>1, AwakeNotCounted DEF Sleeps
      <4> QED
        BY <4>2, <2>5 DEF Counted
    <3>3. CASE Switches(t)
      <4>1. at[t] = "resumed" /\ at'[t] = "user" /\ InsideCalls(t)
        BY <3>3, <2>3, <2>5 DEF Switches, To, BarrierTypeOK
      <4>2. in[t] = "out"
        BY <4>1 DEF InsideCalls, SwitchOut, Activated, YieldReturns, YieldSwitches,
                    Reposted, UnlockReturns, Go
      <4> QED
        BY <4>2, <2>5, ReturnedNotCounted
    <3>4. CASE \/ Lock(t) \/ Arrive(t) \/ CompletionThrows(t) \/ NotifyWaiters(t)
               \/ UnlockAndReturn(t) \/ \E n \in Sizes : Complete(t, n)
      BY <3>4, <2>5 DEF Lock, Arrive, CompletionThrows, NotifyWaiters, UnlockAndReturn,
                        Complete, Locked
    <3>5. CASE IsInterrupted(t)
      BY <3>5, <2>5 DEF IsInterrupted
    <3> QED
      BY <1>2, <2>1, <3>1, <3>2, <3>3, <3>4, <3>5 DEF Moves, Proceeds
  <2> QED
    BY <2>2, <2>4, <2>5 DEF OnlyCompletedLeave
<1> QED
  BY <1>1, <1>2 DEF BarrierNext, Moves

LEMMA BarrierInvariance == BarrierSpec => [](IInv /\ CVInv /\ BarrierInv)
<1>1. /\ IInv /\ CVInv /\ BarrierInv /\ [BarrierNext]_allVars => BarrierInv'
  BY BarrierStep
<1>2. BarrierInit /\ IInv /\ CVInv => BarrierInv
  BY BarrierInitInv DEF BarrierInitially
<1> QED
  BY <1>1, <1>2, BarrierKeepsBoth, PTL DEF BarrierSpec

(* m_count is what is missing from the generation, however the threads in
   wait are interrupted and whatever the completion function returns: none
   is counted twice, and none leaves an incomplete generation.             *)
THEOREM BarrierCounts == BarrierSpec => []CountExact
<1>1. BarrierInv => CountExact
  BY DEF BarrierInv, CountOK, CountExact
<1> QED
  BY <1>1, BarrierInvariance, PTL

(* A thread back from the wait finds its generation complete, so that the
   loop of barrier::wait never waits a second time.                        *)
WokenWhenComplete ==
    \A t \in Threads :
       call[t] = "waiting" /\ InUserCode(t) => gen[t] # generation

(* Nobody returns or throws from wait before its generation is complete, also
   when a completion function has thrown, and nobody is woken before that. *)
THEOREM BarrierHolds ==
    BarrierSpec => [][OnlyCompletedLeave]_allVars /\ []WokenWhenComplete
<1>1. IInv /\ CVInv /\ BarrierInv /\ [BarrierNext]_allVars
         => [OnlyCompletedLeave]_allVars
  BY BarrierStep
<1>2. IInv /\ CVInv /\ BarrierInv => WokenWhenComplete
  BY ReturnedNotCounted DEF WokenWhenComplete, InUserCode
<1> QED
  BY <1>1, <1>2, BarrierInvariance, PTL DEF BarrierSpec

(* The composition is a behaviour of the condition variable, so that what
   is proved of it and of the mutex holds here.                            *)
THEOREM BarrierIsClient == BarrierSpec => CVSpec
<1>1. BarrierInit => CVInit
  BY DEF BarrierInit
<1> QED
  BY <1>1, BarrierUsesCondition, PTL DEF BarrierSpec, CVSpec
=============================================================================
