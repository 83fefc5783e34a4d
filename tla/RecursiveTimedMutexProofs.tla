---------------------- MODULE RecursiveTimedMutexProofs ----------------------
(***************************************************************************)
(* Proofs about RecursiveTimedMutex and, through it, TimedMutex, for every *)
(* set of threads and every bound on the level.                            *)
(*                                                                         *)
(* OneResume is not inductive: a waiter that has been taken from the queue *)
(* is resumed by its activation or by its timer's handler, and what it     *)
(* then does depends on whether it was made the owner before.  IInv says   *)
(* which of three things has happened to each waiter.  LevelCountsLocks    *)
(* needs the same: a thread that is woken without having timed out has one *)
(* lock, and only if it is the owner.                                      *)
(***************************************************************************)
EXTENDS RecursiveTimedMutex, QueueFacts

Places == {"user", "pausing", "paused", "resumed", "yielding", "yielded"}

TimedTypeOK == /\ owner \in Threads \cup {NoThread}
               /\ suspended \in Seq(Threads)
               /\ timer \in [Threads -> {"none", "armed", "fired", "handled"}]
               /\ at \in [Threads -> Places]
               /\ wake \in [Threads -> BOOLEAN]
               /\ holds \in [Threads -> BOOLEAN]
               /\ interrupted \in [Threads -> BOOLEAN]
LevelTypeOK == level \in Nat /\ depth \in [Threads -> Nat]

Queued(t) == t \in ToSet(suspended)
Sleeps(t) == at[t] \in {"pausing", "paused"}

(* A waiter is in the queue, or has been handed the mutex -- and activated,
   or left to its timer's handler -- or was activated by that handler.     *)
WaiterOK(t) ==
    /\ Sleeps(t) =>
         \/ Queued(t) /\ owner # t /\ ~wake[t] /\ timer[t] # "handled"
         \/ ~Queued(t) /\ owner = t /\ wake[t] /\ timer[t] = "none"
         \/ ~Queued(t) /\ owner = t /\ ~wake[t] /\ timer[t] = "fired"
         \/ ~Queued(t) /\ wake[t] /\ timer[t] = "handled"
    /\ at[t] = "resumed" =>
         /\ ~Queued(t) /\ ~wake[t]
         /\ timer[t] = "handled" \/ (timer[t] = "none" /\ owner = t)
    /\ at[t] \in {"user", "yielding", "yielded"} =>
         ~Queued(t) /\ timer[t] = "none" /\ (wake[t] => at[t] = "yielded")

WaitersOK == /\ Distinct(suspended)
             /\ suspended # <<>> => owner # NoThread
             /\ \A t \in Threads : WaiterOK(t)

TimedInv == TimedTypeOK /\ WaitersOK

(* What a caller was told is what it has to undo; an owner has level_ > 0. *)
LevelOK == /\ \A t \in Threads : holds[t] <=> depth[t] > 0
           /\ owner # NoThread => level > 0
           /\ LevelCountsLocks

IInv == TimedInv /\ LevelTypeOK /\ LevelOK

-----------------------------------------------------------------------------
(* The steps of timed_mutex.                                               *)

(* A step that moves t alone.                                              *)
LEMMA OneMoves ==
    ASSUME TimedInv, TimedTypeOK', NEW t \in Threads, WaiterOK(t)',
           Distinct(suspended)', suspended' # <<>> => owner' # NoThread,
           \A u \in Threads \ {t} : /\ at'[u] = at[u] /\ timer'[u] = timer[u]
                                    /\ wake'[u] = wake[u]
                                    /\ Queued(u)' <=> Queued(u)
                                    /\ owner' = u <=> owner = u
    PROVE  TimedInv'
<1>1. ASSUME NEW u \in Threads \ {t} PROVE WaiterOK(u)'
  <2>1. WaiterOK(u)
    BY DEF TimedInv, WaitersOK
  <2> QED
    BY <2>1 DEF WaiterOK, Sleeps
<1> QED
  BY <1>1 DEF TimedInv, WaitersOK

LEMMA TakeKeeps ==
    ASSUME TimedInv, NEW t \in Threads, T!Take(t), owner \in {NoThread, t}
    PROVE  TimedInv'
<1>1. TimedTypeOK' /\ owner' = t /\ UNCHANGED <<suspended, at, timer, wake>>
  BY DEF T!Take, TimedInv, TimedTypeOK
<1>2. WaiterOK(t)' /\ (\A u \in Threads : Queued(u)' <=> Queued(u))
  BY <1>1 DEF T!Take, TimedInv, WaitersOK, WaiterOK, Queued, Sleeps
<1> QED
  BY <1>1, <1>2, OneMoves, NoThreadAssumption DEF TimedInv, WaitersOK

LEMMA EnqueueKeeps ==
    ASSUME TimedInv, NEW t \in Threads, NEW x \in {"none", "armed"}, T!Enqueue(t, x)
    PROVE  TimedInv'
<1>1. /\ at[t] = "user" /\ at' = [at EXCEPT ![t] = "pausing"]
      /\ owner # NoThread /\ owner # t
      /\ suspended' = Append(suspended, t) /\ timer' = [timer EXCEPT ![t] = x]
      /\ UNCHANGED <<owner, wake, holds, interrupted>>
  BY DEF T!Enqueue, T!Go
<1>2. suspended \in Seq(Threads) /\ Distinct(suspended) /\ ~Queued(t) /\ ~wake[t]
  BY <1>1 DEF TimedInv, TimedTypeOK, WaitersOK, WaiterOK
<1>3. /\ suspended' \in Seq(Threads) /\ Distinct(suspended)'
      /\ ToSet(suspended') = ToSet(suspended) \cup {t}
  BY <1>1, <1>2, AppendFacts DEF Queued
<1>4. TimedTypeOK'
  BY <1>1, <1>3 DEF TimedInv, TimedTypeOK, Places
<1>5. WaiterOK(t)'
  BY <1>1, <1>2, <1>3 DEF TimedInv, TimedTypeOK, WaiterOK, Queued, Sleeps
<1>6. \A u \in Threads \ {t} : /\ at'[u] = at[u] /\ timer'[u] = timer[u]
                               /\ Queued(u)' <=> Queued(u)
  BY <1>1, <1>3 DEF TimedInv, TimedTypeOK, Queued
<1> QED
  BY <1>1, <1>3, <1>4, <1>5, <1>6, OneMoves

LEMMA UnlockFreeKeeps ==
    ASSUME TimedInv, NEW t \in Threads, T!UnlockFree(t)
    PROVE  TimedInv'
<1>1. /\ at[t] = "user" /\ owner = t /\ suspended' = <<>> /\ owner' = NoThread
      /\ TimedTypeOK' /\ UNCHANGED <<suspended, at, timer, wake>>
  BY DEF T!UnlockFree, TimedInv, TimedTypeOK
<1>2. WaiterOK(t)' /\ (\A u \in Threads : Queued(u)' <=> Queued(u))
  BY <1>1 DEF TimedInv, WaitersOK, WaiterOK, Queued, Sleeps
<1> QED
  BY <1>1, <1>2, OneMoves, NoThreadAssumption DEF TimedInv, WaitersOK

(* The oldest waiter is in the queue and its timer, if it has one, has not
   been handled: whether it expired before or is cancelled now, its handler
   is what resumes it.                                                     *)
LEMMA HandOffKeeps ==
    ASSUME TimedInv, NEW t \in Threads, T!UnlockHandOff(t)
    PROVE  /\ TimedInv'
           /\ \E u \in Threads : owner' = u /\ Sleeps(u) /\ Sleeps(u)'
<1> PICK u : u = suspended[1]
  OBVIOUS
<1>1. /\ at[t] = "user" /\ at' = [at EXCEPT ![t] = "yielding"]
      /\ owner = t /\ owner' = Head(suspended) /\ suspended' = Tail(suspended)
      /\ holds' = [holds EXCEPT ![t] = FALSE] /\ suspended # <<>>
      /\ UNCHANGED interrupted
  BY DEF T!UnlockHandOff, T!HandOver, T!Go
<1>2. /\ suspended \in Seq(Threads) /\ Distinct(suspended) /\ WaiterOK(t)
      /\ \A v \in Threads : WaiterOK(v)
  BY DEF TimedInv, TimedTypeOK, WaitersOK
<1>3. Head(suspended) = u /\ u \in Threads /\ Queued(u)
  BY <1>1, <1>2, MemberFacts DEF Queued
<1>4. /\ suspended' \in Seq(Threads) /\ Distinct(suspended)'
      /\ ToSet(suspended') = ToSet(suspended) \ {u}
  BY <1>1, <1>2, TailFacts
<1>5. Sleeps(u) /\ ~wake[u] /\ timer[u] \in {"none", "armed", "fired"} /\ u # t
  BY <1>1, <1>2, <1>3 DEF WaiterOK, Sleeps, TimedInv, TimedTypeOK, Places
<1>6. \/ /\ timer[u] = "none" /\ wake' = [wake EXCEPT ![u] = TRUE] /\ timer' = timer
      \/ /\ timer[u] # "none" /\ timer' = [timer EXCEPT ![u] = "fired"] /\ wake' = wake
  BY <1>3 DEF T!UnlockHandOff
<1>7. /\ at'[t] = "yielding" /\ \A v \in Threads \ {t} : at'[v] = at[v]
      /\ \A v \in Threads \ {u} : timer'[v] = timer[v] /\ wake'[v] = wake[v]
  BY <1>1, <1>6 DEF TimedInv, TimedTypeOK
<1>8. TimedTypeOK'
  BY <1>1, <1>3, <1>4, <1>6 DEF TimedInv, TimedTypeOK, Places
<1>9. WaiterOK(u)'
  <2>1. Sleeps(u)' /\ ~Queued(u)' /\ owner' = u
    BY <1>1, <1>3, <1>4, <1>5, <1>7 DEF Sleeps, Queued
  <2>2. (wake'[u] /\ timer'[u] = "none") \/ (~wake'[u] /\ timer'[u] = "fired")
    BY <1>3, <1>5, <1>6 DEF TimedInv, TimedTypeOK
  <2> QED
    BY <2>1, <2>2 DEF WaiterOK, Sleeps
<1>10. WaiterOK(t)'
  BY <1>1, <1>2, <1>4, <1>5, <1>7 DEF WaiterOK, Sleeps, Queued
<1>11. ASSUME NEW v \in Threads, v # t, v # u PROVE WaiterOK(v)'
  <2>1. /\ at'[v] = at[v] /\ timer'[v] = timer[v] /\ wake'[v] = wake[v]
        /\ Queued(v)' <=> Queued(v)
        /\ owner' # v /\ owner # v
    BY <1>1, <1>3, <1>4, <1>7, <1>11 DEF Queued
  <2> QED
    BY <1>2, <2>1 DEF WaiterOK, Sleeps
<1>12. owner' # NoThread
  BY <1>1, <1>3, NoThreadAssumption
<1> QED
  BY <1>1, <1>3, <1>4, <1>5, <1>7, <1>8, <1>9, <1>10, <1>11, <1>12
     DEF TimedInv, WaitersOK, Sleeps

LEMMA TimersKeep ==
    ASSUME TimedInv, NEW t \in Threads, T!Timers(t)
    PROVE  TimedInv'
<1>1. WaiterOK(t) /\ suspended \in Seq(Threads) /\ Distinct(suspended)
  BY DEF TimedInv, TimedTypeOK, WaitersOK
<1>2. CASE T!Expires(t)
  <2>1. /\ timer[t] = "armed" /\ timer' = [timer EXCEPT ![t] = "fired"]
        /\ UNCHANGED <<owner, suspended, at, wake, holds, interrupted>>
    BY <1>2 DEF T!Expires
  <2>2. TimedTypeOK' /\ timer'[t] = "fired"
    BY <2>1 DEF TimedInv, TimedTypeOK
  <2>3. \A u \in Threads : Queued(u)' <=> Queued(u)
    BY <2>1 DEF Queued
  <2>4. WaiterOK(t)'
    BY <1>1, <2>1, <2>2, <2>3 DEF WaiterOK, Sleeps, TimedInv, TimedTypeOK, Places
  <2>5. \A u \in Threads \ {t} : timer'[u] = timer[u]
    BY <2>1 DEF TimedInv, TimedTypeOK
  <2> QED
    BY <2>1, <2>2, <2>3, <2>4, <2>5, OneMoves DEF TimedInv, WaitersOK
<1>3. CASE T!TimeoutHandler(t)
  <2>1. /\ timer[t] = "fired" /\ at[t] = "paused"
        /\ timer' = [timer EXCEPT ![t] = "handled"] /\ wake' = [wake EXCEPT ![t] = TRUE]
        /\ suspended' = IF owner # t THEN T!RemoveFirst(suspended, t) ELSE suspended
        /\ UNCHANGED <<owner, at, holds, interrupted>>
    BY <1>3 DEF T!TimeoutHandler, T!Fires
  <2>2. T!RemoveFirst(suspended, t) = RemoveFirst(suspended, t)
    BY DEF RemoveFirst, SelectInSeq, RemoveAt, Min,
           T!RemoveFirst, T!SelectInSeq, T!RemoveAt, T!Min
  <2>3. /\ suspended' \in Seq(Threads) /\ Distinct(suspended)'
        /\ ToSet(suspended') = ToSet(suspended) \ {t}
    <3>1. CASE owner # t
      BY <1>1, <2>1, <2>2, <3>1, RemoveFirstFacts
    <3>2. CASE owner = t
      <4>1. t \notin ToSet(suspended)
        BY <1>1, <2>1, <3>2 DEF WaiterOK, Sleeps, Queued
      <4> QED
        BY <1>1, <2>1, <3>2, <4>1
    <3> QED
      BY <3>1, <3>2
  <2>4. TimedTypeOK' /\ timer'[t] = "handled" /\ wake'[t]
    BY <2>1, <2>3 DEF TimedInv, TimedTypeOK
  <2>5. /\ WaiterOK(t)'
        /\ \A u \in Threads \ {t} : /\ timer'[u] = timer[u] /\ wake'[u] = wake[u]
                                    /\ Queued(u)' <=> Queued(u)
    BY <2>1, <2>3, <2>4 DEF WaiterOK, Sleeps, Queued, TimedInv, TimedTypeOK
  <2>6. suspended' # <<>> => owner' # NoThread
    <3>1. suspended = <<>> => suspended' = <<>>
      BY <2>3, MemberFacts, EmptyFacts
    <3> QED
      BY <2>1, <3>1 DEF TimedInv, WaitersOK
  <2> QED
    BY <2>1, <2>3, <2>4, <2>5, <2>6, OneMoves
<1> QED
  BY <1>2, <1>3 DEF T!Timers

LEMMA InsideKeeps ==
    ASSUME TimedInv, NEW t \in Threads, T!Inside(t)
    PROVE  TimedInv'
<1>1. WaiterOK(t) /\ at \in [Threads -> Places] /\ wake \in [Threads -> BOOLEAN]
  BY DEF TimedInv, TimedTypeOK, WaitersOK
<1>2. owner' = owner /\ suspended' = suspended /\ \A u \in Threads : Queued(u)' <=> Queued(u)
  BY DEF T!Inside, T!SwitchOut, T!Activated, T!WaitReturns, T!WaitThrows,
         T!YieldReturns, T!YieldSwitches, T!UnlockReturns, Queued
<1>3. CASE T!SwitchOut(t) \/ T!YieldReturns(t)
  <2>1. /\ \/ at[t] = "pausing" /\ at' = [at EXCEPT ![t] = "paused"]
           \/ at[t] = "yielding" /\ at' = [at EXCEPT ![t] = "user"]
        /\ UNCHANGED <<timer, wake, holds, interrupted>>
    BY <1>3 DEF T!SwitchOut, T!YieldReturns, T!Go
  <2>2. TimedTypeOK' /\ WaiterOK(t)' /\ \A u \in Threads \ {t} : at'[u] = at[u]
    BY <1>1, <1>2, <2>1 DEF TimedInv, TimedTypeOK, Places, WaiterOK, Sleeps
  <2> QED
    BY <1>2, <2>1, <2>2, OneMoves DEF TimedInv, WaitersOK
<1>4. CASE T!Activated(t) \/ T!UnlockReturns(t)
  <2>1. /\ \/ at[t] = "paused" /\ at' = [at EXCEPT ![t] = "resumed"]
           \/ at[t] = "yielded" /\ at' = [at EXCEPT ![t] = "user"]
        /\ wake[t] /\ wake' = [wake EXCEPT ![t] = FALSE]
        /\ UNCHANGED <<timer, holds, interrupted>>
    BY <1>4 DEF T!Activated, T!UnlockReturns, T!Go
  <2>2. /\ TimedTypeOK'
        /\ \A u \in Threads \ {t} : at'[u] = at[u] /\ wake'[u] = wake[u]
    BY <1>1, <1>2, <2>1 DEF TimedInv, TimedTypeOK, Places
  <2>3. WaiterOK(t)'
    BY <1>1, <1>2, <2>1 DEF WaiterOK, Sleeps
  <2> QED
    BY <1>2, <2>1, <2>2, <2>3, OneMoves DEF TimedInv, WaitersOK
<1>5. CASE T!YieldSwitches(t)
  <2>1. /\ at[t] = "yielding" /\ at' = [at EXCEPT ![t] = "yielded"]
        /\ wake' = [wake EXCEPT ![t] = TRUE]
        /\ UNCHANGED <<timer, holds, interrupted>>
    BY <1>5 DEF T!YieldSwitches, T!Go
  <2>2. /\ TimedTypeOK'
        /\ \A u \in Threads \ {t} : at'[u] = at[u] /\ wake'[u] = wake[u]
    BY <1>1, <1>2, <2>1 DEF TimedInv, TimedTypeOK, Places
  <2>3. WaiterOK(t)'
    BY <1>1, <1>2, <2>1 DEF WaiterOK, Sleeps
  <2> QED
    BY <1>2, <2>1, <2>2, <2>3, OneMoves DEF TimedInv, WaitersOK
<1>6. CASE T!WaitReturns(t) \/ T!WaitThrows(t)
  <2>1. /\ at[t] = "resumed" /\ at' = [at EXCEPT ![t] = "user"]
        /\ timer' = [timer EXCEPT ![t] = "none"]
        /\ holds' \in [Threads -> BOOLEAN]
        /\ UNCHANGED <<wake, interrupted>>
    BY <1>6 DEF T!WaitReturns, T!WaitThrows, T!Go, TimedInv, TimedTypeOK
  <2>2. /\ TimedTypeOK' /\ timer'[t] = "none"
        /\ \A u \in Threads \ {t} : at'[u] = at[u] /\ timer'[u] = timer[u]
    BY <1>1, <1>2, <2>1 DEF TimedInv, TimedTypeOK, Places
  <2>3. WaiterOK(t)'
    BY <1>1, <1>2, <2>1, <2>2 DEF WaiterOK, Sleeps
  <2> QED
    BY <1>2, <2>1, <2>2, <2>3, OneMoves DEF TimedInv, WaitersOK
<1> QED
  BY <1>3, <1>4, <1>5, <1>6 DEF T!Inside

-----------------------------------------------------------------------------
(* What recursive_timed_mutex adds.                                        *)

Waits(t) == at[t] \in {"pausing", "paused", "resumed"}

(* Steps that take, give and count no lock.                                *)
LEMMA LevelKept ==
    ASSUME IInv, TimedInv', UNCHANGED <<owner, level, depth, holds>>,
           Interrupted => Interrupted',
           \A u \in Threads : owner = u /\ ~Interrupted' => (Waits(u)' <=> Waits(u))
    PROVE  IInv'
<1>1. LevelTypeOK'
  BY DEF IInv, LevelTypeOK
<1>2. (\A u \in Threads : holds'[u] <=> depth'[u] > 0) /\ (owner' # NoThread => level' > 0)
  BY DEF IInv, LevelOK
<1>3. OwnedWhileLocked'
  BY DEF IInv, LevelOK, LevelCountsLocks, OwnedWhileLocked
<1>4. ASSUME NEW u \in Threads, owner' = u, ~Interrupted'
      PROVE  level' = IF at'[u] \in {"pausing", "paused", "resumed"} THEN 1 ELSE depth'[u]
  <2>1. level = IF Waits(u) THEN 1 ELSE depth[u]
    BY <1>4 DEF IInv, LevelOK, LevelCountsLocks, Waits
  <2>2. Waits(u)' <=> Waits(u)
    BY <1>4
  <2> QED
    BY <2>1, <2>2 DEF Waits
<1>5. LevelCountsLocks'
  BY <1>3, <1>4 DEF LevelCountsLocks
<1> QED
  BY <1>1, <1>2, <1>5 DEF IInv, LevelOK

(* Nobody but the owner has locks to undo.                                 *)
LEMMA OthersHaveNone ==
    ASSUME IInv
    PROVE  /\ level \in Nat /\ depth \in [Threads -> Nat]
           /\ \A u \in Threads : owner # u => depth[u] = 0
           /\ \A u \in Threads : depth[u] <= level \/ depth[u] = 0
           /\ \A u \in Threads : ~Waits(u) /\ owner = u /\ ~Interrupted => level = depth[u]
<1>1. level \in Nat /\ depth \in [Threads -> Nat]
  BY DEF IInv, LevelTypeOK
<1> QED
  BY <1>1 DEF IInv, LevelOK, LevelCountsLocks, OwnedWhileLocked, Waits

(* t locks or unlocks, or is told the result of a lock it waited for; w is
   the owner afterwards, l its level_ and n the locks that t has.          *)
LEMMA LocksCounted ==
    ASSUME IInv, TimedInv', NEW t \in Threads, NEW l \in Nat, NEW n \in Nat,
           level' = l, Depth(t, n),
           holds'[t] <=> n > 0, \A u \in Threads \ {t} : holds'[u] = holds[u],
           owner' # NoThread => l > 0,
           n > 0 => owner' = t /\ n <= l,
           \A u \in Threads \ {t} : depth[u] = 0 \/ (owner' = u /\ level' = level),
           Interrupted => Interrupted',
           ~Interrupted' => \A u \in Threads :
              owner' = u => l = IF Waits(u)' THEN 1 ELSE depth'[u]
    PROVE  IInv'
<1>1. /\ level \in Nat /\ depth \in [Threads -> Nat] /\ holds \in [Threads -> BOOLEAN]
      /\ \A u \in Threads : depth[u] > 0 => depth[u] <= level
      /\ \A u \in Threads : holds[u] <=> depth[u] > 0
  BY DEF IInv, LevelTypeOK, LevelOK, LevelCountsLocks, OwnedWhileLocked, TimedInv, TimedTypeOK
<1>2. /\ depth' \in [Threads -> Nat] /\ depth'[t] = n
      /\ \A u \in Threads \ {t} : depth'[u] = depth[u]
  BY <1>1 DEF Depth
<1>3. LevelTypeOK'
  BY <1>2 DEF LevelTypeOK
<1>4. ASSUME NEW u \in Threads PROVE holds'[u] <=> depth'[u] > 0
  BY <1>1, <1>2
<1>5. ASSUME NEW u \in Threads, depth'[u] > 0 PROVE owner' = u /\ depth'[u] <= level'
  <2>1. CASE u = t
    BY <2>1, <1>2, <1>5
  <2>2. CASE u # t
    BY <2>2, <1>1, <1>2, <1>5
  <2> QED
    BY <2>1, <2>2
<1>6. LevelCountsLocks'
  BY <1>5 DEF LevelCountsLocks, OwnedWhileLocked, Waits
<1> QED
  BY <1>3, <1>4, <1>6 DEF IInv, LevelOK

LEMMA InitIInv == Init => IInv
<1> SUFFICES ASSUME Init PROVE IInv
  OBVIOUS
<1>1. /\ owner = NoThread /\ suspended = <<>>
      /\ timer = [t \in Threads |-> "none"] /\ at = [t \in Threads |-> "user"]
      /\ wake = [t \in Threads |-> FALSE] /\ holds = [t \in Threads |-> FALSE]
      /\ interrupted = [t \in Threads |-> FALSE]
      /\ level \in 0..MaxLevel /\ depth = [t \in Threads |-> 0]
  BY DEF Init, T!Init
<1>2. suspended \in Seq(Threads) /\ Distinct(suspended) /\ ToSet(suspended) = {}
  BY <1>1, EmptyFacts
<1>3. TimedTypeOK /\ LevelTypeOK
  BY <1>1, <1>2, LevelAssumption DEF TimedTypeOK, LevelTypeOK, Places
<1>4. WaitersOK
  BY <1>1, <1>2 DEF WaitersOK, WaiterOK, Queued, Sleeps
<1>5. LevelOK
  BY <1>1, NoThreadAssumption DEF LevelOK, LevelCountsLocks, OwnedWhileLocked
<1> QED
  BY <1>3, <1>4, <1>5 DEF IInv, TimedInv

LEMMA AcquireKeeps ==
    ASSUME IInv, NEW t \in Threads, Acquire(t)
    PROVE  IInv'
<1>1. /\ TimedInv /\ at \in [Threads -> Places]
      /\ holds \in [Threads -> BOOLEAN]
  BY DEF IInv, TimedInv, TimedTypeOK
<1>2. CASE LockFree(t)
  <2>1. /\ T!Take(t) /\ owner = NoThread /\ at[t] = "user" /\ owner' = t
        /\ level' = 1 /\ Depth(t, 1) /\ holds' = [holds EXCEPT ![t] = TRUE]
        /\ UNCHANGED <<at, interrupted>>
    BY <1>2 DEF LockFree, T!LockFree, T!Take
  <2>2. TimedInv'
    BY <2>1, <1>1, TakeKeeps
  <2>3. \A u \in Threads : depth[u] = 0
    BY <2>1, OthersHaveNone, NoThreadAssumption
  <2>4. depth'[t] = 1 /\ ~Waits(t)'
    BY <2>1, OthersHaveNone DEF Depth, Waits
  <2>5. Interrupted' <=> Interrupted
    BY <2>1 DEF Interrupted
  <2>6. holds'[t] /\ \A u \in Threads \ {t} : holds'[u] = holds[u]
    BY <2>1, <1>1
  <2>7. \A u \in Threads : owner' = u => 1 = IF Waits(u)' THEN 1 ELSE depth'[u]
    BY <2>1, <2>4
  <2>8. 1 \in Nat /\ 1 > 0 /\ 1 <= 1
    OBVIOUS
  <2> QED
    BY <2>1, <2>2, <2>3, <2>5, <2>6, <2>7, <2>8, LocksCounted
<1>3. CASE LockAgain(t)
  <2>1. /\ at[t] = "user" /\ owner = t /\ owner' = t
        /\ level' = level + 1 /\ Depth(t, depth[t] + 1)
        /\ holds' = [holds EXCEPT ![t] = TRUE]
        /\ UNCHANGED <<suspended, timer, at, wake, interrupted>>
    BY <1>3 DEF LockAgain
  <2>2. TimedInv'
    BY <2>1, <1>1, TakeKeeps DEF T!Take
  <2>3. depth'[t] = depth[t] + 1 /\ ~Waits(t)' /\ ~Waits(t)
    BY <2>1, OthersHaveNone DEF Depth, Waits
  <2>4. Interrupted' <=> Interrupted
    BY <2>1 DEF Interrupted
  <2>5. /\ level + 1 \in Nat /\ depth[t] + 1 \in Nat /\ depth[t] + 1 > 0
        /\ level + 1 > 0 /\ depth[t] + 1 <= level + 1
    BY OthersHaveNone
  <2>6. \A u \in Threads \ {t} : depth[u] = 0
    BY <2>1, OthersHaveNone
  <2>7. ~Interrupted => level + 1 = depth[t] + 1
    BY <2>1, <2>3, OthersHaveNone
  <2>8. holds'[t] /\ \A u \in Threads \ {t} : holds'[u] = holds[u]
    BY <2>1, <1>1
  <2> QED
    BY <2>1, <2>2, <2>3, <2>4, <2>5, <2>6, <2>7, <2>8, LocksCounted
<1>4. CASE LockWait(t) \/ TryLockRelWait(t)
  <2>1. PICK x \in {"none", "armed"} : T!Enqueue(t, x) /\ UNCHANGED <<level, depth>>
    BY <1>4 DEF LockWait, TryLockRelWait, T!LockWait, T!TryLockRelWait
  <2>2. TimedInv'
    BY <2>1, <1>1, EnqueueKeeps
  <2>3. /\ owner # t /\ at' = [at EXCEPT ![t] = "pausing"]
        /\ UNCHANGED <<owner, holds, interrupted>>
    BY <2>1 DEF T!Enqueue, T!Go
  <2>4. \A u \in Threads : owner = u => (Waits(u)' <=> Waits(u))
    BY <2>3, <1>1 DEF Waits
  <2> QED
    BY <2>1, <2>2, <2>3, <2>4, LevelKept DEF Interrupted
<1> QED
  BY <1>2, <1>3, <1>4 DEF Acquire

LEMMA ReleaseKeeps ==
    ASSUME IInv, NEW t \in Threads, Release(t)
    PROVE  IInv'
<1>1. /\ TimedInv /\ at \in [Threads -> Places]
      /\ holds \in [Threads -> BOOLEAN]
  BY DEF IInv, TimedInv, TimedTypeOK
<1>2. /\ at[t] = "user" /\ owner = t /\ depth[t] > 0 /\ Depth(t, depth[t] - 1)
      /\ interrupted' = interrupted
  BY DEF Release, UnlockAgain, UnlockFree, UnlockHandOff, Undo, T!UnlockFree,
         T!UnlockHandOff, T!HandOver, T!Go
<1>3. /\ level \in Nat /\ depth[t] \in Nat /\ depth[t] - 1 \in Nat /\ depth[t] <= level
      /\ depth'[t] = depth[t] - 1
      /\ \A u \in Threads \ {t} : depth[u] = 0
  BY <1>2, OthersHaveNone DEF Depth
<1>4. Interrupted' <=> Interrupted
  BY <1>2 DEF Interrupted
<1>5. CASE UnlockAgain(t)
  <2>1. /\ owner' = t /\ level > 1 /\ level' = level - 1
        /\ holds' = [holds EXCEPT ![t] = depth[t] > 1]
        /\ UNCHANGED <<suspended, timer, at, wake, interrupted>>
    BY <1>5, <1>2 DEF UnlockAgain
  <2>2. TimedInv'
    <3>1. TimedTypeOK' /\ WaiterOK(t)' /\ \A u \in Threads : Queued(u)' <=> Queued(u)
      BY <2>1, <1>1, <1>2 DEF TimedInv, TimedTypeOK, WaitersOK, WaiterOK, Queued, Sleeps
    <3> QED
      BY <2>1, <3>1, <1>1, <1>2, OneMoves DEF TimedInv, WaitersOK
  <2>3. level - 1 \in Nat /\ level - 1 > 0 /\ depth[t] - 1 <= level - 1
    BY <2>1, <1>3
  <2>4. (depth[t] > 1) <=> (depth[t] - 1 > 0)
    BY <1>3
  <2>5. ~Waits(t)' /\ (~Interrupted => level - 1 = depth[t] - 1)
    BY <2>1, <1>2, OthersHaveNone DEF Waits
  <2>6. /\ holds'[t] <=> depth[t] - 1 > 0
        /\ \A u \in Threads \ {t} : holds'[u] = holds[u]
    BY <2>1, <2>4, <1>1
  <2> QED
    BY <2>1, <2>2, <2>3, <2>5, <2>6, <1>2, <1>3, <1>4, LocksCounted
<1>6. CASE UnlockFree(t) \/ UnlockHandOff(t)
  <2>1. level = 1 /\ depth[t] - 1 = 0 /\ holds' = [holds EXCEPT ![t] = FALSE]
    BY <1>2, <1>3, <1>6 DEF UnlockFree, UnlockHandOff, T!UnlockFree, T!UnlockHandOff, T!HandOver
  <2>2. /\ holds'[t] <=> depth[t] - 1 > 0
        /\ \A u \in Threads \ {t} : holds'[u] = holds[u]
    BY <2>1, <1>1
  <2>3. CASE UnlockFree(t)
    <3>1. T!UnlockFree(t) /\ owner' = NoThread /\ level' = 0
      BY <2>3 DEF UnlockFree, T!UnlockFree
    <3>2. TimedInv'
      BY <3>1, <1>1, UnlockFreeKeeps
    <3>3. 0 \in Nat /\ ~(0 > 0) /\ \A u \in Threads : owner' # u
      BY <3>1, NoThreadAssumption
    <3>4. Depth(t, 0) /\ ~holds'[t]
      BY <2>1, <2>2, <1>2, <3>3
    <3> QED
      BY <3>1, <3>2, <3>3, <3>4, <2>2, <1>3, <1>4, LocksCounted
  <2>4. CASE UnlockHandOff(t)
    <3>1. T!UnlockHandOff(t) /\ level' = 1
      BY <2>4 DEF UnlockHandOff
    <3>2. TimedInv' /\ \E u \in Threads : owner' = u /\ Sleeps(u)'
      BY <3>1, <1>1, HandOffKeeps
    <3>3. \A u \in Threads : owner' = u => Waits(u)'
      BY <3>2 DEF Sleeps, Waits
    <3>4. \A u \in Threads : owner' = u => 1 = IF Waits(u)' THEN 1 ELSE depth'[u]
      BY <3>3
    <3>5. 0 \in Nat /\ 1 \in Nat /\ 1 > 0 /\ ~(0 > 0)
      OBVIOUS
    <3>6. Depth(t, 0) /\ ~holds'[t]
      BY <2>1, <2>2, <1>2, <3>5
    <3> QED
      BY <3>1, <3>2, <3>4, <3>5, <3>6, <2>2, <1>3, <1>4, LocksCounted
  <2> QED
    BY <1>6, <2>3, <2>4
<1> QED
  BY <1>5, <1>6 DEF Release

LEMMA EndKeeps ==
    ASSUME IInv, NEW t \in Threads, WaitReturns(t)
    PROVE  IInv'
<1>1. TimedInv /\ WaiterOK(t) /\ holds \in [Threads -> BOOLEAN] /\ at \in [Threads -> Places]
  BY DEF IInv, TimedInv, TimedTypeOK, WaitersOK
<1>2. /\ T!WaitReturns(t) /\ at[t] = "resumed" /\ at' = [at EXCEPT ![t] = "user"]
      /\ holds' = [holds EXCEPT ![t] = timer[t] = "none" \/ owner = t]
      /\ Depth(t, IF holds'[t] THEN 1 ELSE 0)
      /\ UNCHANGED <<owner, level, interrupted>>
  BY DEF WaitReturns, T!WaitReturns, T!Go
<1>3. TimedInv'
  BY <1>1, <1>2, InsideKeeps DEF T!Inside
<1>4. PICK n \in {0, 1} : n > 0 <=> owner = t
  OBVIOUS
<1>5. (timer[t] = "none" \/ owner = t) <=> owner = t
  BY <1>1, <1>2 DEF WaiterOK
<1>6. holds'[t] <=> owner = t
  BY <1>1, <1>2, <1>5
<1>7. /\ holds'[t] <=> n > 0
      /\ \A u \in Threads \ {t} : holds'[u] = holds[u]
      /\ Depth(t, n)
  <2>1. n = IF holds'[t] THEN 1 ELSE 0
    BY <1>4, <1>6
  <2> QED
    BY <1>1, <1>2, <1>4, <1>6, <2>1
<1>8. /\ level \in Nat /\ (owner # NoThread => level > 0)
      /\ \A u \in Threads \ {t} : depth[u] = 0 \/ owner' = u
  BY <1>2, OthersHaveNone DEF IInv, LevelOK
<1>9. Interrupted' <=> Interrupted
  BY <1>2 DEF Interrupted
<1>10. depth'[t] = n /\ \A u \in Threads \ {t} : depth'[u] = depth[u] /\ at'[u] = at[u]
  BY <1>1, <1>2, <1>7, OthersHaveNone DEF Depth
<1>11. ASSUME ~Interrupted', NEW u \in Threads, owner' = u
       PROVE  level = IF Waits(u)' THEN 1 ELSE depth'[u]
  <2>1. level = IF Waits(u) THEN 1 ELSE depth[u]
    BY <1>2, <1>9, <1>11 DEF IInv, LevelOK, LevelCountsLocks, Waits
  <2>2. CASE u = t
    BY <2>1, <2>2, <1>1, <1>2, <1>4, <1>10, <1>11 DEF Waits
  <2>3. CASE u # t
    BY <2>1, <2>3, <1>10 DEF Waits
  <2> QED
    BY <2>2, <2>3
<1>12. n \in Nat /\ (n > 0 => owner' = t /\ n <= level)
  BY <1>2, <1>4, <1>8, NoThreadAssumption
<1> QED
  BY <1>2, <1>3, <1>7, <1>8, <1>9, <1>11, <1>12, LocksCounted

LEMMA SwitchesKeep ==
    ASSUME IInv, NEW t \in Threads, Switches(t) \/ Timers(t) \/ Interrupt(t)
    PROVE  IInv'
<1>1. TimedInv /\ at \in [Threads -> Places] /\ interrupted \in [Threads -> BOOLEAN]
  BY DEF IInv, TimedInv, TimedTypeOK
<1>2. CASE Switches(t)
  <2>1. T!Inside(t) /\ UNCHANGED <<owner, level, depth, holds, interrupted>>
    BY <1>2 DEF Switches, T!Inside, T!SwitchOut, T!Activated, T!WaitThrows,
                T!YieldReturns, T!YieldSwitches, T!UnlockReturns
  <2>2. Interrupted' <=> Interrupted
    BY <2>1 DEF Interrupted
  <2>3. \A u \in Threads : ~Interrupted => (Waits(u)' <=> Waits(u))
    BY <1>1, <1>2 DEF Switches, T!SwitchOut, T!Activated, T!WaitThrows, T!YieldReturns,
                      T!YieldSwitches, T!UnlockReturns, T!Go, Waits, Interrupted
  <2> QED
    BY <1>1, <2>1, <2>2, <2>3, InsideKeeps, LevelKept
<1>3. CASE Timers(t)
  <2>1. T!Timers(t) /\ UNCHANGED <<owner, level, depth, holds, interrupted, at>>
    BY <1>3 DEF Timers, Expires, TimeoutHandler, T!Timers, T!Expires, T!TimeoutHandler, T!Fires
  <2>2. (Interrupted' <=> Interrupted) /\ \A u \in Threads : Waits(u)' <=> Waits(u)
    BY <2>1 DEF Interrupted, Waits
  <2> QED
    BY <1>1, <2>1, <2>2, TimersKeep, LevelKept
<1>4. CASE Interrupt(t)
  <2>1. /\ interrupted' = [interrupted EXCEPT ![t] = TRUE]
        /\ UNCHANGED <<owner, suspended, timer, at, wake, holds, level, depth>>
    BY <1>4 DEF Interrupt, T!Interrupt
  <2>2. TimedTypeOK' /\ interrupted'[t]
    BY <2>1, <1>1 DEF TimedInv, TimedTypeOK
  <2>3. TimedInv'
    BY <2>1, <2>2, <1>1 DEF TimedInv, WaitersOK, WaiterOK, Queued, Sleeps
  <2> QED
    BY <2>1, <2>2, <2>3, LevelKept DEF Interrupted
<1> QED
  BY <1>2, <1>3, <1>4

LEMMA StutterKeeps == IInv /\ UNCHANGED vars => IInv'
BY DEF IInv, TimedInv, TimedTypeOK, LevelTypeOK, WaitersOK, WaiterOK, Queued, Sleeps, LevelOK,
       LevelCountsLocks, OwnedWhileLocked, Interrupted, vars, timedVars

LEMMA NextIInv == IInv /\ [Next]_vars => IInv'
BY AcquireKeeps, ReleaseKeeps, EndKeeps, SwitchesKeep, StutterKeeps DEF Next, Inside

(* Whatever the callers do, the queue, the timers and the level stay as IInv
   says.                                                                   *)
THEOREM Invariance == Spec => []IInv
BY InitIInv, NextIInv, PTL DEF Spec

(* timed_mutex and recursive_timed_mutex resume each waiter exactly once,
   by a hand-over or by its timer, also when the two coincide, and hand the
   mutex to threads only that still wait for it.                           *)
THEOREM WaitersResumedOnce == Spec => []OneResume
<1>1. ASSUME IInv PROVE OneResume
  <2>1. \A t : T!Queued(t) <=> Queued(t)
    BY <1>1, MemberFacts DEF T!Queued, Queued, IInv, TimedInv, TimedTypeOK
  <2>2. ASSUME NEW t \in Threads
        PROVE  /\ at[t] \in Places /\ WaiterOK(t)
               /\ timer[t] \in {"none", "armed", "fired", "handled"}
    BY <1>1 DEF IInv, TimedInv, TimedTypeOK, WaitersOK
  <2>3. suspended # <<>> => owner # NoThread
    BY <1>1 DEF IInv, TimedInv, WaitersOK
  <2> QED
    BY <2>1, <2>2, <2>3 DEF OneResume, T!OneResume, T!Waiting, WaiterOK, Sleeps, Places
<1> QED
  BY <1>1, Invariance, PTL

(* The owner of recursive_timed_mutex keeps it until its last lock is
   undone, and until somebody is interrupted level_ counts its locks.      *)
THEOREM LevelIsExact == Spec => []LevelCountsLocks
<1>1. IInv => LevelCountsLocks
  BY DEF IInv, LevelOK
<1> QED
  BY <1>1, Invariance, PTL

(* Until somebody is interrupted recursive_timed_mutex, with the locks taken
   away that its owner adds and undoes, does what timed_mutex does.        *)
THEOREM TimedMutexRefined == Spec => ImplementsTimedMutex
<1>1. ASSUME IInv, [Next]_vars PROVE [Interrupted \/ T!Next]_T!vars
  <2>1. CASE UNCHANGED vars
    BY <2>1 DEF vars, timedVars, T!vars
  <2>2. ASSUME NEW t \in Threads, LockAgain(t) PROVE T!Next
    BY <2>2 DEF LockAgain, T!Next, T!Acquire, T!TryLock, T!Take
  <2>3. ASSUME NEW t \in Threads, UnlockAgain(t), ~Interrupted PROVE UNCHANGED T!vars
    <3>1. /\ at[t] = "user" /\ owner = t /\ level > 1
          /\ holds' = [holds EXCEPT ![t] = depth[t] > 1]
          /\ UNCHANGED <<owner, suspended, timer, at, wake, interrupted>>
      BY <2>3 DEF UnlockAgain
    <3>2. depth[t] = level
      BY <1>1, <2>3, <3>1, OthersHaveNone DEF Waits
    <3>3. holds[t] = TRUE /\ holds \in [Threads -> BOOLEAN]
      BY <1>1, <3>1, <3>2, OthersHaveNone DEF IInv, LevelOK, TimedInv, TimedTypeOK
    <3>4. holds' = [holds EXCEPT ![t] = TRUE]
      BY <3>1, <3>2
    <3>5. holds' = holds
      BY <3>3, <3>4
    <3> QED
      BY <3>1, <3>5 DEF T!vars
  <2>4. ASSUME NEW t \in Threads,
               \/ LockFree(t) \/ LockWait(t) \/ TryLockRelWait(t)
               \/ UnlockFree(t) \/ UnlockHandOff(t)
               \/ Inside(t) \/ Timers(t) \/ Interrupt(t)
        PROVE  T!Next
    BY <2>4 DEF LockFree, LockWait, TryLockRelWait, UnlockFree, UnlockHandOff, Inside,
       WaitReturns, Switches, Timers, Expires, TimeoutHandler, Interrupt, T!Next,
       T!Acquire, T!Release, T!Inside, T!Timers
  <2> QED
    BY <1>1, <2>1, <2>2, <2>3, <2>4 DEF Next, Acquire, Release
<1> QED
  BY <1>1, Invariance, PTL DEF Spec, ImplementsTimedMutex
=============================================================================
