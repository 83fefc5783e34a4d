---------------------------- MODULE WaitersProofs ----------------------------
(***************************************************************************)
(* Proofs about two classes that wait on condition variables as Waiters    *)
(* describes them, SharedTimedMutex and ConcurrentQueue, for every finite  *)
(* set of threads.                                                         *)
(***************************************************************************)
EXTENDS SharedTimedMutex, ConcurrentQueue, QueueFacts, FiniteSetTheorems

-----------------------------------------------------------------------------
(* The shared mutex.  OwnersExclude is not inductive.  A thread that was   *)
(* woken in unlock_upgrade_and_lock looks at shared_count only, so one has *)
(* to know that the last reader reserved the mutex for it, that the        *)
(* notification of that reader is meant for one thread, and that no other  *)
(* notification reaches a thread that waits there: HandOver and the queues *)
(* say so.                                                                 *)

Modes == {"none", "shared", "upgrade", "exclusive"}
Notifications == {"notify_upgrader", "notify_exclusive", "notify_shared"}
Calls == Waits \cup Notifications \cup {"none"}
Statuses == {"out", "waiting", "timed"} \cup Results

TypeOK == /\ shared_count \in Nat
          /\ exclusive \in BOOLEAN /\ upgrade \in BOOLEAN
          /\ exclusive_waiting_blocked \in BOOLEAN
          /\ shared_cond \in Seq(Threads) /\ exclusive_cond \in Seq(Threads)
          /\ upgrade_cond \in Seq(Threads)
          /\ mode \in [Threads -> Modes]
          /\ call \in [Threads -> Calls]
          /\ status \in [Threads -> Statuses]

(* A call is made with the ownership it needs and is where it waits.       *)
CallOK(t) == /\ call[t] \in Waits => mode[t] = Before(call[t])
             /\ call[t] \in Notifications => mode[t] = "none"
             /\ status[t] = "out" <=> call[t] \notin Waits
             /\ call[t] \in Waits \ Timed => status[t] \in {"waiting", "no_timeout"}

(* Every condition variable queues threads that wait for it, each once.    *)
QueueOK(q, C) == Distinct(q) /\ \A t \in ToSet(q) : Blocked(t) /\ call[t] \in C
SharedQueue == Waits \ (ExclusiveQueue \cup {"unlock_upgrade_and_lock"})
QueuesOK == /\ QueueOK(shared_cond, SharedQueue)
            /\ QueueOK(exclusive_cond, ExclusiveQueue)
            /\ QueueOK(upgrade_cond, {"unlock_upgrade_and_lock"})

(* The owners, and what the state says of them.                            *)
Exclusives == Owners({"exclusive"})
Upgraders == Owners({"upgrade"})
Sharers == Owners({"shared", "upgrade"})
OwnersOK == /\ IsFiniteSet(Sharers) /\ shared_count = Cardinality(Sharers)
            /\ \A t \in Exclusives : /\ exclusive /\ shared_count = 0
                                     /\ \A u \in Exclusives : u = t
            /\ Sharers # {} => ~exclusive
            /\ \A t \in Upgraders : upgrade /\ \A u \in Upgraders : u = t
            /\ upgrade => ~exclusive /\ shared_count # 0

(* t has been handed the mutex, or is about to hand it to a waiter.        *)
HandsOver(t) == call[t] = "notify_upgrader" \/ (Upgrading(t) /\ ~Blocked(t))
HandOver == \A t \in Threads :
               HandsOver(t) => /\ exclusive /\ shared_count = 0 /\ Exclusives = {}
                               /\ \A u \in Threads : HandsOver(u) => u = t

IInv == /\ TypeOK
        /\ \A t \in Threads : CallOK(t)
        /\ QueuesOK
        /\ OwnersOK
        /\ HandOver
        /\ ReadersWaitForWriter

-----------------------------------------------------------------------------
(* What a notify does to the threads it takes from the queues.             *)
LEMMA WakesFacts ==
    ASSUME NEW S \in [Threads -> Statuses], NEW W \in SUBSET Threads, WakesFrom(S, W)
    PROVE  /\ status' \in [Threads -> Statuses]
           /\ \A u \in W : /\ status'[u] \in Results
                           /\ S[u] = "waiting" => status'[u] = "no_timeout"
           /\ \A u \in Threads \ W : status'[u] = S[u]
<1>1. PICK r \in [W -> Results] :
             /\ \A t \in W : S[t] = "waiting" => r[t] = "no_timeout"
             /\ status' = [t \in Threads |-> IF t \in W THEN r[t] ELSE S[t]]
  BY DEF WakesFrom
<1>2. \A u \in Threads : status'[u] = IF u \in W THEN r[u] ELSE S[u]
  BY <1>1
<1> QED
  BY <1>1, <1>2 DEF Statuses

LEMMA FirstFacts ==
    ASSUME NEW q \in Seq(Threads), Distinct(q)
    PROVE  /\ First(q) \subseteq ToSet(q)
           /\ \A t, u \in First(q) : t = u
           /\ Others(q) \in Seq(Threads) /\ Distinct(Others(q))
           /\ ToSet(Others(q)) = ToSet(q) \ First(q)
<1>1. CASE q = <<>>
  BY <1>1, EmptyFacts DEF First, Others
<1>2. CASE q # <<>>
  <2>1. First(q) = {q[1]}
    BY <1>2, MemberFacts DEF First
  <2> QED
    BY <1>2, <2>1, TailFacts, MemberFacts DEF Others
<1> QED
  BY <1>1, <1>2

(* A step in which the threads W are woken and A, outside the queues, go on
   keeps the queues sound and every other caller where it waits.           *)
LEMMA WaitersMove ==
    ASSUME TypeOK, QueuesOK, \A t \in Threads : CallOK(t),
           NEW A \in SUBSET Threads, \A t \in A : ~Blocked(t),
           NEW W \in SUBSET Threads, \A t \in W : Blocked(t),
           \A t \in Threads \ A : call'[t] = call[t] /\ mode'[t] = mode[t],
           \A t \in W : /\ status'[t] \in Results
                        /\ status[t] = "waiting" => status'[t] = "no_timeout",
           \A t \in Threads \ (W \cup A) : status'[t] = status[t],
           Distinct(shared_cond)', ToSet(shared_cond)' \subseteq ToSet(shared_cond) \ W,
           Distinct(exclusive_cond)',
           ToSet(exclusive_cond)' \subseteq ToSet(exclusive_cond) \ W,
           Distinct(upgrade_cond)', ToSet(upgrade_cond)' \subseteq ToSet(upgrade_cond) \ W
    PROVE  QueuesOK' /\ \A t \in Threads \ A : CallOK(t)'
<1>1. /\ ToSet(shared_cond) \subseteq Threads /\ ToSet(exclusive_cond) \subseteq Threads
      /\ ToSet(upgrade_cond) \subseteq Threads
  BY MemberFacts DEF TypeOK
<1>2. ASSUME NEW t \in Threads, t \notin W, Blocked(t)
      PROVE  Blocked(t)' /\ call'[t] = call[t]
  BY <1>2 DEF Blocked
<1>3. QueuesOK'
  BY <1>1, <1>2 DEF QueuesOK, QueueOK
<1>4. ASSUME NEW t \in Threads \ A PROVE CallOK(t)'
  <2>1. CallOK(t) /\ call'[t] = call[t] /\ mode'[t] = mode[t]
    OBVIOUS
  <2>2. CASE t \in W
    BY <2>1, <2>2 DEF CallOK, Upgrading, Blocked, Results, TypeOK
  <2>3. CASE t \notin W
    BY <2>1, <2>3 DEF CallOK, Upgrading
  <2> QED
    BY <2>2, <2>3
<1> QED
  BY <1>3, <1>4

(* The same, when nobody is woken, and when the queues are what they were. *)
LEMMA QuietMove ==
    ASSUME TypeOK, QueuesOK, \A u \in Threads : CallOK(u),
           NEW t \in Threads, ~Blocked(t), NEW m \in Modes, NEW c \in Calls,
           NEW s \in Statuses,
           mode' = [mode EXCEPT ![t] = m], call' = [call EXCEPT ![t] = c],
           status' = [status EXCEPT ![t] = s], UNCHANGED conds
    PROVE  QueuesOK' /\ \A u \in Threads \ {t} : CallOK(u)'
<1> DEFINE A == {t}
           W == {}
<1>1. \A u \in Threads \ A : call'[u] = call[u] /\ mode'[u] = mode[u]
  BY DEF TypeOK
<1>2. \A u \in Threads \ (W \cup A) : status'[u] = status[u]
  BY DEF TypeOK
<1>3. A \in SUBSET Threads /\ \A u \in A : ~Blocked(u)
  OBVIOUS
<1>4. /\ W \in SUBSET Threads /\ \A u \in W : Blocked(u)
      /\ \A u \in W : /\ status'[u] \in Results
                      /\ status[u] = "waiting" => status'[u] = "no_timeout"
  OBVIOUS
<1>5. /\ UNCHANGED <<shared_cond, exclusive_cond, upgrade_cond>>
      /\ Distinct(shared_cond) /\ Distinct(exclusive_cond) /\ Distinct(upgrade_cond)
  BY DEF conds, QueuesOK, QueueOK
<1>6. /\ Distinct(shared_cond)' /\ Distinct(exclusive_cond)' /\ Distinct(upgrade_cond)'
      /\ ToSet(shared_cond)' \subseteq ToSet(shared_cond) \ W
      /\ ToSet(exclusive_cond)' \subseteq ToSet(exclusive_cond) \ W
      /\ ToSet(upgrade_cond)' \subseteq ToSet(upgrade_cond) \ W
  BY <1>5
<1>7. QueuesOK' /\ \A u \in Threads \ A : CallOK(u)'
  <2> HIDE DEF A, W
  <2> QED
    BY <1>1, <1>2, <1>3, <1>4, <1>6, WaitersMove
<1> QED
  BY <1>7

-----------------------------------------------------------------------------
(* What the invariant says of an owner, and of a mutex that is free.       *)
LEMMA OwnersFacts ==
    ASSUME TypeOK, OwnersOK, HandOver
    PROVE  /\ shared_count = 0 <=> Sharers = {}
           /\ \A t \in Sharers : shared_count = 1 => Sharers = {t}
           /\ \A t \in Sharers : /\ ~exclusive /\ Exclusives = {} /\ shared_count # 0
                                 /\ IsFiniteSet(Sharers \ {t})
                                 /\ Cardinality(Sharers \ {t}) = shared_count - 1
           /\ \A t : t \notin Sharers => /\ IsFiniteSet(Sharers \cup {t})
                                        /\ Cardinality(Sharers \cup {t}) = shared_count + 1
           /\ \A t \in Exclusives : /\ exclusive /\ ~upgrade /\ shared_count = 0
                                    /\ Exclusives = {t} /\ Sharers = {}
           /\ ~exclusive => Exclusives = {}
           /\ ~upgrade => Upgraders = {}
           /\ Upgraders \subseteq Sharers
           /\ \A t \in Threads : HandsOver(t) => /\ exclusive /\ ~upgrade /\ Sharers = {}
                                                /\ Exclusives = {} /\ shared_count = 0
<1>1. IsFiniteSet(Sharers) /\ shared_count = Cardinality(Sharers)
  BY DEF OwnersOK
<1>2. shared_count = 0 <=> Sharers = {}
  BY <1>1, FS_EmptySet
<1>3. ASSUME NEW t \in Sharers, shared_count = 1 PROVE Sharers = {t}
  <2>1. \E x : Sharers = {x}
    BY <1>1, <1>3, FS_Singleton
  <2> QED
    BY <2>1
<1>4. \A t \in Sharers : /\ IsFiniteSet(Sharers \ {t})
                         /\ Cardinality(Sharers \ {t}) = shared_count - 1
  BY <1>1, FS_RemoveElement
<1>5. \A t : t \notin Sharers => /\ IsFiniteSet(Sharers \cup {t})
                               /\ Cardinality(Sharers \cup {t}) = shared_count + 1
  BY <1>1, FS_AddElement
<1>6. Upgraders \subseteq Sharers
  BY DEF Upgraders, Sharers, Owners
<1>7. ~exclusive => Exclusives = {}
  BY DEF OwnersOK
<1>8. ~upgrade => Upgraders = {}
  BY DEF OwnersOK
<1>9. \A t \in Exclusives : /\ exclusive /\ ~upgrade /\ shared_count = 0
                            /\ Exclusives = {t} /\ Sharers = {}
  BY <1>2 DEF OwnersOK
<1>10. \A t \in Sharers : ~exclusive /\ Exclusives = {} /\ shared_count # 0
  BY <1>2, <1>7 DEF OwnersOK
<1>11. \A t \in Threads : HandsOver(t) => /\ exclusive /\ ~upgrade /\ Sharers = {}
                                         /\ Exclusives = {} /\ shared_count = 0
  BY <1>2 DEF HandOver, OwnersOK
<1> QED
  BY <1>2, <1>3, <1>4, <1>5, <1>6, <1>7, <1>8, <1>9, <1>10, <1>11

(* How a step of t that leaves it with mode m in call c changes the owners. *)
LEMMA OwnersMove ==
    ASSUME TypeOK, NEW t \in Threads, NEW m \in Modes, NEW c \in Calls,
           mode' = [mode EXCEPT ![t] = m], call' = [call EXCEPT ![t] = c]
    PROVE  /\ Exclusives' = IF m = "exclusive" /\ c # "unlock_upgrade_and_lock"
                            THEN Exclusives \cup {t} ELSE Exclusives \ {t}
           /\ Upgraders' = IF m = "upgrade" /\ c # "unlock_upgrade_and_lock"
                           THEN Upgraders \cup {t} ELSE Upgraders \ {t}
           /\ Sharers' = IF m \in {"shared", "upgrade"} /\ c # "unlock_upgrade_and_lock"
                         THEN Sharers \cup {t} ELSE Sharers \ {t}
           /\ \A u \in Threads : Upgrading(u)' <=> IF u = t THEN c = "unlock_upgrade_and_lock"
                                                          ELSE Upgrading(u)
           /\ \A u \in Threads \ {t} : call'[u] = call[u] /\ mode'[u] = mode[u]
           /\ call'[t] = c /\ mode'[t] = m
           /\ mode' \in [Threads -> Modes] /\ call' \in [Threads -> Calls]
<1>1. /\ \A u \in Threads \ {t} : call'[u] = call[u] /\ mode'[u] = mode[u]
      /\ call'[t] = c /\ mode'[t] = m
      /\ mode' \in [Threads -> Modes] /\ call' \in [Threads -> Calls]
  BY DEF TypeOK
<1>2. \A u \in Threads : Upgrading(u)' <=> IF u = t THEN c = "unlock_upgrade_and_lock"
                                                  ELSE Upgrading(u)
  BY <1>1 DEF Upgrading
<1>3. /\ Exclusives' = {u \in Threads : mode'[u] \in {"exclusive"} /\ ~Upgrading(u)'}
      /\ Upgraders' = {u \in Threads : mode'[u] \in {"upgrade"} /\ ~Upgrading(u)'}
      /\ Sharers' = {u \in Threads : mode'[u] \in {"shared", "upgrade"} /\ ~Upgrading(u)'}
  BY DEF Exclusives, Upgraders, Sharers, Owners
<1>4. /\ Exclusives = {u \in Threads : mode[u] \in {"exclusive"} /\ ~Upgrading(u)}
      /\ Upgraders = {u \in Threads : mode[u] \in {"upgrade"} /\ ~Upgrading(u)}
      /\ Sharers = {u \in Threads : mode[u] \in {"shared", "upgrade"} /\ ~Upgrading(u)}
  BY DEF Exclusives, Upgraders, Sharers, Owners
<1> QED
  BY <1>1, <1>2, <1>3, <1>4

(* Nothing is handed over, or to the same thread as before.                *)
LEMMA HandOverStays ==
    ASSUME HandOver, \A u \in Threads : HandsOver(u)' => HandsOver(u),
           (\E u \in Threads : HandsOver(u)) =>
               exclusive' = exclusive /\ shared_count' = shared_count /\ Exclusives' = {}
    PROVE  HandOver'
BY DEF HandOver

-----------------------------------------------------------------------------
(* t gets what it asked for: at once, or when it goes on.                  *)
LEMMA TakeKeepsIInv ==
    ASSUME IInv, NEW t \in Threads, NEW c \in Waits, mode[t] = Before(c), Can(c),
           \/ call[t] = "none" /\ c # "unlock_upgrade_and_lock"
           \/ call[t] = c /\ Woken(t),
           Take(c), Leaves(t, After(c)), Quietly(t)
    PROVE  IInv'
<1> DEFINE up == "unlock_upgrade_and_lock"
<1>1. /\ TypeOK /\ QueuesOK /\ OwnersOK /\ HandOver /\ ReadersWaitForWriter
      /\ \A u \in Threads : CallOK(u)
  BY DEF IInv
<1>2. "none" \in Calls /\ "out" \in Statuses /\ After(c) \in Modes /\ "none" \notin Waits
  BY DEF Calls, Statuses, After, Modes, Waits, Timed
<1>3. ~Blocked(t)
  BY <1>1, <1>2 DEF CallOK, Blocked, Woken, Results
<1>4. /\ Exclusives' = IF After(c) = "exclusive" THEN Exclusives \cup {t} ELSE Exclusives \ {t}
      /\ Upgraders' = IF After(c) = "upgrade" THEN Upgraders \cup {t} ELSE Upgraders \ {t}
      /\ Sharers' = IF After(c) \in {"shared", "upgrade"} THEN Sharers \cup {t}
                                                          ELSE Sharers \ {t}
      /\ \A u \in Threads : Upgrading(u)' <=> u # t /\ Upgrading(u)
      /\ \A u \in Threads \ {t} : call'[u] = call[u] /\ mode'[u] = mode[u]
      /\ call'[t] = "none" /\ mode'[t] = After(c)
      /\ mode' \in [Threads -> Modes] /\ call' \in [Threads -> Calls]
  BY <1>1, <1>2, OwnersMove DEF Leaves
<1>5. QueuesOK' /\ \A u \in Threads \ {t} : CallOK(u)'
  BY <1>1, <1>2, <1>3, QuietMove DEF Leaves, Quietly
<1>6. /\ status' \in [Threads -> Statuses] /\ status'[t] = "out"
      /\ \A u \in Threads \ {t} : status'[u] = status[u]
      /\ UNCHANGED <<shared_cond, exclusive_cond, upgrade_cond>>
  BY <1>1, <1>2 DEF Quietly, TypeOK, conds
<1>7. CallOK(t)'
  BY <1>2, <1>4, <1>6 DEF CallOK, Notifications, Upgrading
<1>8. \A u \in Threads : HandsOver(u)' => HandsOver(u) /\ u # t
  BY <1>4, <1>6 DEF HandsOver, Blocked
<1>9. mode[t] \in {"none", "shared", "upgrade"} /\ (c # up => ~Upgrading(t))
  BY <1>1 DEF Before, Upgrading
<1>10. /\ t \in Exclusives <=> FALSE
       /\ t \in Sharers <=> c # up /\ mode[t] # "none"
       /\ t \in Upgraders <=> c # up /\ mode[t] = "upgrade"
  BY <1>9, <1>1 DEF Exclusives, Upgraders, Sharers, Owners, Upgrading, Woken, Before
<1>11. TypeOK'
  <2>1. shared_count' \in Nat
    BY <1>1 DEF Take, TypeOK
  <2>2. exclusive' = exclusive \/ exclusive' = TRUE
    BY DEF Take
  <2>3. upgrade' = upgrade \/ upgrade' = TRUE \/ upgrade' = FALSE
    BY DEF Take
  <2>4. \/ exclusive_waiting_blocked' = exclusive_waiting_blocked
        \/ exclusive_waiting_blocked' = FALSE
    BY DEF Take
  <2>5. /\ shared_cond' \in Seq(Threads) /\ exclusive_cond' \in Seq(Threads)
        /\ upgrade_cond' \in Seq(Threads)
    BY <1>1, <1>6 DEF TypeOK
  <2> QED
    BY <2>1, <2>2, <2>3, <2>4, <2>5, <1>1, <1>4, <1>6 DEF TypeOK
<1>12. ReadersWaitForWriter'
  BY <1>1, <1>4 DEF ReadersWaitForWriter, Take, After, TypeOK
<1> HIDE DEF up
<1>13. OwnersOK' /\ HandOver'
  <2> USE <1>1
  <2>1. CASE c \in {"lock_shared", "try_lock_shared_until"}
    <3>1. After(c) = "shared" /\ mode[t] = "none" /\ ~exclusive /\ c # up
      BY <2>1 DEF After, Before, Can, up
    <3>2. shared_count' = shared_count + 1 /\ UNCHANGED <<exclusive, upgrade>>
      BY <2>1, <3>1 DEF Take
    <3>3. /\ Exclusives' = {} /\ Sharers' = Sharers \cup {t} /\ Upgraders' = Upgraders
          /\ t \notin Sharers
      BY <1>4, <1>10, <3>1, OwnersFacts
    <3>4. IsFiniteSet(Sharers') /\ Cardinality(Sharers') = shared_count'
      BY <3>2, <3>3, OwnersFacts
    <3>5. shared_count' # 0
      BY <3>2 DEF TypeOK
    <3>6. OwnersOK'
      BY <3>1, <3>2, <3>3, <3>4, <3>5 DEF OwnersOK
    <3>7. \A u \in Threads : ~HandsOver(u)'
      BY <1>8, <3>1, OwnersFacts
    <3> QED
      BY <3>6, <3>7 DEF HandOver
  <2>2. CASE c \in {"lock_upgrade", "try_lock_upgrade_until"}
    <3>1. /\ After(c) = "upgrade" /\ mode[t] = "none" /\ ~exclusive /\ ~upgrade
          /\ c # up
      BY <2>2 DEF After, Before, Can, up
    <3>2. shared_count' = shared_count + 1 /\ upgrade' = TRUE /\ UNCHANGED exclusive
      BY <2>2, <3>1 DEF Take
    <3>3. /\ Exclusives' = {} /\ Sharers' = Sharers \cup {t} /\ Upgraders' = {t}
          /\ t \notin Sharers
      BY <1>4, <1>10, <3>1, OwnersFacts
    <3>4. OwnersOK'
      BY <3>1, <3>2, <3>3, OwnersFacts DEF OwnersOK, TypeOK
    <3>5. \A u \in Threads : ~HandsOver(u)'
      BY <1>8, <3>1, OwnersFacts
    <3> QED
      BY <3>4, <3>5 DEF HandOver
  <2>3. CASE c = "try_unlock_shared_and_lock_upgrade_until"
    <3>1. /\ After(c) = "upgrade" /\ mode[t] = "shared" /\ ~exclusive /\ ~upgrade
          /\ c # up
      BY <2>3 DEF After, Before, Can, up
    <3>2. upgrade' = TRUE /\ UNCHANGED <<exclusive, shared_count>>
      BY <2>3, <3>1 DEF Take
    <3>3. /\ Exclusives' = {} /\ Sharers' = Sharers /\ Upgraders' = {t} /\ t \in Sharers
      BY <1>4, <1>10, <3>1, OwnersFacts
    <3>4. OwnersOK'
      BY <3>1, <3>2, <3>3, OwnersFacts DEF OwnersOK, TypeOK
    <3>5. \A u \in Threads : ~HandsOver(u)'
      BY <1>8, <3>1, OwnersFacts
    <3> QED
      BY <3>4, <3>5 DEF HandOver
  <2>4. CASE c \in {"lock", "try_lock_until"}
    <3>1. /\ After(c) = "exclusive" /\ mode[t] = "none" /\ ~exclusive /\ shared_count = 0
          /\ c # up
      BY <2>4 DEF After, Before, Can, up
    <3>2. exclusive' = TRUE /\ UNCHANGED <<upgrade, shared_count>>
      BY <2>4, <3>1 DEF Take
    <3>3. Exclusives' = {t} /\ Sharers' = {} /\ Upgraders' = {} /\ Sharers = {} /\ ~upgrade
      BY <1>4, <1>10, <3>1, OwnersFacts DEF OwnersOK
    <3>4. OwnersOK'
      BY <3>1, <3>2, <3>3 DEF OwnersOK
    <3>5. \A u \in Threads : ~HandsOver(u)'
      BY <1>8, <3>1, OwnersFacts
    <3> QED
      BY <3>4, <3>5 DEF HandOver
  <2>5. CASE c = up
    <3>1. After(c) = "exclusive" /\ shared_count = 0 /\ call[t] = c /\ Woken(t)
      BY <2>5 DEF After, Can, up
    <3>2. exclusive' = TRUE /\ upgrade' = FALSE /\ UNCHANGED shared_count
      BY <2>5, <3>1 DEF Take, up
    <3>3. HandsOver(t)
      BY <2>5, <3>1 DEF HandsOver, Upgrading, Blocked, Woken, Results, up
    <3>4. Exclusives' = {t} /\ Sharers' = {} /\ Upgraders' = {} /\ Sharers = {}
      BY <1>4, <3>1, <3>3, OwnersFacts
    <3>5. OwnersOK'
      BY <3>1, <3>2, <3>4 DEF OwnersOK
    <3>6. \A u \in Threads : ~HandsOver(u)'
      BY <1>8, <3>3 DEF HandOver
    <3> QED
      BY <3>5, <3>6 DEF HandOver
  <2>6. CASE c \in {"try_unlock_upgrade_and_lock_until", "try_unlock_shared_and_lock_until"}
    <3>1. After(c) = "exclusive" /\ mode[t] # "none" /\ shared_count = 1 /\ c # up
      BY <2>6 DEF After, Before, Can, up
    <3>2. exclusive' = TRUE /\ upgrade' = FALSE /\ shared_count' = 0
      BY <2>6, <3>1 DEF Take
    <3>3. t \in Sharers /\ Sharers = {t} /\ ~exclusive
      BY <1>10, <3>1, OwnersFacts
    <3>4. Exclusives' = {t} /\ Sharers' = {} /\ Upgraders' = {}
      BY <1>4, <3>1, <3>3, OwnersFacts
    <3>5. OwnersOK'
      BY <3>2, <3>4, FS_EmptySet DEF OwnersOK
    <3>6. \A u \in Threads : ~HandsOver(u)'
      BY <1>8, <3>3, OwnersFacts
    <3> QED
      BY <3>5, <3>6 DEF HandOver
  <2> QED
    BY <2>1, <2>2, <2>3, <2>4, <2>5, <2>6 DEF Waits, Timed, up
<1> QED
  BY <1>5, <1>7, <1>11, <1>12, <1>13 DEF IInv

-----------------------------------------------------------------------------
(* t begins to wait, or waits again.                                       *)
LEMMA QueueFactsOfSleep ==
    ASSUME TypeOK, QueuesOK, \A u \in Threads : CallOK(u),
           NEW t \in Threads, ~Blocked(t), NEW c \in Waits, Sleep(t, c)
    PROVE  /\ QueuesOK' /\ \A u \in Threads \ {t} : CallOK(u)'
           /\ shared_cond' \in Seq(Threads) /\ exclusive_cond' \in Seq(Threads)
           /\ upgrade_cond' \in Seq(Threads)
           /\ call' \in [Threads -> Calls] /\ status' \in [Threads -> Statuses]
           /\ call'[t] = c /\ Blocked(t)' /\ mode' = mode
           /\ status'[t] = "timed" => c \in Timed
           /\ \A u \in Threads \ {t} : call'[u] = call[u] /\ status'[u] = status[u]
<1>1. /\ call' = [call EXCEPT ![t] = c] /\ mode' = mode
      /\ status' = [status EXCEPT ![t] = IF c \in Timed THEN "timed" ELSE "waiting"]
      /\ Queue(t, c)
  BY DEF Sleep
<1>2. /\ call' \in [Threads -> Calls] /\ status' \in [Threads -> Statuses]
      /\ call'[t] = c /\ Blocked(t)'
      /\ status'[t] = "timed" => c \in Timed
      /\ \A u \in Threads \ {t} : call'[u] = call[u] /\ status'[u] = status[u]
  BY <1>1 DEF TypeOK, Calls, Statuses, Blocked
<1>3. \A u \in Threads \ {t} : CallOK(u)'
  BY <1>1, <1>2 DEF CallOK, Upgrading
<1> DEFINE Sound(q, C) == Distinct(q) /\ \A u \in ToSet(q) : Blocked(u)' /\ call'[u] \in C
<1>4. ASSUME NEW q \in Seq(Threads), NEW C, QueueOK(q, C)
      PROVE  /\ Sound(q, C) /\ Append(q, t) \in Seq(Threads)
             /\ c \in C => Sound(Append(q, t), C)
  <2>1. t \notin ToSet(q) /\ ToSet(q) \subseteq Threads /\ Distinct(q)
    BY <1>4, MemberFacts DEF QueueOK
  <2>2. \A u \in ToSet(q) : Blocked(u)' /\ call'[u] \in C
    BY <2>1, <1>2, <1>4 DEF QueueOK, Blocked
  <2>3. /\ Append(q, t) \in Seq(Threads) /\ Distinct(Append(q, t))
        /\ ToSet(Append(q, t)) = ToSet(q) \cup {t}
    BY <2>1, AppendFacts
  <2> QED
    BY <2>1, <2>2, <2>3, <1>2
<1>5. /\ shared_cond \in Seq(Threads) /\ QueueOK(shared_cond, SharedQueue)
      /\ exclusive_cond \in Seq(Threads) /\ QueueOK(exclusive_cond, ExclusiveQueue)
      /\ upgrade_cond \in Seq(Threads)
      /\ QueueOK(upgrade_cond, {"unlock_upgrade_and_lock"})
  BY DEF TypeOK, QueuesOK
<1>6. QueuesOK' <=> /\ Sound(shared_cond', SharedQueue)
                    /\ Sound(exclusive_cond', ExclusiveQueue)
                    /\ Sound(upgrade_cond', {"unlock_upgrade_and_lock"})
  BY DEF QueuesOK, QueueOK
<1> HIDE DEF Sound
<1>7. CASE /\ c \in ExclusiveQueue
           /\ exclusive_cond' = Append(exclusive_cond, t)
           /\ UNCHANGED <<shared_cond, upgrade_cond>>
  BY <1>1, <1>2, <1>3, <1>4, <1>5, <1>6, <1>7
<1>8. CASE /\ c = "unlock_upgrade_and_lock"
           /\ upgrade_cond' = Append(upgrade_cond, t)
           /\ UNCHANGED <<shared_cond, exclusive_cond>>
  BY <1>1, <1>2, <1>3, <1>4, <1>5, <1>6, <1>8
<1>9. CASE /\ c \notin ExclusiveQueue \cup {"unlock_upgrade_and_lock"}
           /\ shared_cond' = Append(shared_cond, t)
           /\ UNCHANGED <<exclusive_cond, upgrade_cond>>
  <2>1. c \in SharedQueue
    BY <1>9 DEF SharedQueue
  <2> QED
    BY <2>1, <1>1, <1>2, <1>3, <1>4, <1>5, <1>6, <1>9
<1> QED
  BY <1>1, <1>7, <1>8, <1>9 DEF Queue

LEMMA SleepKeepsIInv ==
    ASSUME IInv, NEW t \in Threads, NEW c \in Waits,
           MustWait(t, c) \/ (WaitsAgain(t) /\ c = call[t])
    PROVE  IInv'
<1> DEFINE up == "unlock_upgrade_and_lock"
<1>1. /\ TypeOK /\ QueuesOK /\ OwnersOK /\ HandOver /\ ReadersWaitForWriter
      /\ \A u \in Threads : CallOK(u)
  BY DEF IInv
<1>2. Sleep(t, c)
  BY DEF MustWait, WaitsAgain
<1> HIDE DEF up
<1>3. c \in Waits /\ "none" \notin Waits
  BY DEF Waits, Timed
<1>4. \/ /\ call[t] = "none" /\ mode[t] = Before(c)
         /\ shared_count' = IF c = up THEN shared_count - 1 ELSE shared_count
         /\ c = up => shared_count # 1
      \/ call[t] = c /\ c # up /\ shared_count' = shared_count /\ Woken(t)
  <2>1. CASE MustWait(t, c)
    BY <2>1 DEF MustWait, Idle, up
  <2>2. CASE WaitsAgain(t) /\ c = call[t]
    <3>1. Woken(t) /\ ~Can(c) /\ shared_count' = shared_count
      BY <2>2 DEF WaitsAgain, InWait
    <3>2. ASSUME c = up PROVE FALSE
      <4>1. HandsOver(t)
        BY <2>2, <3>1, <3>2 DEF HandsOver, Upgrading, Blocked, Woken, Results, up
      <4>2. shared_count = 0
        BY <4>1, <1>1, OwnersFacts
      <4> QED
        BY <4>2, <3>1, <3>2 DEF Can, up
    <3> QED
      BY <2>2, <3>1, <3>2
  <2> QED
    BY <2>1, <2>2
<1>5. ~Blocked(t)
  BY <1>1, <1>3, <1>4 DEF CallOK, Blocked, Woken, Results
<1>6. /\ QueuesOK' /\ \A u \in Threads \ {t} : CallOK(u)'
      /\ shared_cond' \in Seq(Threads) /\ exclusive_cond' \in Seq(Threads)
      /\ upgrade_cond' \in Seq(Threads)
      /\ call' \in [Threads -> Calls] /\ status' \in [Threads -> Statuses]
      /\ call'[t] = c /\ Blocked(t)' /\ mode' = mode
      /\ status'[t] = "timed" => c \in Timed
      /\ \A u \in Threads \ {t} : call'[u] = call[u] /\ status'[u] = status[u]
  BY <1>1, <1>2, <1>3, <1>5, QueueFactsOfSleep
<1>7. mode[t] = Before(c)
  BY <1>1, <1>3, <1>4 DEF CallOK
<1>8. CallOK(t)'
  <2>1. c \notin Notifications /\ up \notin Timed
    BY <1>3 DEF Notifications, Waits, Timed, up
  <2> QED
    BY <2>1, <1>3, <1>6, <1>7 DEF CallOK, Upgrading, Blocked, up
<1>9. /\ exclusive' = exclusive /\ upgrade' = upgrade
      /\ exclusive_waiting_blocked' =
             (exclusive_waiting_blocked \/ c \in {"lock", "try_lock_until"})
  BY <1>2 DEF Sleep
<1>10. /\ mode[t] \in Modes /\ mode' = [mode EXCEPT ![t] = mode[t]]
       /\ c \in Calls /\ call' = [call EXCEPT ![t] = c]
  BY <1>1, <1>2, <1>3, <1>6 DEF TypeOK, Calls, Sleep
<1>11. /\ Exclusives' = IF mode[t] = "exclusive" /\ c # up
                         THEN Exclusives \cup {t} ELSE Exclusives \ {t}
       /\ Upgraders' = IF mode[t] = "upgrade" /\ c # up
                        THEN Upgraders \cup {t} ELSE Upgraders \ {t}
       /\ Sharers' = IF mode[t] \in {"shared", "upgrade"} /\ c # up
                      THEN Sharers \cup {t} ELSE Sharers \ {t}
       /\ \A u \in Threads : Upgrading(u)' <=> IF u = t THEN c = up ELSE Upgrading(u)
  BY <1>1, <1>10, OwnersMove DEF up
<1>12. ~Upgrading(t)
  BY <1>4 DEF Upgrading, up
<1>13. \A u \in Threads : HandsOver(u)' => HandsOver(u) /\ u # t
  <2>1. c # "notify_upgrader"
    BY <1>3 DEF Waits, Timed
  <2> QED
    BY <2>1, <1>6, <1>11 DEF HandsOver, Blocked
<1>14. /\ t \in Exclusives <=> mode[t] = "exclusive"
       /\ t \in Upgraders <=> mode[t] = "upgrade"
       /\ t \in Sharers <=> mode[t] \in {"shared", "upgrade"}
  BY <1>12 DEF Exclusives, Upgraders, Sharers, Owners
<1>15. ReadersWaitForWriter'
  BY <1>1, <1>4, <1>6, <1>9 DEF ReadersWaitForWriter
<1>16. CASE c = up
  <2>1. /\ t \in Sharers /\ t \in Upgraders /\ shared_count' = shared_count - 1
        /\ shared_count # 1
    BY <1>4, <1>7, <1>14, <1>16 DEF Before, up
  <2>2. /\ shared_count \in Nat /\ shared_count # 0 /\ ~exclusive /\ Exclusives = {}
        /\ upgrade
    BY <2>1, <1>1, OwnersFacts DEF TypeOK, OwnersOK
  <2>3. shared_count' \in Nat /\ shared_count' # 0
    BY <2>1, <2>2
  <2>4. TypeOK'
    BY <2>3, <1>1, <1>6, <1>9 DEF TypeOK
  <2>5. Exclusives' = {} /\ Upgraders' = {} /\ Sharers' = Sharers \ {t}
    BY <2>1, <2>2, <1>1, <1>11, <1>16 DEF OwnersOK
  <2>6. OwnersOK'
    BY <2>1, <2>2, <2>3, <2>5, <1>1, <1>9, OwnersFacts DEF OwnersOK
  <2>7. \A u \in Threads : ~HandsOver(u)'
    BY <2>1, <1>1, <1>13, OwnersFacts
  <2> QED
    BY <2>4, <2>6, <2>7, <1>6, <1>8, <1>15 DEF IInv, HandOver
<1>17. CASE c # up
  <2>1. shared_count' = shared_count
    BY <1>4, <1>17
  <2>2. Exclusives' = Exclusives /\ Upgraders' = Upgraders /\ Sharers' = Sharers
    BY <1>11, <1>14, <1>17
  <2>3. TypeOK'
    BY <2>1, <1>1, <1>6, <1>9 DEF TypeOK
  <2>4. OwnersOK'
    BY <2>1, <2>2, <1>1, <1>9 DEF OwnersOK
  <2>5. HandOver'
    BY <2>1, <2>2, <1>1, <1>9, <1>13, HandOverStays, OwnersFacts
  <2> QED
    BY <2>3, <2>4, <2>5, <1>6, <1>8, <1>15 DEF IInv
<1> QED
  BY <1>16, <1>17

-----------------------------------------------------------------------------
(* t leaves its call and releases the waiters.                             *)
LEMMA ReleaseFacts ==
    ASSUME TypeOK, QueuesOK, \A u \in Threads : CallOK(u),
           NEW t \in Threads, ~Blocked(t), NEW m \in Modes,
           mode' = [mode EXCEPT ![t] = m], call' = [call EXCEPT ![t] = "none"],
           ReleaseWaiters(t)
    PROVE  /\ QueuesOK' /\ \A u \in Threads : CallOK(u)'
           /\ shared_cond' \in Seq(Threads) /\ exclusive_cond' \in Seq(Threads)
           /\ upgrade_cond' \in Seq(Threads)
           /\ status' \in [Threads -> Statuses]
           /\ \A u \in Threads : HandsOver(u)' => HandsOver(u) /\ u # t
<1> DEFINE A == {t}
           W == First(exclusive_cond) \cup All(shared_cond)
           S == [status EXCEPT ![t] = "out"]
<1>1. /\ "out" \in Statuses /\ "none" \in Calls /\ "none" \notin Waits
      /\ "none" \notin Notifications
  BY DEF Statuses, Calls, Waits, Timed, Notifications
<1>2. /\ \A u \in Threads \ A : call'[u] = call[u] /\ mode'[u] = mode[u]
      /\ call'[t] = "none" /\ S \in [Threads -> Statuses] /\ S[t] = "out"
      /\ \A u \in Threads \ A : S[u] = status[u]
  BY <1>1 DEF TypeOK
<1>3. /\ First(exclusive_cond) \subseteq ToSet(exclusive_cond)
      /\ Others(exclusive_cond) \in Seq(Threads) /\ Distinct(Others(exclusive_cond))
      /\ ToSet(Others(exclusive_cond)) = ToSet(exclusive_cond) \ First(exclusive_cond)
  BY FirstFacts DEF TypeOK, QueuesOK, QueueOK
<1>4. /\ W \subseteq Threads
      /\ \A u \in W : Blocked(u) /\ call[u] \in ExclusiveQueue \cup SharedQueue
  BY <1>3, MemberFacts DEF TypeOK, QueuesOK, QueueOK, All
<1>5. \A u \in W : u # t /\ ~Upgrading(u)
  BY <1>4 DEF ExclusiveQueue, SharedQueue, Upgrading
<1>6. /\ WakesFrom(S, W) /\ exclusive_cond' = Others(exclusive_cond)
      /\ shared_cond' = <<>> /\ upgrade_cond' = upgrade_cond
  BY DEF ReleaseWaiters
<1>7. /\ status' \in [Threads -> Statuses]
      /\ \A u \in W : /\ status'[u] \in Results
                      /\ S[u] = "waiting" => status'[u] = "no_timeout"
      /\ \A u \in Threads \ W : status'[u] = S[u]
  <2> HIDE DEF S, W
  <2> QED
    BY <1>2, <1>4, <1>6, WakesFacts
<1>8. /\ Distinct(shared_cond)' /\ Distinct(exclusive_cond)' /\ Distinct(upgrade_cond)'
      /\ ToSet(shared_cond)' = {} /\ ToSet(upgrade_cond)' = ToSet(upgrade_cond)
      /\ ToSet(exclusive_cond)' \subseteq ToSet(exclusive_cond) \ First(exclusive_cond)
  BY <1>3, <1>6, EmptyFacts DEF QueuesOK, QueueOK
<1>9. /\ ToSet(shared_cond)' \subseteq ToSet(shared_cond) \ W
      /\ ToSet(exclusive_cond)' \subseteq ToSet(exclusive_cond) \ W
      /\ ToSet(upgrade_cond)' \subseteq ToSet(upgrade_cond) \ W
  <2>1. /\ \A u \in ToSet(exclusive_cond) : call[u] \in ExclusiveQueue
        /\ \A u \in ToSet(shared_cond) : call[u] \notin ExclusiveQueue
        /\ \A u \in ToSet(upgrade_cond) : Upgrading(u)
    BY DEF QueuesOK, QueueOK, SharedQueue, Upgrading
  <2> QED
    BY <2>1, <1>5, <1>8 DEF All
<1> HIDE DEF A, W, S
<1>10. /\ A \subseteq Threads /\ t \in A /\ \A u \in A : u = t /\ ~Blocked(u)
  BY DEF A
<1>11. QueuesOK' /\ \A u \in Threads \ A : CallOK(u)'
  <2>1. \A u \in W : /\ status'[u] \in Results
                     /\ status[u] = "waiting" => status'[u] = "no_timeout"
    BY <1>2, <1>4, <1>5, <1>7, <1>10
  <2>2. \A u \in Threads \ (W \cup A) : status'[u] = status[u]
    BY <1>2, <1>7
  <2>3. A \in SUBSET Threads /\ W \in SUBSET Threads /\ \A u \in W : Blocked(u)
    BY <1>4, <1>10
  <2> QED
    BY <2>1, <2>2, <2>3, <1>2, <1>8, <1>9, <1>10, WaitersMove
<1>12. status'[t] = "out"
  BY <1>2, <1>5, <1>7
<1>13. CallOK(t)'
  BY <1>1, <1>2, <1>12 DEF CallOK, Upgrading
<1>14. ASSUME NEW u \in Threads, HandsOver(u)' PROVE HandsOver(u) /\ u # t
  <2>1. u # t
    BY <1>2, <1>14 DEF HandsOver, Upgrading
  <2>2. call'[u] = call[u]
    BY <2>1, <1>2, <1>10
  <2>3. Upgrading(u) => status'[u] = status[u]
    BY <2>1, <1>2, <1>5, <1>7, <1>10
  <2> QED
    BY <2>1, <2>2, <2>3, <1>14 DEF HandsOver, Upgrading, Blocked
<1> QED
  BY <1>3, <1>6, <1>7, <1>10, <1>11, <1>13, <1>14, EmptyFacts DEF TypeOK

-----------------------------------------------------------------------------
(* The other steps.                                                        *)
LEMMA GivesUpKeepsIInv ==
    ASSUME IInv, NEW t \in Threads, GivesUp(t)
    PROVE  IInv'
<1>1. /\ TypeOK /\ QueuesOK /\ OwnersOK /\ HandOver /\ ReadersWaitForWriter
      /\ \A u \in Threads : CallOK(u)
  BY DEF IInv
<1>2. /\ call[t] \in Waits /\ status[t] = "timeout" /\ mode[t] \in Modes
      /\ mode' = [mode EXCEPT ![t] = mode[t]] /\ call' = [call EXCEPT ![t] = "none"]
  BY <1>1 DEF GivesUp, InWait, Leaves, TypeOK
<1>3. /\ ~Blocked(t) /\ call[t] \in Timed /\ ~Upgrading(t)
      /\ "none" \in Calls /\ "out" \in Statuses /\ "none" \notin Waits
      /\ "none" \notin Notifications
  BY <1>1, <1>2 DEF CallOK, Blocked, Upgrading, Calls, Statuses, Waits, Timed, Notifications
<1>4. /\ Exclusives' = IF mode[t] = "exclusive" THEN Exclusives \cup {t} ELSE Exclusives \ {t}
      /\ Upgraders' = IF mode[t] = "upgrade" THEN Upgraders \cup {t} ELSE Upgraders \ {t}
      /\ Sharers' = IF mode[t] \in {"shared", "upgrade"} THEN Sharers \cup {t}
                                                         ELSE Sharers \ {t}
      /\ \A u \in Threads : Upgrading(u)' <=> u # t /\ Upgrading(u)
      /\ \A u \in Threads \ {t} : call'[u] = call[u]
      /\ call'[t] = "none"
      /\ mode' \in [Threads -> Modes] /\ call' \in [Threads -> Calls]
  BY <1>1, <1>2, <1>3, OwnersMove
<1>5. Exclusives' = Exclusives /\ Upgraders' = Upgraders /\ Sharers' = Sharers
  BY <1>3, <1>4 DEF Exclusives, Upgraders, Sharers, Owners
<1>6. /\ QueuesOK' /\ \A u \in Threads : CallOK(u)'
      /\ shared_cond' \in Seq(Threads) /\ exclusive_cond' \in Seq(Threads)
      /\ upgrade_cond' \in Seq(Threads)
      /\ status' \in [Threads -> Statuses]
      /\ \A u \in Threads : HandsOver(u)' => HandsOver(u)
  <2>1. CASE ReleaseWaiters(t)
    BY <2>1, <1>1, <1>2, <1>3, ReleaseFacts
  <2>2. CASE Quietly(t)
    <3>1. QueuesOK' /\ \A u \in Threads \ {t} : CallOK(u)'
      BY <2>2, <1>1, <1>2, <1>3, QuietMove DEF Quietly
    <3>2. /\ status' \in [Threads -> Statuses] /\ status'[t] = "out"
          /\ \A u \in Threads \ {t} : status'[u] = status[u]
          /\ shared_cond' \in Seq(Threads) /\ exclusive_cond' \in Seq(Threads)
          /\ upgrade_cond' \in Seq(Threads)
      BY <2>2, <1>1, <1>3 DEF Quietly, TypeOK, conds
    <3>3. CallOK(t)'
      BY <3>2, <1>3, <1>4 DEF CallOK
    <3>4. \A u \in Threads : HandsOver(u)' => HandsOver(u)
      BY <3>2, <1>4 DEF HandsOver, Blocked
    <3> QED
      BY <3>1, <3>2, <3>3, <3>4
  <2> QED
    BY <2>1, <2>2 DEF GivesUp
<1>7. /\ UNCHANGED <<shared_count, exclusive, upgrade>>
      /\ \/ exclusive_waiting_blocked' = FALSE
         \/ /\ exclusive_waiting_blocked' = exclusive_waiting_blocked
            /\ call[t] # "try_lock_until"
  BY DEF GivesUp, state
<1>8. TypeOK'
  BY <1>1, <1>4, <1>6, <1>7 DEF TypeOK
<1>9. OwnersOK'
  BY <1>1, <1>5, <1>7 DEF OwnersOK
<1>10. HandOver'
  BY <1>1, <1>5, <1>6, <1>7, HandOverStays, OwnersFacts
<1>11. ReadersWaitForWriter'
  BY <1>1, <1>3, <1>4, <1>7 DEF ReadersWaitForWriter, Timed
<1> QED
  BY <1>6, <1>8, <1>9, <1>10, <1>11 DEF IInv

LEMMA TimerExpiresKeepsIInv ==
    ASSUME IInv, NEW t \in Threads, TimerExpires(t)
    PROVE  IInv'
<1> DEFINE W == {t}
           A == {}
<1>1. /\ TypeOK /\ QueuesOK /\ OwnersOK /\ HandOver /\ ReadersWaitForWriter
      /\ \A u \in Threads : CallOK(u)
  BY DEF IInv
<1>2. /\ status[t] = "timed" /\ UNCHANGED <<state, upgrade_cond, mode, call>>
      /\ status' \in [Threads -> Statuses] /\ status'[t] = "timeout"
      /\ \A u \in Threads \ {t} : status'[u] = status[u]
  BY <1>1 DEF TimerExpires, TypeOK, Statuses, Results
<1>3. /\ shared_cond' \in Seq(Threads) /\ Distinct(shared_cond)'
      /\ exclusive_cond' \in Seq(Threads) /\ Distinct(exclusive_cond)'
      /\ ToSet(shared_cond)' = ToSet(shared_cond) \ W
      /\ ToSet(exclusive_cond)' = ToSet(exclusive_cond) \ W
  BY <1>1, RemoveFirstFacts DEF TimerExpires, TypeOK, QueuesOK, QueueOK
<1>4. ~Upgrading(t)
  BY <1>1, <1>2 DEF CallOK, Upgrading, Waits, Timed
<1>5. Distinct(upgrade_cond)' /\ ToSet(upgrade_cond)' \subseteq ToSet(upgrade_cond) \ W
  BY <1>1, <1>2, <1>4 DEF QueuesOK, QueueOK, Upgrading
<1>6. QueuesOK' /\ \A u \in Threads \ A : CallOK(u)'
  <2>1. /\ A \in SUBSET Threads /\ W \in SUBSET Threads
        /\ \A u \in A : ~Blocked(u)
        /\ \A u \in W : Blocked(u)
    BY <1>2 DEF Blocked
  <2>2. /\ \A u \in Threads \ A : call'[u] = call[u] /\ mode'[u] = mode[u]
        /\ \A u \in W : /\ status'[u] \in Results
                        /\ status[u] = "waiting" => status'[u] = "no_timeout"
        /\ \A u \in Threads \ (W \cup A) : status'[u] = status[u]
    BY <1>2 DEF Results
  <2> HIDE DEF A, W
  <2> QED
    BY <2>1, <2>2, <1>1, <1>3, <1>5, WaitersMove
<1>7. \A u \in Threads : HandsOver(u)' <=> HandsOver(u)
  BY <1>2, <1>4 DEF HandsOver, Upgrading, Blocked
<1>8. /\ Exclusives' = Exclusives /\ Upgraders' = Upgraders /\ Sharers' = Sharers
      /\ UNCHANGED <<shared_count, exclusive, upgrade, exclusive_waiting_blocked>>
  BY <1>2 DEF Exclusives, Upgraders, Sharers, Owners, Upgrading, state
<1>9. TypeOK' /\ OwnersOK' /\ ReadersWaitForWriter'
  BY <1>1, <1>2, <1>3, <1>8 DEF TypeOK, OwnersOK, ReadersWaitForWriter
<1>10. HandOver'
  BY <1>1, <1>7, <1>8 DEF HandOver
<1> QED
  BY <1>6, <1>9, <1>10 DEF IInv

-----------------------------------------------------------------------------
(* The last reader hands the mutex to the upgrader that waits for it.      *)
LEMMA UnlockSharedKeepsIInv ==
    ASSUME IInv, NEW t \in Threads, UnlockShared(t)
    PROVE  IInv'
<1> DEFINE c == call'[t]
<1>1. /\ TypeOK /\ QueuesOK /\ OwnersOK /\ HandOver /\ ReadersWaitForWriter
      /\ \A u \in Threads : CallOK(u)
  BY DEF IInv
<1>2. /\ call[t] = "none" /\ mode[t] = "shared" /\ shared_count' = shared_count - 1
      /\ UNCHANGED <<conds, status>>
      /\ mode' = [mode EXCEPT ![t] = "none"] /\ call' = [call EXCEPT ![t] = c]
      /\ c \in {"none", "notify_upgrader", "notify_exclusive"}
  BY <1>1 DEF UnlockShared, Idle, TypeOK
<1>3. /\ status[t] = "out" /\ ~Blocked(t) /\ status' = [status EXCEPT ![t] = "out"]
      /\ "none" \in Modes /\ c \in Calls /\ "out" \in Statuses /\ c \notin Waits
  BY <1>1, <1>2 DEF CallOK, Blocked, Modes, Calls, Statuses, Waits, Timed, Notifications,
                    TypeOK
<1>4. t \in Sharers /\ t \notin Upgraders /\ ~Upgrading(t)
  BY <1>2 DEF Sharers, Upgraders, Owners, Upgrading
<1>5. /\ Exclusives' = Exclusives \ {t} /\ Upgraders' = Upgraders \ {t}
      /\ Sharers' = Sharers \ {t}
      /\ \A u \in Threads : Upgrading(u)' <=> u # t /\ Upgrading(u)
      /\ \A u \in Threads \ {t} : call'[u] = call[u] /\ mode'[u] = mode[u]
      /\ call'[t] = c /\ mode'[t] = "none"
      /\ mode' \in [Threads -> Modes] /\ call' \in [Threads -> Calls]
  <2> HIDE DEF c
  <2> QED
    BY <1>1, <1>2, <1>3, OwnersMove
<1> HIDE DEF c
<1>6. QueuesOK' /\ \A u \in Threads \ {t} : CallOK(u)'
  BY <1>1, <1>2, <1>3, QuietMove
<1>7. CallOK(t)'
  BY <1>2, <1>3, <1>5 DEF CallOK
<1>8. /\ ~exclusive /\ Exclusives = {} /\ shared_count # 0
      /\ IsFiniteSet(Sharers \ {t}) /\ Cardinality(Sharers \ {t}) = shared_count - 1
      /\ shared_count = 1 => Sharers = {t}
      /\ Upgraders \subseteq Sharers
      /\ \A u \in Threads : ~HandsOver(u)
  BY <1>1, <1>4, OwnersFacts
<1>9. Exclusives' = {} /\ Upgraders' = Upgraders /\ shared_count' \in Nat
  BY <1>1, <1>2, <1>4, <1>5, <1>8 DEF TypeOK
<1>10. \A u \in Threads : HandsOver(u)' => u = t /\ c = "notify_upgrader"
  BY <1>2, <1>5, <1>8 DEF HandsOver, Blocked
<1>11. CASE shared_count > 1
  <2>1. /\ UNCHANGED <<exclusive, upgrade, exclusive_waiting_blocked, call>>
        /\ shared_count' # 0 /\ c = "none"
    BY <1>1, <1>2, <1>11 DEF UnlockShared, TypeOK, c
  <2>2. TypeOK' /\ ReadersWaitForWriter'
    BY <2>1, <1>1, <1>2, <1>5, <1>9 DEF TypeOK, ReadersWaitForWriter, conds
  <2>3. OwnersOK'
    BY <2>1, <1>1, <1>2, <1>5, <1>8, <1>9 DEF OwnersOK
  <2> QED
    BY <2>1, <2>2, <2>3, <1>6, <1>7, <1>10 DEF IInv, HandOver
<1>12. CASE ~(shared_count > 1)
  <2>1. shared_count = 1 /\ shared_count' = 0 /\ Sharers' = {} /\ Upgraders' = {}
    BY <1>1, <1>2, <1>4, <1>5, <1>8, <1>9, <1>12 DEF TypeOK
  <2>2. \/ /\ upgrade' = FALSE /\ exclusive' = TRUE
           /\ UNCHANGED exclusive_waiting_blocked
        \/ /\ ~upgrade /\ c # "notify_upgrader" /\ exclusive_waiting_blocked' = FALSE
           /\ UNCHANGED <<exclusive, upgrade>>
    BY <1>1, <1>12 DEF UnlockShared, TypeOK, c
  <2>3. TypeOK' /\ ReadersWaitForWriter'
    BY <2>2, <1>1, <1>2, <1>5, <1>9 DEF TypeOK, ReadersWaitForWriter, conds
  <2>4. OwnersOK'
    BY <2>1, <2>2, <1>1, <1>8, <1>9, FS_EmptySet DEF OwnersOK, TypeOK
  <2>5. HandOver'
    BY <2>1, <2>2, <1>9, <1>10 DEF HandOver
  <2> QED
    BY <2>3, <2>4, <2>5, <1>6, <1>7 DEF IInv
<1> QED
  BY <1>11, <1>12

(* The notifications after state_change is unlocked.                       *)
LEMMA NotifyFacts ==
    ASSUME IInv, NEW t \in Threads, call[t] \in Notifications,
           NEW c \in {"notify_exclusive", "notify_shared", "none"}, Notifies(t, call[t], c),
           NEW W \in SUBSET Threads, \A u \in W : Blocked(u), Wakes(W),
           shared_cond' \in Seq(Threads) /\ Distinct(shared_cond)',
           ToSet(shared_cond)' \subseteq ToSet(shared_cond) \ W,
           exclusive_cond' \in Seq(Threads) /\ Distinct(exclusive_cond)',
           ToSet(exclusive_cond)' \subseteq ToSet(exclusive_cond) \ W,
           upgrade_cond' \in Seq(Threads) /\ Distinct(upgrade_cond)',
           ToSet(upgrade_cond)' \subseteq ToSet(upgrade_cond) \ W
    PROVE  /\ TypeOK' /\ QueuesOK' /\ OwnersOK' /\ ReadersWaitForWriter'
           /\ \A u \in Threads : CallOK(u)'
           /\ UNCHANGED <<exclusive, shared_count>> /\ Exclusives' = Exclusives
           /\ \A u \in Threads \ {t} : call'[u] = call[u]
           /\ call'[t] = c /\ t \notin W
           /\ \A u \in Threads \ W : status'[u] = status[u]
<1> DEFINE A == {t}
<1>1. /\ TypeOK /\ QueuesOK /\ OwnersOK /\ HandOver /\ ReadersWaitForWriter
      /\ \A u \in Threads : CallOK(u)
  BY DEF IInv
<1>2. /\ c \in Calls /\ c \notin Waits /\ call[t] \notin Waits
      /\ call' = [call EXCEPT ![t] = c] /\ UNCHANGED <<state, mode>>
  BY DEF Calls, Waits, Timed, Notifications, Notifies
<1>3. /\ \A u \in Threads \ {t} : call'[u] = call[u] /\ mode'[u] = mode[u]
      /\ call'[t] = c /\ call' \in [Threads -> Calls]
  BY <1>1, <1>2 DEF TypeOK
<1>4. status[t] = "out" /\ mode[t] = "none" /\ ~Blocked(t) /\ t \notin W
  BY <1>1, <1>2 DEF CallOK, Blocked
<1>5. /\ status' \in [Threads -> Statuses]
      /\ \A u \in W : /\ status'[u] \in Results
                      /\ status[u] = "waiting" => status'[u] = "no_timeout"
      /\ \A u \in Threads \ W : status'[u] = status[u]
  BY <1>1, WakesFacts DEF Wakes, TypeOK
<1>6. QueuesOK' /\ \A u \in Threads \ A : CallOK(u)'
  <2>1. /\ A \in SUBSET Threads /\ \A u \in A : ~Blocked(u)
        /\ \A u \in Threads \ A : call'[u] = call[u] /\ mode'[u] = mode[u]
        /\ \A u \in Threads \ (W \cup A) : status'[u] = status[u]
    BY <1>3, <1>4, <1>5
  <2> HIDE DEF A
  <2> QED
    BY <2>1, <1>1, <1>5, WaitersMove
<1>7. CallOK(t)'
  BY <1>2, <1>3, <1>4, <1>5 DEF CallOK
<1>8. \A u \in Threads : Upgrading(u)' <=> Upgrading(u)
  BY <1>2, <1>3 DEF Upgrading, Waits
<1>9. Exclusives' = Exclusives /\ Upgraders' = Upgraders /\ Sharers' = Sharers
  BY <1>2, <1>8 DEF Exclusives, Upgraders, Sharers, Owners
<1>10. TypeOK' /\ OwnersOK'
  BY <1>1, <1>2, <1>3, <1>5, <1>9 DEF TypeOK, OwnersOK, state
<1>11. ReadersWaitForWriter'
  BY <1>1, <1>2, <1>3 DEF ReadersWaitForWriter, state, Waits, Timed
<1> QED
  BY <1>2, <1>3, <1>4, <1>5, <1>6, <1>7, <1>9, <1>10, <1>11 DEF state

LEMMA NotifyUpgraderKeepsIInv ==
    ASSUME IInv, NEW t \in Threads, NotifyUpgrader(t)
    PROVE  IInv'
<1> DEFINE W == First(upgrade_cond)
<1>1. /\ TypeOK /\ QueuesOK /\ HandOver /\ \A u \in Threads : CallOK(u)
  BY DEF IInv
<1>2. /\ call[t] = "notify_upgrader" /\ call[t] \in Notifications
      /\ Notifies(t, call[t], "notify_exclusive") /\ Wakes(W)
      /\ upgrade_cond' = Others(upgrade_cond) /\ UNCHANGED <<shared_cond, exclusive_cond>>
  BY DEF NotifyUpgrader, Notifies, Notifications
<1>3. /\ W \subseteq ToSet(upgrade_cond) /\ \A u, v \in W : u = v
      /\ Others(upgrade_cond) \in Seq(Threads) /\ Distinct(Others(upgrade_cond))
      /\ ToSet(Others(upgrade_cond)) = ToSet(upgrade_cond) \ W
  BY <1>1, FirstFacts DEF TypeOK, QueuesOK, QueueOK
<1>4. /\ W \in SUBSET Threads /\ \A u \in W : Blocked(u) /\ Upgrading(u)
      /\ \A u \in ToSet(shared_cond) \cup ToSet(exclusive_cond) : ~Upgrading(u)
  BY <1>1, <1>3, MemberFacts
     DEF TypeOK, QueuesOK, QueueOK, Upgrading, SharedQueue, ExclusiveQueue
<1> HIDE DEF W
<1>5. /\ TypeOK' /\ QueuesOK' /\ OwnersOK' /\ ReadersWaitForWriter'
      /\ \A u \in Threads : CallOK(u)'
      /\ UNCHANGED <<exclusive, shared_count>> /\ Exclusives' = Exclusives
      /\ \A u \in Threads \ {t} : call'[u] = call[u]
      /\ call'[t] = "notify_exclusive" /\ t \notin W
      /\ \A u \in Threads \ W : status'[u] = status[u]
  <2>1. /\ shared_cond' \in Seq(Threads) /\ Distinct(shared_cond)'
        /\ ToSet(shared_cond)' \subseteq ToSet(shared_cond) \ W
        /\ exclusive_cond' \in Seq(Threads) /\ Distinct(exclusive_cond)'
        /\ ToSet(exclusive_cond)' \subseteq ToSet(exclusive_cond) \ W
    BY <1>1, <1>2, <1>4 DEF TypeOK, QueuesOK, QueueOK
  <2>2. /\ upgrade_cond' \in Seq(Threads) /\ Distinct(upgrade_cond)'
        /\ ToSet(upgrade_cond)' \subseteq ToSet(upgrade_cond) \ W
    BY <1>2, <1>3
  <2> QED
    BY <2>1, <2>2, <1>2, <1>4, NotifyFacts
<1>6. HandsOver(t)
  BY <1>2 DEF HandsOver
<1>7. \A u \in Threads : HandsOver(u)' => u \in W
  <2>1. ASSUME NEW u \in Threads, u \notin W, HandsOver(u)' PROVE FALSE
    <3>1. u # t
      BY <1>5, <2>1 DEF HandsOver, Upgrading
    <3>2. HandsOver(u)
      BY <2>1, <3>1, <1>5 DEF HandsOver, Upgrading, Blocked
    <3> QED
      BY <3>1, <3>2, <1>1, <1>6 DEF HandOver
  <2> QED
    BY <2>1
<1>8. HandOver'
  BY <1>1, <1>3, <1>5, <1>6, <1>7 DEF HandOver
<1> QED
  BY <1>5, <1>8 DEF IInv

(* Nobody who waits in unlock_upgrade_and_lock is woken by the other two.  *)
LEMMA NotifyOthersKeepsIInv ==
    ASSUME IInv, NEW t \in Threads, NotifyExclusive(t) \/ NotifyShared(t)
    PROVE  IInv'
<1> DEFINE W == IF NotifyExclusive(t) THEN First(exclusive_cond) ELSE All(shared_cond)
           c == call'[t]
<1>1. /\ TypeOK /\ QueuesOK /\ OwnersOK /\ HandOver /\ \A u \in Threads : CallOK(u)
  BY DEF IInv
<1>2. /\ call[t] \in Notifications /\ c \in {"notify_shared", "none"}
      /\ Notifies(t, call[t], c)
      /\ Wakes(W)
      /\ upgrade_cond' = upgrade_cond
  BY <1>1 DEF NotifyExclusive, NotifyShared, Notifies, Notifications, TypeOK
<1>3. /\ shared_cond' \in Seq(Threads) /\ Distinct(shared_cond)'
      /\ exclusive_cond' \in Seq(Threads) /\ Distinct(exclusive_cond)'
      /\ W \subseteq ToSet(shared_cond) \cup ToSet(exclusive_cond)
      /\ ToSet(shared_cond)' \subseteq ToSet(shared_cond) \ W
      /\ ToSet(exclusive_cond)' \subseteq ToSet(exclusive_cond) \ W
  <2>1. /\ shared_cond \in Seq(Threads) /\ exclusive_cond \in Seq(Threads)
        /\ Distinct(shared_cond) /\ Distinct(exclusive_cond)
        /\ ToSet(shared_cond) \cap ToSet(exclusive_cond) = {}
    BY <1>1 DEF TypeOK, QueuesOK, QueueOK, SharedQueue
  <2>2. CASE NotifyExclusive(t)
    <3>1. /\ W = First(exclusive_cond) /\ shared_cond' = shared_cond
          /\ exclusive_cond' = Others(exclusive_cond)
      BY <2>2 DEF NotifyExclusive
    <3> HIDE DEF W
    <3> QED
      BY <2>1, <3>1, FirstFacts
  <2>3. CASE ~NotifyExclusive(t)
    <3>1. /\ W = ToSet(shared_cond) /\ exclusive_cond' = exclusive_cond
          /\ shared_cond' = <<>>
      BY <2>3 DEF NotifyShared, All
    <3> HIDE DEF W
    <3> QED
      BY <2>1, <3>1, EmptyFacts
  <2> QED
    BY <2>2, <2>3
<1> HIDE DEF W, c
<1>4. /\ W \in SUBSET Threads /\ \A u \in W : Blocked(u) /\ ~Upgrading(u)
      /\ \A u \in ToSet(upgrade_cond) : Upgrading(u)
  BY <1>1, <1>3, MemberFacts
     DEF TypeOK, QueuesOK, QueueOK, Upgrading, SharedQueue, ExclusiveQueue
<1>5. /\ upgrade_cond' \in Seq(Threads) /\ Distinct(upgrade_cond)'
      /\ ToSet(upgrade_cond)' \subseteq ToSet(upgrade_cond) \ W
  BY <1>1, <1>2, <1>4 DEF TypeOK, QueuesOK, QueueOK
<1>6. /\ TypeOK' /\ QueuesOK' /\ OwnersOK' /\ ReadersWaitForWriter'
      /\ \A u \in Threads : CallOK(u)'
      /\ UNCHANGED <<exclusive, shared_count>> /\ Exclusives' = Exclusives
      /\ \A u \in Threads \ {t} : call'[u] = call[u]
      /\ call'[t] = c
      /\ \A u \in Threads \ W : status'[u] = status[u]
  BY <1>2, <1>3, <1>4, <1>5, NotifyFacts
<1>7. ASSUME NEW u \in Threads, HandsOver(u)' PROVE HandsOver(u)
  <2>1. u # t
    BY <1>2, <1>6, <1>7 DEF HandsOver, Upgrading
  <2> QED
    BY <2>1, <1>4, <1>6, <1>7 DEF HandsOver, Upgrading, Blocked
<1>8. HandOver'
  BY <1>1, <1>6, <1>7, HandOverStays, OwnersFacts
<1> QED
  BY <1>6, <1>8 DEF IInv

-----------------------------------------------------------------------------
(* An owner with mode o, between two calls, leaves with mode m.            *)
LEMMA OwnerLeaves ==
    ASSUME IInv, NEW t \in Threads, NEW o \in {"upgrade", "exclusive"}, Idle(t, o),
           NEW m \in Modes, Leaves(t, m)
    PROVE  /\ call[t] = "none" /\ status[t] = "out" /\ ~Blocked(t) /\ mode[t] = o
           /\ o = "exclusive" => t \in Exclusives
           /\ o = "upgrade" => t \in Upgraders
           /\ \A u \in Threads : ~HandsOver(u)
           /\ Exclusives' = IF m = "exclusive" THEN Exclusives \cup {t}
                                               ELSE Exclusives \ {t}
           /\ Upgraders' = IF m = "upgrade" THEN Upgraders \cup {t} ELSE Upgraders \ {t}
           /\ Sharers' = IF m \in {"shared", "upgrade"} THEN Sharers \cup {t}
                                                        ELSE Sharers \ {t}
           /\ call'[t] = "none" /\ mode'[t] = m
           /\ \A u \in Threads \ {t} : call'[u] = call[u] /\ mode'[u] = mode[u]
           /\ \A u \in Threads : Upgrading(u)' <=> Upgrading(u)
           /\ mode' \in [Threads -> Modes] /\ call' \in [Threads -> Calls]
<1>1. /\ TypeOK /\ QueuesOK /\ OwnersOK /\ HandOver /\ \A u \in Threads : CallOK(u)
  BY DEF IInv
<1>2. /\ call[t] = "none" /\ mode[t] = o /\ "none" \notin Waits /\ "none" \in Calls
      /\ mode' = [mode EXCEPT ![t] = m] /\ call' = [call EXCEPT ![t] = "none"]
  BY DEF Idle, Leaves, Waits, Timed, Calls
<1>3. status[t] = "out" /\ ~Blocked(t) /\ ~Upgrading(t)
  BY <1>1, <1>2 DEF CallOK, Blocked, Upgrading
<1>4. /\ o = "exclusive" => t \in Exclusives
      /\ o = "upgrade" => t \in Upgraders /\ t \in Sharers
  BY <1>2, <1>3 DEF Exclusives, Upgraders, Sharers, Owners
<1>5. \A u \in Threads : ~HandsOver(u)
  BY <1>1, <1>4, OwnersFacts
<1>6. /\ Exclusives' = IF m = "exclusive" THEN Exclusives \cup {t} ELSE Exclusives \ {t}
      /\ Upgraders' = IF m = "upgrade" THEN Upgraders \cup {t} ELSE Upgraders \ {t}
      /\ Sharers' = IF m \in {"shared", "upgrade"} THEN Sharers \cup {t}
                                                   ELSE Sharers \ {t}
      /\ \A u \in Threads : Upgrading(u)' <=> u # t /\ Upgrading(u)
      /\ \A u \in Threads \ {t} : call'[u] = call[u] /\ mode'[u] = mode[u]
      /\ call'[t] = "none" /\ mode'[t] = m
      /\ mode' \in [Threads -> Modes] /\ call' \in [Threads -> Calls]
  BY <1>1, <1>2, OwnersMove
<1> QED
  BY <1>2, <1>3, <1>4, <1>5, <1>6

LEMMA UpgradeAtOnceKeepsIInv ==
    ASSUME IInv, NEW t \in Threads, UpgradeAtOnce(t)
    PROVE  IInv'
<1>1. /\ TypeOK /\ QueuesOK /\ OwnersOK /\ HandOver /\ ReadersWaitForWriter
      /\ \A u \in Threads : CallOK(u)
  BY DEF IInv
<1>2. /\ Idle(t, "upgrade") /\ Leaves(t, "exclusive") /\ Quietly(t) /\ shared_count = 1
      /\ shared_count' = 0 /\ exclusive' = TRUE /\ upgrade' = FALSE
      /\ UNCHANGED exclusive_waiting_blocked
      /\ "exclusive" \in Modes /\ "none" \in Calls /\ "out" \in Statuses
      /\ "none" \notin Waits /\ "none" \notin Notifications
  BY DEF UpgradeAtOnce, Modes, Calls, Statuses, Waits, Timed, Notifications
<1>3. /\ ~Blocked(t) /\ t \in Upgraders /\ \A u \in Threads : ~HandsOver(u)
      /\ Exclusives' = Exclusives \cup {t} /\ Upgraders' = Upgraders \ {t}
      /\ Sharers' = Sharers \ {t}
      /\ call'[t] = "none" /\ mode'[t] = "exclusive"
      /\ \A u \in Threads \ {t} : call'[u] = call[u] /\ mode'[u] = mode[u]
      /\ \A u \in Threads : Upgrading(u)' <=> Upgrading(u)
      /\ mode' \in [Threads -> Modes] /\ call' \in [Threads -> Calls]
  BY <1>2, OwnerLeaves
<1>4. Exclusives' = {t} /\ Upgraders' = {} /\ Sharers' = {}
  BY <1>1, <1>2, <1>3, OwnersFacts
<1>5. /\ status' \in [Threads -> Statuses] /\ status'[t] = "out"
      /\ \A u \in Threads \ {t} : status'[u] = status[u]
      /\ UNCHANGED <<shared_cond, exclusive_cond, upgrade_cond>>
  BY <1>1, <1>2 DEF Quietly, TypeOK, conds
<1>6. QueuesOK' /\ \A u \in Threads \ {t} : CallOK(u)'
  BY <1>1, <1>2, <1>3, QuietMove DEF Leaves, Quietly
<1>7. CallOK(t)'
  BY <1>2, <1>3, <1>5 DEF CallOK
<1>8. TypeOK' /\ ReadersWaitForWriter'
  BY <1>1, <1>2, <1>3, <1>5 DEF TypeOK, ReadersWaitForWriter
<1>9. OwnersOK'
  BY <1>2, <1>4, FS_EmptySet DEF OwnersOK
<1>10. \A u \in Threads : ~HandsOver(u)'
  BY <1>3, <1>5 DEF HandsOver, Blocked
<1> QED
  BY <1>6, <1>7, <1>8, <1>9, <1>10 DEF IInv, HandOver

LEMMA DowngradeKeepsIInv ==
    ASSUME IInv, NEW t \in Threads, NEW m \in {"none", "shared", "upgrade"},
           Downgrade(t, m)
    PROVE  IInv'
<1>1. /\ TypeOK /\ QueuesOK /\ OwnersOK /\ HandOver /\ \A u \in Threads : CallOK(u)
  BY DEF IInv
<1>2. /\ Idle(t, "exclusive") /\ Leaves(t, m) /\ ReleaseWaiters(t) /\ m \in Modes
      /\ exclusive' = FALSE /\ exclusive_waiting_blocked' = FALSE
      /\ upgrade' = (upgrade \/ m = "upgrade")
      /\ shared_count' = shared_count + (IF m = "none" THEN 0 ELSE 1)
  BY DEF Downgrade, Modes
<1>3. /\ ~Blocked(t) /\ t \in Exclusives /\ \A u \in Threads : ~HandsOver(u)
      /\ Exclusives' = Exclusives \ {t}
      /\ Upgraders' = IF m = "upgrade" THEN Upgraders \cup {t} ELSE Upgraders \ {t}
      /\ Sharers' = IF m \in {"shared", "upgrade"} THEN Sharers \cup {t}
                                                   ELSE Sharers \ {t}
      /\ mode' \in [Threads -> Modes] /\ call' \in [Threads -> Calls]
  BY <1>2, OwnerLeaves
<1>4. /\ Exclusives = {t} /\ Sharers = {} /\ Upgraders = {} /\ ~upgrade
      /\ shared_count = 0
  BY <1>1, <1>3, OwnersFacts
<1>5. /\ m = "upgrade" => upgrade' = TRUE
      /\ m # "upgrade" => upgrade' = FALSE
      /\ shared_count' = IF m = "none" THEN 0 ELSE 1
  <2>1. shared_count' = IF m = "none" THEN 0 ELSE 1
    BY <1>2, <1>4
  <2>2. m = "upgrade" => upgrade' = TRUE
    BY <1>2
  <2>3. m # "upgrade" => upgrade' = FALSE
    BY <1>2, <1>4
  <2> QED
    BY <2>1, <2>2, <2>3
<1>6. /\ QueuesOK' /\ \A u \in Threads : CallOK(u)'
      /\ shared_cond' \in Seq(Threads) /\ exclusive_cond' \in Seq(Threads)
      /\ upgrade_cond' \in Seq(Threads)
      /\ status' \in [Threads -> Statuses]
      /\ \A u \in Threads : HandsOver(u)' => HandsOver(u) /\ u # t
  BY <1>1, <1>2, <1>3, ReleaseFacts DEF Leaves
<1>7. TypeOK' /\ ReadersWaitForWriter'
  <2>1. shared_count' \in Nat /\ (upgrade' = TRUE \/ upgrade' = FALSE)
    BY <1>5
  <2>2. exclusive' = FALSE /\ exclusive_waiting_blocked' = FALSE
    BY <1>2
  <2>3. TypeOK'
    BY <2>1, <2>2, <1>3, <1>6 DEF TypeOK
  <2> QED
    BY <2>2, <2>3 DEF ReadersWaitForWriter
<1>8. CASE m = "none"
  <2>1. /\ Exclusives' = {} /\ Upgraders' = {} /\ Sharers' = {} /\ shared_count' = 0
        /\ ~upgrade'
    BY <1>3, <1>4, <1>8, <1>5
  <2>2. OwnersOK'
    BY <2>1, FS_EmptySet DEF OwnersOK
  <2> QED
    BY <2>2, <1>3, <1>6, <1>7 DEF IInv, HandOver
<1>9. CASE m # "none"
  <2>1. Exclusives' = {} /\ Sharers' = {t} /\ shared_count' = 1
    BY <1>3, <1>4, <1>9, <1>5
  <2>2. IsFiniteSet(Sharers') /\ Cardinality(Sharers') = 1
    BY <2>1, FS_Singleton
  <2>3. OwnersOK'
    <3>1. CASE m = "upgrade"
      <4>1. Upgraders' = {t} /\ upgrade' = TRUE
        BY <3>1, <1>3, <1>4, <1>5
      <4> QED
        BY <2>1, <2>2, <4>1, <1>2 DEF OwnersOK
    <3>2. CASE m # "upgrade"
      <4>1. Upgraders' = {} /\ upgrade' = FALSE
        BY <3>2, <1>3, <1>4, <1>5
      <4> QED
        BY <2>1, <2>2, <4>1, <1>2 DEF OwnersOK
    <3> QED
      BY <3>1, <3>2
  <2> QED
    BY <2>3, <1>3, <1>6, <1>7 DEF IInv, HandOver
<1> QED
  BY <1>8, <1>9

(* unlock_upgrade frees the mutex, or leaves it to the readers.            *)
LEMMA UnlockUpgradeKeepsIInv ==
    ASSUME IInv, NEW t \in Threads, UnlockUpgrade(t)
    PROVE  IInv'
<1>1. /\ TypeOK /\ QueuesOK /\ OwnersOK /\ HandOver /\ ReadersWaitForWriter
      /\ \A u \in Threads : CallOK(u)
  BY DEF IInv
<1>2. /\ Idle(t, "upgrade") /\ Leaves(t, "none") /\ "none" \in Modes
      /\ upgrade' = FALSE /\ shared_count' = shared_count - 1 /\ UNCHANGED exclusive
      /\ "none" \notin Waits /\ "none" \notin Notifications
  BY DEF UnlockUpgrade, Modes, Waits, Timed, Notifications
<1>3. /\ call[t] = "none" /\ status[t] = "out" /\ ~Blocked(t) /\ t \in Upgraders
      /\ \A u \in Threads : ~HandsOver(u)
      /\ Exclusives' = Exclusives \ {t} /\ Upgraders' = Upgraders \ {t}
      /\ Sharers' = Sharers \ {t}
      /\ call'[t] = "none" /\ mode'[t] = "none"
      /\ \A u \in Threads \ {t} : call'[u] = call[u] /\ mode'[u] = mode[u]
      /\ \A u \in Threads : Upgrading(u)' <=> Upgrading(u)
      /\ mode' \in [Threads -> Modes] /\ call' \in [Threads -> Calls]
  BY <1>2, OwnerLeaves
<1>4. /\ ~exclusive /\ Exclusives = {} /\ shared_count # 0 /\ Upgraders = {t}
      /\ IsFiniteSet(Sharers \ {t}) /\ Cardinality(Sharers \ {t}) = shared_count - 1
  BY <1>1, <1>3, OwnersFacts DEF OwnersOK
<1>5. Exclusives' = {} /\ Upgraders' = {} /\ shared_count' \in Nat
  BY <1>1, <1>2, <1>3, <1>4 DEF TypeOK
<1>6. OwnersOK'
  BY <1>1, <1>2, <1>3, <1>4, <1>5 DEF OwnersOK
<1>7. /\ QueuesOK' /\ \A u \in Threads : CallOK(u)'
      /\ shared_cond' \in Seq(Threads) /\ exclusive_cond' \in Seq(Threads)
      /\ upgrade_cond' \in Seq(Threads)
      /\ status' \in [Threads -> Statuses]
      /\ \A u \in Threads : HandsOver(u)' => HandsOver(u)
      /\ \/ exclusive_waiting_blocked' = FALSE
         \/ exclusive_waiting_blocked' = exclusive_waiting_blocked
  <2>1. CASE shared_count = 1
    BY <2>1, <1>1, <1>2, <1>3, ReleaseFacts DEF Leaves, UnlockUpgrade
  <2>2. CASE shared_count # 1
    <3> DEFINE W == ToSet(shared_cond)
               A == {t}
    <3>1. /\ Wakes(W) /\ shared_cond' = <<>>
          /\ UNCHANGED <<exclusive_waiting_blocked, exclusive_cond, upgrade_cond>>
      BY <2>2 DEF UnlockUpgrade, All
    <3>2. /\ W \in SUBSET Threads /\ \A u \in W : Blocked(u) /\ ~Upgrading(u)
          /\ \A u \in ToSet(exclusive_cond) \cup ToSet(upgrade_cond) : u \notin W
      BY <1>1, MemberFacts
         DEF TypeOK, QueuesOK, QueueOK, Upgrading, SharedQueue, ExclusiveQueue
    <3>3. /\ Distinct(shared_cond)' /\ Distinct(exclusive_cond)' /\ Distinct(upgrade_cond)'
          /\ ToSet(shared_cond)' \subseteq ToSet(shared_cond) \ W
          /\ ToSet(exclusive_cond)' \subseteq ToSet(exclusive_cond) \ W
          /\ ToSet(upgrade_cond)' \subseteq ToSet(upgrade_cond) \ W
          /\ shared_cond' \in Seq(Threads) /\ exclusive_cond' \in Seq(Threads)
          /\ upgrade_cond' \in Seq(Threads)
      BY <1>1, <3>1, <3>2, EmptyFacts DEF TypeOK, QueuesOK, QueueOK
    <3>4. /\ A \in SUBSET Threads /\ \A u \in A : ~Blocked(u) /\ u = t
          /\ t \in A /\ t \notin W
      BY <1>3, <3>2
    <3> HIDE DEF W, A
    <3>5. /\ status' \in [Threads -> Statuses]
          /\ \A u \in W : /\ status'[u] \in Results
                          /\ status[u] = "waiting" => status'[u] = "no_timeout"
          /\ \A u \in Threads \ W : status'[u] = status[u]
      BY <1>1, <3>1, <3>2, WakesFacts DEF Wakes, TypeOK
    <3>6. /\ \A u \in Threads \ A : call'[u] = call[u] /\ mode'[u] = mode[u]
          /\ \A u \in Threads \ (W \cup A) : status'[u] = status[u]
      BY <1>3, <3>4, <3>5
    <3>7. QueuesOK' /\ \A u \in Threads \ A : CallOK(u)'
      BY <1>1, <3>2, <3>3, <3>4, <3>5, <3>6, WaitersMove
    <3>8. CallOK(t)'
      BY <1>2, <1>3, <3>4, <3>5 DEF CallOK
    <3>9. ASSUME NEW u \in Threads, HandsOver(u)' PROVE HandsOver(u)
      <4>1. u # t
        BY <1>3, <3>9 DEF HandsOver, Upgrading
      <4> QED
        BY <4>1, <1>3, <3>2, <3>5, <3>9 DEF HandsOver, Upgrading, Blocked
    <3> QED
      BY <3>1, <3>3, <3>4, <3>5, <3>7, <3>8, <3>9
  <2> QED
    BY <2>1, <2>2
<1>8. TypeOK'
  BY <1>1, <1>2, <1>3, <1>5, <1>7 DEF TypeOK
<1>9. ReadersWaitForWriter'
  BY <1>1, <1>2, <1>3, <1>7 DEF ReadersWaitForWriter
<1> QED
  BY <1>3, <1>6, <1>7, <1>8, <1>9 DEF IInv, HandOver

LEMMA UpgradeToSharedKeepsIInv ==
    ASSUME IInv, NEW t \in Threads, UpgradeToShared(t)
    PROVE  IInv'
<1>1. /\ TypeOK /\ QueuesOK /\ OwnersOK /\ HandOver /\ \A u \in Threads : CallOK(u)
  BY DEF IInv
<1>2. /\ Idle(t, "upgrade") /\ Leaves(t, "shared") /\ ReleaseWaiters(t)
      /\ "shared" \in Modes /\ upgrade' = FALSE /\ exclusive_waiting_blocked' = FALSE
      /\ UNCHANGED <<shared_count, exclusive>>
  BY DEF UpgradeToShared, Modes
<1>3. /\ ~Blocked(t) /\ t \in Upgraders /\ \A u \in Threads : ~HandsOver(u)
      /\ Exclusives' = Exclusives \ {t} /\ Upgraders' = Upgraders \ {t}
      /\ Sharers' = Sharers \cup {t}
      /\ mode' \in [Threads -> Modes] /\ call' \in [Threads -> Calls]
  BY <1>2, OwnerLeaves
<1>4. t \in Sharers /\ Upgraders = {t} /\ Exclusives = {} /\ ~exclusive
  BY <1>1, <1>3, OwnersFacts DEF OwnersOK
<1>5. Exclusives' = {} /\ Upgraders' = {} /\ Sharers' = Sharers
  BY <1>3, <1>4
<1>6. /\ QueuesOK' /\ \A u \in Threads : CallOK(u)'
      /\ shared_cond' \in Seq(Threads) /\ exclusive_cond' \in Seq(Threads)
      /\ upgrade_cond' \in Seq(Threads)
      /\ status' \in [Threads -> Statuses]
      /\ \A u \in Threads : HandsOver(u)' => HandsOver(u) /\ u # t
  BY <1>1, <1>2, <1>3, ReleaseFacts DEF Leaves
<1>7. TypeOK' /\ ReadersWaitForWriter'
  BY <1>1, <1>2, <1>3, <1>6 DEF TypeOK, ReadersWaitForWriter
<1>8. OwnersOK'
  BY <1>1, <1>2, <1>4, <1>5 DEF OwnersOK
<1> QED
  BY <1>3, <1>6, <1>7, <1>8 DEF IInv, HandOver

-----------------------------------------------------------------------------
LEMMA InitIInv == Init => IInv
<1> SUFFICES ASSUME Init PROVE IInv
  OBVIOUS
<1>1. /\ "none" \in Modes /\ "none" \in Calls /\ "none" \notin Waits
      /\ "none" \notin Notifications /\ "out" \in Statuses
  BY DEF Modes, Calls, Statuses, Waits, Timed, Notifications
<1>2. TypeOK
  BY <1>1, EmptyFacts DEF Init, TypeOK
<1>3. /\ \A t \in Threads : call[t] = "none" /\ mode[t] = "none" /\ status[t] = "out"
      /\ ~exclusive_waiting_blocked
  BY DEF Init
<1>4. \A t \in Threads : CallOK(t) /\ ~HandsOver(t)
  BY <1>1, <1>3 DEF CallOK, HandsOver, Upgrading
<1>5. QueuesOK
  BY EmptyFacts DEF Init, QueuesOK, QueueOK
<1>6. Exclusives = {} /\ Upgraders = {} /\ Sharers = {}
  BY <1>3 DEF Exclusives, Upgraders, Sharers, Owners
<1>7. OwnersOK
  BY <1>6, FS_EmptySet DEF Init, OwnersOK
<1> QED
  BY <1>2, <1>3, <1>4, <1>5, <1>7 DEF IInv, HandOver, ReadersWaitForWriter

LEMMA StutterKeepsIInv ==
    ASSUME IInv, UNCHANGED vars
    PROVE  IInv'
<1>1. /\ UNCHANGED <<shared_count, exclusive, upgrade, exclusive_waiting_blocked>>
      /\ UNCHANGED <<shared_cond, exclusive_cond, upgrade_cond, mode, call, status>>
  BY DEF vars, state, conds
<1>2. \A t \in Threads : /\ Blocked(t)' <=> Blocked(t)
                         /\ Upgrading(t)' <=> Upgrading(t)
                         /\ CallOK(t)' <=> CallOK(t)
                         /\ HandsOver(t)' <=> HandsOver(t)
  BY <1>1 DEF Blocked, Upgrading, CallOK, HandsOver
<1>3. Exclusives' = Exclusives /\ Upgraders' = Upgraders /\ Sharers' = Sharers
  BY <1>1, <1>2 DEF Exclusives, Upgraders, Sharers, Owners
<1>4. TypeOK' /\ QueuesOK'
  BY <1>1, <1>2 DEF IInv, TypeOK, QueuesOK, QueueOK, Blocked
<1>5. OwnersOK' /\ HandOver' /\ ReadersWaitForWriter'
  BY <1>1, <1>2, <1>3 DEF IInv, OwnersOK, HandOver, ReadersWaitForWriter
<1> QED
  BY <1>2, <1>4, <1>5 DEF IInv

LEMMA NextIInv == IInv /\ [Next]_vars => IInv'
<1> SUFFICES ASSUME IInv, [Next]_vars PROVE IInv'
  OBVIOUS
<1>1. CASE UNCHANGED vars
  BY <1>1, StutterKeepsIInv
<1>2. ASSUME NEW t \in Threads,
             Starts(t) \/ Resumes(t) \/ TimerExpires(t) \/ Unlocks(t) \/ Converts(t)
      PROVE  IInv'
  <2>1. CASE Starts(t)
    <3>1. CASE UpgradeAtOnce(t)
      BY <3>1, UpgradeAtOnceKeepsIInv
    <3>2. ASSUME NEW c \in Waits, Granted(t, c) PROVE IInv'
      <4>1. /\ mode[t] = Before(c) /\ call[t] = "none" /\ c # "unlock_upgrade_and_lock"
            /\ Can(c) /\ Take(c) /\ Leaves(t, After(c)) /\ Quietly(t)
        BY <3>2 DEF Granted, Idle
      <4> QED
        BY <4>1, TakeKeepsIInv
    <3>3. ASSUME NEW c \in Waits, MustWait(t, c) PROVE IInv'
      BY <3>3, SleepKeepsIInv
    <3> QED
      BY <2>1, <3>1, <3>2, <3>3 DEF Starts
  <2>2. CASE Resumes(t)
    <3>1. CASE GoesOn(t)
      <4> DEFINE c == call[t]
      <4>1. /\ c \in Waits /\ Woken(t) /\ Can(c) /\ Take(c) /\ Leaves(t, After(c))
            /\ Quietly(t)
        BY <3>1 DEF GoesOn, InWait
      <4>2. mode[t] = Before(c)
        BY <4>1 DEF IInv, CallOK
      <4>3. call[t] = c
        OBVIOUS
      <4> HIDE DEF c
      <4> QED
        BY <4>1, <4>2, <4>3, TakeKeepsIInv
    <3>2. CASE WaitsAgain(t)
      <4>1. call[t] \in Waits
        BY <3>2 DEF WaitsAgain, InWait
      <4> QED
        BY <3>2, <4>1, SleepKeepsIInv
    <3>3. CASE GivesUp(t)
      BY <3>3, GivesUpKeepsIInv
    <3>4. CASE NotifyUpgrader(t)
      BY <3>4, NotifyUpgraderKeepsIInv
    <3>5. CASE NotifyExclusive(t) \/ NotifyShared(t)
      BY <3>5, NotifyOthersKeepsIInv
    <3> QED
      BY <2>2, <3>1, <3>2, <3>3, <3>4, <3>5 DEF Resumes
  <2>3. CASE TimerExpires(t)
    BY <2>3, TimerExpiresKeepsIInv
  <2>4. CASE Unlocks(t)
    BY <2>4, UnlockSharedKeepsIInv, UnlockUpgradeKeepsIInv, DowngradeKeepsIInv DEF Unlocks
  <2>5. CASE Converts(t)
    BY <2>5, UpgradeToSharedKeepsIInv, DowngradeKeepsIInv DEF Converts
  <2> QED
    BY <1>2, <2>1, <2>2, <2>3, <2>4, <2>5
<1> QED
  BY <1>1, <1>2 DEF Next

(* Whatever calls the threads make, the owners, the counters, the queues
   and the hand-over stay as IInv says.                                    *)
THEOREM Invariance == Spec => []IInv
<1>1. IInv /\ [Next]_vars => IInv'
  BY NextIInv
<1> QED
  BY <1>1, InitIInv, PTL DEF Spec

(* A set in which any two members are equal has at most one.               *)
LEMMA AtMostOne ==
    ASSUME NEW S, \A t, u \in S : t = u
    PROVE  Cardinality(S) <= 1
<1>1. CASE S = {}
  <2>1. Cardinality(S) = 0
    BY <1>1, FS_EmptySet
  <2> QED
    BY <2>1
<1>2. CASE S # {}
  <2>1. PICK t \in S : S = {t}
    BY <1>2
  <2>2. Cardinality(S) = 1
    BY <2>1, FS_Singleton
  <2> QED
    BY <2>2
<1> QED
  BY <1>1, <1>2

(* The readers and the writers of shared_timed_mutex exclude each other,
   shared_count is the number of shared owners, and every owner finds the
   state its next call asserts, for any number of threads and through
   every conversion between the kinds of ownership.                        *)
THEOREM OwnershipExcludes == Spec => []OwnersExclude
<1>1. IInv => OwnersExclude
  <2> SUFFICES ASSUME IInv PROVE OwnersExclude
    OBVIOUS
  <2>1. TypeOK /\ OwnersOK /\ HandOver
    BY DEF IInv
  <2>2. Cardinality(Exclusives) <= 1 /\ Cardinality(Upgraders) <= 1
    BY <2>1, AtMostOne DEF OwnersOK
  <2>3. Exclusives # {} => Sharers = {}
    BY <2>1, OwnersFacts
  <2>4. shared_count = Cardinality(Sharers)
    BY <2>1 DEF OwnersOK
  <2>5. /\ \A t \in Exclusives : exclusive /\ ~upgrade
        /\ \A t \in Sharers : ~exclusive
        /\ \A t \in Upgraders : upgrade
    BY <2>1, OwnersFacts DEF OwnersOK
  <2>6. Upgraders \subseteq Sharers /\ Owners({"shared"}) \subseteq Sharers
    BY DEF Upgraders, Sharers, Owners
  <2> QED
    BY <2>2, <2>3, <2>4, <2>5, <2>6 DEF OwnersExclude, Exclusives, Upgraders, Sharers
<1> QED
  BY <1>1, Invariance, PTL

-----------------------------------------------------------------------------
(* Nobody waits in vain.  Relative to IInv this is inductive: what lets a  *)
(* waiting call go on is always done by a step that tells of it, or starts *)
(* to, and a thread that was woken and does not take the mutex finds that  *)
(* it is not free.                                                         *)

Told == WritersTold /\ ReadersTold
Tellers == {t \in Threads : \/ call[t] = "notify_exclusive"
                            \/ call[t] \in ExclusiveQueue /\ Woken(t)}
Free == shared_count = 0 /\ ~exclusive

LEMMA WritersToldMeans == WritersTold <=> (exclusive_cond # <<>> /\ Free => Tellers # {})
<1>1. Can("lock") <=> Free
  BY DEF Can, Free
<1> QED
  BY <1>1 DEF WritersTold, Tellers

LEMMA WritersToldAfter ==
    WritersTold' <=> (exclusive_cond' # <<>> /\ Free' => Tellers' # {})
<1>1. Can("lock")' <=> Free'
  BY DEF Can, Free
<1> QED
  BY <1>1 DEF WritersTold, Tellers

(* A reader in the queue has been there, or is there for a reason.         *)
LEMMA ReadersStayTold ==
    ASSUME ReadersTold,
           \A u \in ToSet(shared_cond)' : \/ u \in ToSet(shared_cond) /\ call'[u] = call[u]
                                          \/ ~Can(call'[u]) \/ call'[u] \in Sole,
           \A u \in ToSet(shared_cond)' : call'[u] \in SharedQueue,
           ~exclusive' => ~exclusive,
           ~exclusive' /\ ~exclusive_waiting_blocked' => ~exclusive_waiting_blocked,
           ~exclusive' /\ ~upgrade' => ~upgrade,
           \A u \in Threads : call[u] \in {"notify_exclusive", "notify_shared"} =>
               \E v \in Threads : call'[v] \in {"notify_exclusive", "notify_shared"}
    PROVE  ReadersTold'
<1> SUFFICES ASSUME NEW u \in ToSet(shared_cond)',
                    Can(call[u])', call'[u] \notin Sole
             PROVE  \E v \in Threads : call'[v] \in {"notify_exclusive", "notify_shared"}
  BY DEF ReadersTold
<1>1. call'[u] \in SharedQueue \ Sole
  OBVIOUS
<1>2. call'[u] \in {"lock_shared", "try_lock_shared_until", "lock_upgrade",
                    "try_lock_upgrade_until"}
  BY <1>1 DEF SharedQueue, Sole, Waits, Timed, ExclusiveQueue
<1>3. Can(call'[u])
  BY <1>2 DEF Can
<1>4. u \in ToSet(shared_cond) /\ call'[u] = call[u]
  BY <1>3
<1>5. \E w \in Threads : call[w] \in {"notify_exclusive", "notify_shared"}
  BY <1>3, <1>4 DEF ReadersTold
<1> QED
  BY <1>5

(* After release_waiters, or the first notification of unlock_shared.      *)
LEMMA FirstIsTold ==
    ASSUME TypeOK, QueuesOK, exclusive_cond' = Others(exclusive_cond),
           \A u \in First(exclusive_cond) : Woken(u)' /\ call'[u] = call[u]
    PROVE  WritersTold'
<1>1. exclusive_cond \in Seq(Threads)
  BY DEF TypeOK
<1>2. exclusive_cond' # <<>> => exclusive_cond # <<>>
  BY DEF Others
<1>3. ASSUME exclusive_cond # <<>> PROVE Tellers' # {}
  <2>1. exclusive_cond[1] \in First(exclusive_cond)
    BY <1>1, <1>3, MemberFacts DEF First
  <2>2. /\ exclusive_cond[1] \in Threads
        /\ call[exclusive_cond[1]] \in ExclusiveQueue
    BY <1>1, <1>3, MemberFacts DEF QueuesOK, QueueOK
  <2>3. exclusive_cond[1] \in Tellers'
    BY <2>1, <2>2 DEF Tellers
  <2> QED
    BY <2>3
<1> QED
  BY <1>2, <1>3, WritersToldAfter

LEMMA ReleaseTells ==
    ASSUME IInv, NEW t \in Threads, ~Blocked(t), call' = [call EXCEPT ![t] = "none"],
           ReleaseWaiters(t)
    PROVE  Told'
<1> DEFINE W == First(exclusive_cond) \cup All(shared_cond)
           S == [status EXCEPT ![t] = "out"]
<1>1. TypeOK /\ QueuesOK
  BY DEF IInv
<1>2. /\ First(exclusive_cond) \subseteq ToSet(exclusive_cond)
      /\ ToSet(exclusive_cond) \subseteq Threads /\ ToSet(shared_cond) \subseteq Threads
      /\ \A u \in ToSet(exclusive_cond) : Blocked(u)
  BY <1>1, FirstFacts, MemberFacts DEF TypeOK, QueuesOK, QueueOK
<1>3. W \in SUBSET Threads /\ S \in [Threads -> Statuses] /\ WakesFrom(S, W)
  BY <1>1, <1>2 DEF ReleaseWaiters, All, TypeOK, Statuses
<1> HIDE DEF S
<1>4. \A u \in W : status'[u] \in Results
  <2> HIDE DEF W
  <2> QED
    BY <1>3, WakesFacts
<1>5. ASSUME NEW u \in First(exclusive_cond) PROVE Woken(u)' /\ call'[u] = call[u]
  <2>1. u # t /\ u \in Threads
    BY <1>2
  <2>2. Woken(u)'
    BY <1>4 DEF Woken
  <2> QED
    BY <1>1, <2>1, <2>2 DEF TypeOK
<1>6. WritersTold'
  BY <1>1, <1>5, FirstIsTold DEF ReleaseWaiters
<1>7. ToSet(shared_cond)' = {}
  BY EmptyFacts DEF ReleaseWaiters
<1> QED
  BY <1>6, <1>7 DEF Told, ReadersTold

(* t takes the mutex, at once or after a wait: it is not free afterwards.  *)
LEMMA TakeTells ==
    ASSUME IInv, Told, NEW t \in Threads, ~Blocked(t),
           call[t] \notin Notifications, NEW c \in Waits, Take(c),
           c = "try_unlock_shared_and_lock_upgrade_until" => t \in Sharers,
           call' = [call EXCEPT ![t] = "none"], UNCHANGED conds
    PROVE  Told'
<1>1. TypeOK /\ QueuesOK /\ OwnersOK /\ HandOver /\ WritersTold /\ ReadersTold
  BY DEF IInv, Told
<1>2. shared_count \in Nat /\ (t \in Sharers => shared_count # 0)
  BY <1>1, OwnersFacts DEF TypeOK
<1>3. ~Free'
  BY <1>2 DEF Take, Free, Waits, Timed, After
<1>4. WritersTold'
  BY <1>3, WritersToldAfter
<1>5. ToSet(shared_cond) \subseteq Threads
  BY <1>1, MemberFacts DEF TypeOK
<1>6. \A u \in Threads \ {t} : call'[u] = call[u]
  BY <1>1 DEF TypeOK
<1>7. /\ ToSet(shared_cond)' = ToSet(shared_cond)
      /\ \A u \in ToSet(shared_cond) : call'[u] = call[u] /\ call[u] \in SharedQueue
  BY <1>1, <1>5, <1>6 DEF conds, QueuesOK, QueueOK
<1>8. /\ ~exclusive' => ~exclusive
      /\ ~exclusive' /\ ~exclusive_waiting_blocked' => ~exclusive_waiting_blocked
      /\ ~exclusive' /\ ~upgrade' => ~upgrade
  BY DEF Take
<1>9. ASSUME NEW u \in Threads, call[u] \in {"notify_exclusive", "notify_shared"}
      PROVE  \E v \in Threads : call'[v] \in {"notify_exclusive", "notify_shared"}
  <2>1. u # t
    BY <1>9 DEF Notifications
  <2> QED
    BY <1>6, <1>9, <2>1
<1>10. ReadersTold'
  BY <1>1, <1>7, <1>8, <1>9, ReadersStayTold
<1> QED
  BY <1>4, <1>10 DEF Told

(* t queues up, for the first time or again, as it cannot go on.           *)
LEMMA SleepTells ==
    ASSUME IInv, Told, NEW t \in Threads, ~Blocked(t), call[t] \notin Notifications,
           NEW c \in Waits, Sleep(t, c),
           call[t] \in {"none", c}, mode[t] = Before(c),
           \/ shared_count' = shared_count /\ ~Can(c)
           \/ /\ c = "unlock_upgrade_and_lock" /\ call[t] = "none"
              /\ shared_count # 1 /\ shared_count' = shared_count - 1
    PROVE  Told'
<1>1. TypeOK /\ QueuesOK /\ OwnersOK /\ HandOver /\ WritersTold /\ ReadersTold
  BY DEF IInv, Told
<1>2. /\ shared_count \in Nat /\ (t \in Sharers => shared_count # 0)
      /\ exclusive' = exclusive /\ upgrade' = upgrade
      /\ exclusive_waiting_blocked => exclusive_waiting_blocked'
  BY <1>1, OwnersFacts DEF TypeOK, Sleep
<1>3. /\ call'[t] = c /\ \A u \in Threads \ {t} : call'[u] = call[u] /\ status'[u] = status[u]
      /\ QueuesOK' /\ shared_cond' \in Seq(Threads)
  BY <1>1, QueueFactsOfSleep DEF IInv
<1>4. Before(c) \in {"shared", "upgrade"} /\ call[t] = "none" => t \in Sharers
  BY DEF Sharers, Owners, Upgrading
<1>5. Free' => Free /\ c # "unlock_upgrade_and_lock"
  <2>1. CASE c = "unlock_upgrade_and_lock" /\ call[t] = "none"
    <3>1. t \in Sharers
      BY <1>4, <2>1 DEF Before
    <3>2. \/ shared_count' = shared_count
          \/ shared_count # 1 /\ shared_count' = shared_count - 1
      BY <2>1
    <3> QED
      BY <1>2, <3>1, <3>2 DEF Free
  <2>2. CASE c = "unlock_upgrade_and_lock" /\ call[t] # "none"
    BY <2>2 DEF Can, Free
  <2>3. CASE c # "unlock_upgrade_and_lock"
    BY <1>2, <2>3 DEF Free
  <2> QED
    BY <2>1, <2>2, <2>3
<1>6. Free /\ c # "unlock_upgrade_and_lock" => c \notin ExclusiveQueue
  <2>1. c \in {"lock", "try_lock_until"} /\ c # "unlock_upgrade_and_lock" => ~Free
    BY DEF Can, Free
  <2>2. c = "try_unlock_shared_and_lock_upgrade_until" => t \in Sharers
    <3>1. ASSUME c = "try_unlock_shared_and_lock_upgrade_until" PROVE t \in Sharers
      <4>1. mode[t] = "shared" /\ call[t] # "unlock_upgrade_and_lock"
        BY <3>1 DEF Before
      <4> QED
        BY <4>1 DEF Sharers, Owners, Upgrading
    <3> QED
      BY <3>1
  <2> QED
    BY <1>2, <2>1, <2>2 DEF ExclusiveQueue, Free
<1>7. WritersTold'
  <2> SUFFICES ASSUME exclusive_cond' # <<>>, Free' PROVE Tellers' # {}
    BY WritersToldAfter
  <2>1. c \notin ExclusiveQueue /\ Free
    BY <1>5, <1>6
  <2>2. exclusive_cond # <<>>
    BY <2>1 DEF Sleep, Queue
  <2>3. PICK u \in Tellers : TRUE
    BY <1>1, <2>1, <2>2, WritersToldMeans
  <2>4. u \in Threads /\ u # t
    BY <2>1, <2>3 DEF Tellers, Notifications, ExclusiveQueue
  <2>5. u \in Tellers'
    BY <1>3, <2>3, <2>4 DEF Tellers, Woken
  <2> QED
    BY <2>5
<1>8. ReadersTold'
  <2>1. ToSet(shared_cond) \subseteq Threads
    BY <1>1, MemberFacts DEF TypeOK
  <2>2. ASSUME NEW u \in ToSet(shared_cond)'
        PROVE  \/ u \in ToSet(shared_cond) /\ call'[u] = call[u]
               \/ ~Can(call'[u]) \/ call'[u] \in Sole
    <3>1. CASE u = t
      <4>1. c \in SharedQueue
        BY <1>3, <3>1 DEF QueuesOK, QueueOK
      <4>2. ~Can(c)
        BY <4>1 DEF SharedQueue
      <4> QED
        BY <1>3, <3>1, <4>2
    <3>2. CASE u # t
      <4>1. shared_cond' = shared_cond \/ shared_cond' = Append(shared_cond, t)
        BY DEF Sleep, Queue
      <4>2. ToSet(Append(shared_cond, t)) = ToSet(shared_cond) \cup {t}
        BY <1>1, AppendFacts DEF TypeOK
      <4>3. u \in ToSet(shared_cond)
        BY <3>2, <4>1, <4>2
      <4> QED
        BY <1>3, <2>1, <3>2, <4>3
    <3> QED
      BY <3>1, <3>2
  <2>3. \A u \in ToSet(shared_cond)' : call'[u] \in SharedQueue
    BY <1>3 DEF QueuesOK, QueueOK
  <2>4. ASSUME NEW u \in Threads, call[u] \in {"notify_exclusive", "notify_shared"}
        PROVE  \E v \in Threads : call'[v] \in {"notify_exclusive", "notify_shared"}
    <3>1. u # t
      BY <2>4 DEF Notifications
    <3> QED
      BY <1>3, <2>4, <3>1
  <2> QED
    BY <1>1, <1>2, <2>2, <2>3, <2>4, ReadersStayTold
<1> QED
  BY <1>7, <1>8 DEF Told

(* A step that leaves the state and tells nobody.  What of WritersTold and
   ReadersTold still holds is that the tellers have not gone.              *)
LEMMA QuietTells ==
    ASSUME IInv, Told, IInv', NEW t \in Threads,
           Free' => Free,
           ~exclusive' => ~exclusive,
           ~exclusive' /\ ~exclusive_waiting_blocked' => ~exclusive_waiting_blocked,
           ~exclusive' /\ ~upgrade' => ~upgrade,
           exclusive_cond' # <<>> => exclusive_cond # <<>>,
           ToSet(shared_cond)' \subseteq ToSet(shared_cond),
           \A u \in Threads \ {t} : /\ call'[u] = call[u]
                                    /\ Woken(u) => Woken(u)',
           Free' => (t \in Tellers => Tellers' # {}),
           t \in ToSet(shared_cond)' => call'[t] = call[t],
           call[t] \in {"notify_exclusive", "notify_shared"} =>
               call'[t] = "notify_shared" \/ ToSet(shared_cond)' = {}
    PROVE  Told'
<1>1. TypeOK /\ WritersTold /\ ReadersTold /\ QueuesOK'
  BY DEF IInv, Told
<1>2. WritersTold'
  <2> SUFFICES ASSUME exclusive_cond' # <<>>, Free' PROVE Tellers' # {}
    BY WritersToldAfter
  <2>1. PICK u \in Tellers : TRUE
    BY <1>1, WritersToldMeans
  <2>2. CASE u = t
    BY <2>1, <2>2
  <2>3. CASE u # t
    <3>1. u \in Tellers'
      BY <2>1, <2>3 DEF Tellers
    <3> QED
      BY <3>1
  <2> QED
    BY <2>2, <2>3
<1>3. CASE ToSet(shared_cond)' = {}
  BY <1>2, <1>3 DEF Told, ReadersTold
<1>4. CASE ToSet(shared_cond)' # {}
  <2>1. ToSet(shared_cond) \subseteq Threads
    BY <1>1, MemberFacts DEF TypeOK
  <2>2. \A u \in ToSet(shared_cond)' : u \in ToSet(shared_cond) /\ call'[u] = call[u]
    BY <2>1
  <2>3. \A u \in ToSet(shared_cond)' : call'[u] \in SharedQueue
    BY <1>1 DEF QueuesOK, QueueOK
  <2>4. ASSUME NEW u \in Threads, call[u] \in {"notify_exclusive", "notify_shared"}
        PROVE  \E v \in Threads : call'[v] \in {"notify_exclusive", "notify_shared"}
    BY <1>4, <2>4
  <2>5. ReadersTold'
    BY <1>1, <2>2, <2>3, <2>4, ReadersStayTold
  <2> QED
    BY <1>2, <2>5 DEF Told
<1> QED
  BY <1>3, <1>4

(* While the mutex is owned exclusively nobody can go on.                  *)
LEMMA ExclusiveTells ==
    ASSUME IInv', exclusive'
    PROVE  Told'
<1>1. ~Free'
  BY DEF Free
<1>2. \A u \in ToSet(shared_cond)' : ~(Can(call[u])' /\ call'[u] \notin Sole)
  <2>1. \A u \in ToSet(shared_cond)' : call'[u] \in SharedQueue
    BY DEF IInv, QueuesOK, QueueOK
  <2> QED
    BY <2>1 DEF Can, Sole, SharedQueue, Waits, Timed, ExclusiveQueue
<1> QED
  BY <1>1, <1>2, WritersToldAfter DEF Told, ReadersTold

LEMMA GivesUpTells ==
    ASSUME IInv, Told, IInv', NEW t \in Threads, GivesUp(t)
    PROVE  Told'
<1>1. /\ TypeOK /\ CallOK(t) /\ OwnersOK /\ HandOver /\ QueuesOK
      /\ call[t] \in Waits /\ Woken(t) /\ ~Blocked(t) /\ status[t] = "timeout"
      /\ call' = [call EXCEPT ![t] = "none"]
  BY DEF IInv, GivesUp, InWait, Leaves, Woken, Blocked, Results
<1>2. CASE call[t] = "try_lock_until"
  BY <1>1, <1>2, ReleaseTells DEF GivesUp
<1>3. CASE call[t] # "try_lock_until"
  <2>1. UNCHANGED state /\ UNCHANGED conds /\ status' = [status EXCEPT ![t] = "out"]
    BY <1>3 DEF GivesUp, Quietly
  <2>2. /\ \A u \in Threads \ {t} : /\ call'[u] = call[u]
                                    /\ Woken(u) => Woken(u)'
    BY <1>1, <2>1 DEF TypeOK, Woken
  <2>3. t \in Tellers => ~Free
    <3>1. ASSUME t \in Tellers PROVE ~Free
      <4>1. call[t] \in {"lock", "try_unlock_shared_and_lock_upgrade_until"}
        BY <1>1, <1>3, <3>1 DEF Tellers, Waits, Timed, ExclusiveQueue
      <4>2. call[t] # "lock"
        BY <1>1 DEF CallOK, Waits, Timed
      <4>3. mode[t] = "shared"
        BY <1>1, <4>1, <4>2 DEF CallOK, Before
      <4>4. t \in Sharers
        BY <4>1, <4>3 DEF Sharers, Owners, Upgrading
      <4> QED
        BY <1>1, <4>4, OwnersFacts DEF Free
    <3> QED
      BY <3>1
  <2>4. t \notin ToSet(shared_cond) /\ call[t] \notin Notifications
    BY <1>1 DEF QueuesOK, QueueOK, Waits, Timed, Notifications
  <2>5. /\ Free' => Free
        /\ ~exclusive' => ~exclusive
        /\ ~exclusive' /\ ~exclusive_waiting_blocked' => ~exclusive_waiting_blocked
        /\ ~exclusive' /\ ~upgrade' => ~upgrade
        /\ exclusive_cond' = exclusive_cond
        /\ ToSet(shared_cond)' = ToSet(shared_cond)
    BY <2>1 DEF state, conds, Free
  <2> QED
    BY <2>2, <2>3, <2>4, <2>5, QuietTells DEF Notifications
<1> QED
  BY <1>2, <1>3

LEMMA TimerTells ==
    ASSUME IInv, Told, IInv', NEW t \in Threads, TimerExpires(t)
    PROVE  Told'
<1>1. /\ TypeOK /\ CallOK(t) /\ QueuesOK
      /\ status[t] = "timed" /\ status' = [status EXCEPT ![t] = "timeout"]
      /\ shared_cond' = RemoveFirst(shared_cond, t)
      /\ exclusive_cond' = RemoveFirst(exclusive_cond, t)
      /\ UNCHANGED state /\ call' = call
  BY DEF IInv, TimerExpires
<1>2. /\ shared_cond \in Seq(Threads) /\ Distinct(shared_cond)
      /\ exclusive_cond \in Seq(Threads) /\ Distinct(exclusive_cond)
  BY <1>1 DEF TypeOK, QueuesOK, QueueOK
<1>3. /\ ToSet(shared_cond') = ToSet(shared_cond) \ {t}
      /\ ToSet(exclusive_cond') = ToSet(exclusive_cond) \ {t}
      /\ exclusive_cond' \in Seq(Threads)
  BY <1>1, <1>2, RemoveFirstFacts
<1>4. exclusive_cond' # <<>> => exclusive_cond # <<>>
  BY <1>3, EmptyFacts, MemberFacts
<1>5. /\ \A u \in Threads : Woken(u) => Woken(u)'
      /\ ~Woken(t) /\ call[t] \notin Notifications
  BY <1>1 DEF TypeOK, Woken, Results, CallOK, Waits, Timed, Notifications
<1>6. t \notin Tellers
  BY <1>5 DEF Tellers, Notifications
<1>7. /\ Free' => Free
      /\ ~exclusive' => ~exclusive
      /\ ~exclusive' /\ ~exclusive_waiting_blocked' => ~exclusive_waiting_blocked
      /\ ~exclusive' /\ ~upgrade' => ~upgrade
      /\ ToSet(shared_cond)' \subseteq ToSet(shared_cond)
  BY <1>1, <1>3 DEF state, Free
<1> QED
  BY <1>1, <1>4, <1>5, <1>6, <1>7, QuietTells DEF Notifications

LEMMA UnlockSharedTells ==
    ASSUME IInv, Told, IInv', NEW t \in Threads, UnlockShared(t)
    PROVE  Told'
<1>1. /\ TypeOK /\ OwnersOK /\ HandOver /\ QueuesOK /\ CallOK(t)
      /\ call[t] = "none" /\ mode[t] = "shared" /\ shared_count \in Nat
      /\ shared_count' = shared_count - 1 /\ UNCHANGED <<conds, status>>
  BY DEF IInv, UnlockShared, Idle, TypeOK
<1>2. t \in Sharers
  BY <1>1 DEF Sharers, Owners, Upgrading
<1>3. shared_count # 0
  BY <1>1, <1>2, OwnersFacts
<1>4. CASE shared_count > 1
  <2>1. /\ UNCHANGED <<exclusive, upgrade, exclusive_waiting_blocked, call>>
        /\ ~Free'
    BY <1>1, <1>4 DEF UnlockShared, Free
  <2>2. \A u \in Threads \ {t} : call'[u] = call[u] /\ (Woken(u) => Woken(u)')
    BY <1>1, <2>1 DEF Woken
  <2>3. exclusive_cond' = exclusive_cond /\ ToSet(shared_cond)' = ToSet(shared_cond)
    BY <1>1 DEF conds
  <2> QED
    BY <1>1, <2>1, <2>2, <2>3, QuietTells
<1>5. CASE ~(shared_count > 1) /\ upgrade
  <2>1. exclusive'
    BY <1>5 DEF UnlockShared
  <2> QED
    BY <2>1, ExclusiveTells
<1>6. CASE ~(shared_count > 1) /\ ~upgrade
  <2>1. call'[t] = "notify_exclusive"
    BY <1>1, <1>6 DEF UnlockShared, TypeOK
  <2>2. t \in Tellers'
    BY <2>1 DEF Tellers
  <2> QED
    BY <2>1, <2>2, WritersToldAfter DEF Told, ReadersTold
<1> QED
  BY <1>4, <1>5, <1>6

LEMMA NotifyTells ==
    ASSUME IInv, Told, IInv', NEW t \in Threads,
           NotifyUpgrader(t) \/ NotifyExclusive(t) \/ NotifyShared(t)
    PROVE  Told'
<1>1. /\ TypeOK /\ QueuesOK /\ QueuesOK' /\ CallOK(t) /\ UNCHANGED state
      /\ call[t] \in Notifications /\ t \notin ToSet(shared_cond)
      /\ \A u \in Threads \ {t} : call'[u] = call[u]
  <2>1. /\ TypeOK /\ QueuesOK /\ QueuesOK' /\ CallOK(t)
    BY DEF IInv
  <2>2. UNCHANGED state /\ call[t] \in Notifications
    BY DEF NotifyUpgrader, NotifyExclusive, NotifyShared, Notifies, Notifications
  <2>3. t \notin ToSet(shared_cond)
    BY <2>1, <2>2 DEF QueuesOK, QueueOK, SharedQueue, Waits, Timed, Notifications
  <2>4. \A u \in Threads \ {t} : call'[u] = call[u]
    BY <2>1 DEF NotifyUpgrader, NotifyExclusive, NotifyShared, Notifies, TypeOK
  <2> QED
    BY <2>1, <2>2, <2>3, <2>4
<1>2. /\ First(exclusive_cond) \subseteq ToSet(exclusive_cond)
      /\ First(upgrade_cond) \subseteq ToSet(upgrade_cond)
      /\ ToSet(exclusive_cond) \subseteq Threads /\ ToSet(upgrade_cond) \subseteq Threads
      /\ ToSet(shared_cond) \subseteq Threads
      /\ \A u \in ToSet(exclusive_cond) \cup ToSet(upgrade_cond) \cup ToSet(shared_cond) :
            Blocked(u)
  BY <1>1, FirstFacts, MemberFacts DEF TypeOK, QueuesOK, QueueOK
<1>3. ASSUME NEW W \in SUBSET Threads, Wakes(W)
      PROVE  /\ \A u \in W : Woken(u)'
             /\ \A u \in Threads : Woken(u) => Woken(u)'
  <2>1. /\ \A u \in W : status'[u] \in Results
        /\ \A u \in Threads \ W : status'[u] = status[u]
    BY <1>1, <1>3, WakesFacts DEF TypeOK, Wakes
  <2> QED
    BY <2>1 DEF Woken
<1>4. /\ Free' => Free
      /\ ~exclusive' => ~exclusive
      /\ ~exclusive' /\ ~exclusive_waiting_blocked' => ~exclusive_waiting_blocked
      /\ ~exclusive' /\ ~upgrade' => ~upgrade
  BY <1>1 DEF state, Free
<1>5. CASE NotifyUpgrader(t)
  <2>1. /\ call[t] = "notify_upgrader" /\ call'[t] = "notify_exclusive"
        /\ shared_cond' = shared_cond /\ exclusive_cond' = exclusive_cond
        /\ Wakes(First(upgrade_cond))
    BY <1>1, <1>5 DEF NotifyUpgrader, Notifies, TypeOK
  <2>2. \A u \in Threads : Woken(u) => Woken(u)'
    BY <1>2, <1>3, <2>1
  <2>3. t \in Tellers'
    BY <2>1 DEF Tellers
  <2> QED
    BY <1>1, <1>4, <2>1, <2>2, <2>3, QuietTells
<1>6. CASE NotifyExclusive(t)
  <2>1. /\ call[t] = "notify_exclusive" /\ call'[t] = "notify_shared"
        /\ shared_cond' = shared_cond /\ exclusive_cond' = Others(exclusive_cond)
        /\ Wakes(First(exclusive_cond))
    BY <1>1, <1>6 DEF NotifyExclusive, Notifies, TypeOK
  <2>2. \A u \in First(exclusive_cond) : Woken(u)'
    BY <1>2, <1>3, <2>1
  <2>3. \A u \in First(exclusive_cond) : call'[u] = call[u]
    <3>1. t \notin ToSet(exclusive_cond)
      BY <1>1, <2>1 DEF QueuesOK, QueueOK, ExclusiveQueue
    <3> QED
      BY <1>1, <1>2, <3>1
  <2>4. WritersTold'
    BY <1>1, <2>1, <2>2, <2>3, FirstIsTold
  <2>5. ReadersTold'
    BY <2>1 DEF ReadersTold
  <2> QED
    BY <2>4, <2>5 DEF Told
<1>7. CASE NotifyShared(t)
  <2>1. /\ call[t] = "notify_shared" /\ shared_cond' = <<>>
        /\ exclusive_cond' = exclusive_cond /\ Wakes(All(shared_cond))
    BY <1>7 DEF NotifyShared, Notifies
  <2>2. \A u \in Threads : Woken(u) => Woken(u)'
    BY <1>2, <1>3, <2>1 DEF All
  <2>3. t \notin Tellers
    BY <2>1 DEF Tellers, ExclusiveQueue
  <2>4. ToSet(shared_cond)' = {}
    BY <2>1, EmptyFacts
  <2> QED
    BY <1>1, <1>4, <2>1, <2>2, <2>3, <2>4, QuietTells
<1> QED
  BY <1>5, <1>6, <1>7

LEMMA UnlocksTells ==
    ASSUME IInv, Told, IInv', NEW t \in Threads, Unlocks(t) \/ Converts(t)
    PROVE  Told'
<1>1. CASE UnlockShared(t)
  BY <1>1, UnlockSharedTells
<1>2. CASE UnlockUpgrade(t)
  <2>1. call[t] = "none" /\ mode[t] = "upgrade" /\ ~Blocked(t) /\ shared_count \in Nat
    BY <1>2 DEF UnlockUpgrade, Idle, IInv, CallOK, Blocked, TypeOK, Waits, Timed
  <2>2. CASE shared_count = 1
    BY <1>2, <2>1, <2>2, ReleaseTells DEF UnlockUpgrade, Leaves
  <2>3. CASE shared_count # 1
    <3>1. t \in Sharers
      BY <2>1 DEF Sharers, Owners, Upgrading
    <3>2. shared_count # 0
      BY <3>1, OwnersFacts DEF IInv
    <3>3. ~Free' /\ shared_cond' = <<>>
      BY <1>2, <2>1, <2>3, <3>2 DEF UnlockUpgrade, Free
    <3>4. ToSet(shared_cond)' = {}
      BY <3>3, EmptyFacts
    <3> QED
      BY <3>3, <3>4, WritersToldAfter DEF Told, ReadersTold
  <2> QED
    BY <2>2, <2>3
<1>3. CASE UpgradeToShared(t) \/ \E m \in {"none", "shared", "upgrade"} : Downgrade(t, m)
  <2>1. call[t] = "none" /\ ReleaseWaiters(t) /\ call' = [call EXCEPT ![t] = "none"]
    BY <1>3 DEF UpgradeToShared, Downgrade, Idle, Leaves
  <2>2. ~Blocked(t)
    BY <2>1 DEF IInv, CallOK, Blocked, Waits, Timed
  <2> QED
    BY <2>1, <2>2, ReleaseTells
<1> QED
  BY <1>1, <1>2, <1>3 DEF Unlocks, Converts

LEMMA StartsTells ==
    ASSUME IInv, Told, IInv', NEW t \in Threads, Starts(t)
    PROVE  Told'
<1>1. call[t] = "none" => ~Blocked(t) /\ call[t] \notin Notifications
  BY DEF IInv, CallOK, Blocked, Waits, Timed, Notifications
<1>2. CASE UpgradeAtOnce(t)
  <2>1. exclusive'
    BY <1>2 DEF UpgradeAtOnce
  <2> QED
    BY <2>1, ExclusiveTells
<1>3. ASSUME NEW c \in Waits, Granted(t, c) PROVE Told'
  <2>1. /\ call[t] = "none" /\ mode[t] = Before(c) /\ Take(c) /\ UNCHANGED conds
        /\ call' = [call EXCEPT ![t] = "none"]
    BY <1>3 DEF Granted, Idle, Leaves, Quietly
  <2>2. c = "try_unlock_shared_and_lock_upgrade_until" => t \in Sharers
    BY <2>1 DEF Before, Sharers, Owners, Upgrading
  <2> QED
    BY <1>1, <2>1, <2>2, TakeTells
<1>4. ASSUME NEW c \in Waits, MustWait(t, c) PROVE Told'
  <2>1. call[t] = "none" /\ mode[t] = Before(c) /\ Sleep(t, c)
    BY <1>4 DEF MustWait, Idle
  <2>2. \/ shared_count' = shared_count /\ ~Can(c)
        \/ /\ c = "unlock_upgrade_and_lock" /\ call[t] = "none"
           /\ shared_count # 1 /\ shared_count' = shared_count - 1
    BY <1>4, <2>1 DEF MustWait
  <2> QED
    BY <1>1, <2>1, <2>2, SleepTells
<1> QED
  BY <1>2, <1>3, <1>4 DEF Starts

LEMMA ResumesTells ==
    ASSUME IInv, Told, IInv', NEW t \in Threads, Resumes(t)
    PROVE  Told'
<1>1. InWait(t) => /\ call[t] \in Waits /\ ~Blocked(t) /\ call[t] \notin Notifications
                   /\ mode[t] = Before(call[t])
  BY DEF IInv, CallOK, InWait, Woken, Blocked, Results, Waits, Timed, Notifications
<1>2. CASE GoesOn(t)
  <2>1. /\ InWait(t) /\ Take(call[t]) /\ UNCHANGED conds
        /\ call' = [call EXCEPT ![t] = "none"]
    BY <1>2 DEF GoesOn, Leaves, Quietly
  <2>2. call[t] = "try_unlock_shared_and_lock_upgrade_until" => t \in Sharers
    BY <1>1, <2>1 DEF Before, Sharers, Owners, Upgrading
  <2> QED
    BY <1>1, <2>1, <2>2, TakeTells
<1>3. CASE WaitsAgain(t)
  <2>1. /\ InWait(t) /\ ~Can(call[t]) /\ Sleep(t, call[t])
        /\ shared_count' = shared_count
    BY <1>3 DEF WaitsAgain
  <2> QED
    BY <1>1, <2>1, SleepTells
<1> QED
  BY <1>2, <1>3, GivesUpTells, NotifyTells DEF Resumes

(* What lets a waiting call of shared_timed_mutex go on is always told to
   those who wait: a free mutex has a writer that has been woken, or is
   about to be, and readers wait only for a writer or an upgrader, or until
   the notification that is under way reaches them.  No call that times out,
   gives up or converts loses it.                                          *)
THEOREM SharedMutexTellsWaiters == Spec => []NobodyWaitsInVain
<1>1. Init => Told
  BY EmptyFacts DEF Init, Told, WritersTold, ReadersTold
<1>2. IInv /\ Told /\ IInv' /\ [Next]_vars => Told'
  <2> SUFFICES ASSUME IInv, Told, IInv', [Next]_vars PROVE Told'
    OBVIOUS
  <2>1. CASE UNCHANGED vars
    BY <2>1 DEF vars, state, conds, Told, WritersTold, ReadersTold, Can, Woken
  <2>2. ASSUME NEW t \in Threads,
               \/ Starts(t) \/ Resumes(t) \/ TimerExpires(t) \/ Unlocks(t) \/ Converts(t)
        PROVE  Told'
    BY <2>2, StartsTells, ResumesTells, TimerTells, UnlocksTells
  <2> QED
    BY <2>1, <2>2 DEF Next
<1>3. IInv /\ Told => NobodyWaitsInVain
  BY DEF IInv, Told, NobodyWaitsInVain
<1> QED
  BY <1>1, <1>2, <1>3, Invariance, PTL DEF Spec

-----------------------------------------------------------------------------
(* The concurrent queue.  What makes the notifications reach enough of its *)
(* callers is that a thread is queued on the condition variable of its     *)
(* call, once, and is blocked: so each thread that a notification takes is *)
(* one more that has been woken and will look for an item, or for room.    *)

QueueTypeOK == /\ size \in Nat /\ opened \in BOOLEAN
               /\ full \in Seq(Threads) /\ empty \in Seq(Threads)
               /\ within \in [Threads -> Pushes \cup Pops \cup {"none"}]
               /\ status \in [Threads -> Statuses]

(* The threads queued in q are blocked in a call of C, each once.          *)
WaitsIn(q, C) == Distinct(q) /\ \A t \in ToSet(q) : Blocked(t) /\ within[t] \in C

QueueInv == /\ QueueTypeOK
            /\ WaitsIn(full, Pushes) /\ WaitsIn(empty, Pops)
            /\ \A t \in Threads : Outside(t) => status[t] = "out"
            /\ ~opened => full = <<>> /\ empty = <<>>

(* The callers that have been woken.                                       *)
Poppers == {t \in Threads : within[t] \in Pops /\ Woken(t)}
Pushers == {t \in Threads : within[t] \in Pushes /\ Woken(t)}

-----------------------------------------------------------------------------
(* Cutting a queue in two.                                                 *)

LEMMA PrefixFacts ==
    ASSUME NEW q \in Seq(Threads), Distinct(q), NEW k \in 0..Len(q)
    PROVE  LET p == SubSeq(q, 1, k)
               r == SubSeq(q, k + 1, Len(q))
           IN  /\ r \in Seq(Threads) /\ Distinct(r)
               /\ ToSet(p) \subseteq ToSet(q) /\ ToSet(r) \subseteq ToSet(q)
               /\ ToSet(p) \cap ToSet(r) = {}
               /\ IsFiniteSet(ToSet(p)) /\ k <= Cardinality(ToSet(p))
               /\ k = Len(q) => r = <<>>
<1> DEFINE p == SubSeq(q, 1, k)
           r == SubSeq(q, k + 1, Len(q))
<1>1. k \in Nat /\ Len(q) \in Nat /\ k <= Len(q)
  OBVIOUS
<1>2. p \in Seq(Threads) /\ Len(p) = k /\ \A i \in 1..k : p[i] = q[i]
  BY <1>1, SMT
<1>3. /\ r \in Seq(Threads) /\ Len(r) = Len(q) - k
      /\ \A i \in 1..(Len(q) - k) : r[i] = q[k + i]
  BY <1>1, SMT
<1> HIDE DEF p, r
<1>4. /\ ToSet(q) = {q[i] : i \in 1..Len(q)}
      /\ ToSet(p) = {p[i] : i \in 1..k}
      /\ ToSet(r) = {r[i] : i \in 1..(Len(q) - k)}
  BY <1>2, <1>3, MemberFacts
<1>5. \A i \in 1..(Len(q) - k) : k + i \in 1..Len(q) /\ k + i \notin 1..k
  BY <1>1
<1>6. Distinct(r)
  <2>1. ASSUME NEW i \in 1..Len(r), NEW j \in 1..Len(r), r[i] = r[j]
        PROVE  i = j
    <3>1. i \in 1..(Len(q) - k) /\ j \in 1..(Len(q) - k)
      BY <1>3
    <3>2. r[i] = q[k + i] /\ r[j] = q[k + j]
      BY <1>3, <3>1
    <3>3. k + i = k + j
      BY <1>5, <2>1, <3>1, <3>2 DEF Distinct
    <3> QED
      BY <1>1, <3>3
  <2> QED
    BY <2>1 DEF Distinct
<1>7. \A i \in 1..k : i \in 1..Len(q)
  BY <1>1
<1>8. ToSet(p) \subseteq ToSet(q) /\ ToSet(r) \subseteq ToSet(q)
  BY <1>2, <1>3, <1>4, <1>5, <1>7
<1>9. ToSet(p) \cap ToSet(r) = {}
  BY <1>2, <1>3, <1>4, <1>5, <1>7 DEF Distinct
<1>10. IsFiniteSet(ToSet(p)) /\ k <= Cardinality(ToSet(p))
  <2> DEFINE f == [i \in 1..k |-> p[i]]
  <2>1. \A i, j \in 1..k : p[i] = p[j] => i = j
    BY <1>2, <1>7 DEF Distinct
  <2>2. f \in [1..k -> ToSet(p)]
    BY <1>4
  <2>3. f \in Injection(1..k, ToSet(p))
    BY <2>1, <2>2 DEF Injection, IsInjective
  <2>4. IsFiniteSet(ToSet(p))
    <3>1. ToSet(p) \in SUBSET Threads
      BY <1>2, MemberFacts
    <3> QED
      BY <3>1, FS_Subset, QueueAssumption
  <2>5. IsFiniteSet(1..k) /\ Cardinality(1..k) = k
    BY <1>1, FS_Interval
  <2> QED
    BY <2>3, <2>4, <2>5, FS_Injection
<1>11. k = Len(q) => r = <<>>
  <2>1. k = Len(q) => Len(r) = 0
    BY <1>1, <1>3
  <2> QED
    BY <2>1, <1>3, EmptySeq
<1> QED
  BY <1>3, <1>6, <1>8, <1>9, <1>10, <1>11 DEF p, r

LEMMA SmallerFacts ==
    ASSUME NEW m \in Nat, NEW n \in Nat
    PROVE  /\ Min({m, n}) \in {m, n} /\ Min({m, n}) <= m /\ Min({m, n}) <= n
BY DEF Min

-----------------------------------------------------------------------------
(* What a step leaves of the queues and of the callers.                    *)

(* Threads leave the queues only by being woken, or after they were.       *)
LEMMA QueuesStay ==
    ASSUME QueueInv, NEW t \in Threads, ~Blocked(t) \/ ~Blocked(t)',
           NEW W \in SUBSET Threads,
           \A u \in Threads \ (W \cup {t}) : status'[u] = status[u],
           \A u \in Threads \ {t} : within'[u] = within[u],
           Distinct(full)', ToSet(full)' \subseteq ToSet(full) \ (W \cup {t}),
           Distinct(empty)', ToSet(empty)' \subseteq ToSet(empty) \ (W \cup {t})
    PROVE  WaitsIn(full, Pushes)' /\ WaitsIn(empty, Pops)'
<1>1. ToSet(full) \subseteq Threads /\ ToSet(empty) \subseteq Threads
  BY MemberFacts DEF QueueInv, QueueTypeOK
<1>2. ASSUME NEW u \in Threads \ (W \cup {t})
      PROVE  (Blocked(u) => Blocked(u)') /\ within'[u] = within[u]
  BY DEF Blocked
<1>3. ASSUME NEW u \in ToSet(full)' PROVE Blocked(u)' /\ within'[u] \in Pushes
  BY <1>1, <1>2 DEF QueueInv, WaitsIn
<1>4. ASSUME NEW u \in ToSet(empty)' PROVE Blocked(u)' /\ within'[u] \in Pops
  BY <1>1, <1>2 DEF QueueInv, WaitsIn
<1> QED
  BY <1>3, <1>4 DEF WaitsIn

(* A call by t that returns, and wakes the threads W.                      *)
LEMMA CallerReturns ==
    ASSUME QueueInv, NEW t \in Threads, ~Blocked(t),
           NEW W \in SUBSET Threads, \A u \in W : Blocked(u),
           Tells(t, W), Returns(t)
    PROVE  /\ within' \in [Threads -> Pushes \cup Pops \cup {"none"}]
           /\ status' \in [Threads -> Statuses]
           /\ \A u \in Threads \ (W \cup {t}) : status'[u] = status[u]
           /\ \A u \in Threads \ {t} : within'[u] = within[u]
           /\ \A u \in Threads : Outside(u)' => status'[u] = "out"
           /\ Poppers' = (Poppers \ {t}) \cup {u \in W : within[u] \in Pops}
           /\ Pushers' = (Pushers \ {t}) \cup {u \in W : within[u] \in Pushes}
<1> DEFINE S == [status EXCEPT ![t] = "out"]
<1>1. /\ within \in [Threads -> Pushes \cup Pops \cup {"none"}]
      /\ status \in [Threads -> Statuses]
      /\ \A u \in Threads : Outside(u) => status[u] = "out"
  BY DEF QueueInv, QueueTypeOK
<1>2. /\ S \in [Threads -> Statuses] /\ S[t] = "out"
      /\ \A u \in Threads \ {t} : S[u] = status[u]
  BY <1>1 DEF Statuses
<1>3. WakesFrom(S, W)
  BY DEF Tells
<1> HIDE DEF S
<1>4. /\ status' \in [Threads -> Statuses]
      /\ \A u \in W : status'[u] \in Results
      /\ \A u \in Threads \ W : status'[u] = S[u]
  BY <1>2, <1>3, WakesFacts
<1>5. t \notin W
  OBVIOUS
<1>6. /\ within' \in [Threads -> Pushes \cup Pops \cup {"none"}]
      /\ within'[t] = "none"
      /\ \A u \in Threads \ {t} : within'[u] = within[u]
  BY <1>1 DEF Returns
<1>7. status'[t] = "out" /\ \A u \in Threads \ (W \cup {t}) : status'[u] = status[u]
  BY <1>2, <1>4, <1>5
<1>8. ASSUME NEW u \in Threads, Outside(u)' PROVE status'[u] = "out"
  <2>1. CASE u = t
    BY <2>1, <1>7
  <2>2. CASE u # t
    <3>1. status[u] = "out"
      BY <1>1, <1>6, <1>8, <2>2 DEF Outside
    <3>2. u \notin W
      BY <3>1 DEF Blocked
    <3> QED
      BY <1>7, <2>2, <3>1, <3>2
  <2> QED
    BY <2>1, <2>2
<1>9. ASSUME NEW u \in Threads
      PROVE  /\ Woken(u)' <=> u \in W \/ (u # t /\ Woken(u))
             /\ u \in W => ~Woken(u)
  <2>1. CASE u = t
    BY <1>5, <1>7, <2>1 DEF Woken, Results
  <2>2. CASE u \in W
    BY <1>4, <2>2 DEF Woken, Blocked, Results
  <2>3. CASE u \notin W /\ u # t
    BY <1>7, <2>3 DEF Woken
  <2> QED
    BY <2>1, <2>2, <2>3
<1>10. Poppers' = (Poppers \ {t}) \cup {u \in W : within[u] \in Pops}
  <2>1. "none" \notin Pops
    BY DEF Pops
  <2>2. \A u \in Threads : within'[u] \in Pops <=> u # t /\ within[u] \in Pops
    BY <1>6, <2>1
  <2>3. Poppers' = {u \in Threads : within'[u] \in Pops /\ Woken(u)'}
    BY DEF Poppers
  <2> QED
    BY <1>5, <1>9, <2>2, <2>3 DEF Poppers
<1>11. Pushers' = (Pushers \ {t}) \cup {u \in W : within[u] \in Pushes}
  <2>1. "none" \notin Pushes
    BY DEF Pushes
  <2>2. \A u \in Threads : within'[u] \in Pushes <=> u # t /\ within[u] \in Pushes
    BY <1>6, <2>1
  <2>3. Pushers' = {u \in Threads : within'[u] \in Pushes /\ Woken(u)'}
    BY DEF Pushers
  <2> QED
    BY <1>5, <1>9, <2>2, <2>3 DEF Pushers
<1> QED
  BY <1>4, <1>6, <1>7, <1>8, <1>10, <1>11

LEMMA AddItemsKeepsInv ==
    ASSUME QueueInv, NEW t \in Threads, ~Blocked(t), opened,
           NEW n \in Nat, AddItems(t, n)
    PROVE  /\ QueueInv'
           /\ \E W \in SUBSET Threads :
                 /\ Poppers' = (Poppers \ {t}) \cup W /\ Poppers \cap W = {}
                 /\ empty' # <<>> => n <= Cardinality(W)
                 /\ Pushers' = Pushers \ {t}
<1> DEFINE k == Min({n, Len(empty)})
           W == ToSet(SubSeq(empty, 1, k))
<1>1. /\ QueueTypeOK /\ empty \in Seq(Threads) /\ Distinct(empty)
      /\ full \in Seq(Threads) /\ Distinct(full)
      /\ \A u \in ToSet(empty) : Blocked(u) /\ within[u] \in Pops
      /\ \A u \in ToSet(full) : Blocked(u) /\ within[u] \in Pushes
  BY DEF QueueInv, QueueTypeOK, WaitsIn
<1>2. Len(empty) \in Nat
  BY <1>1
<1>3. k \in {n, Len(empty)} /\ k <= n /\ k <= Len(empty)
  BY <1>2, SmallerFacts
<1>4. k \in 0..Len(empty)
  BY <1>2, <1>3
<1>5. /\ Tells(t, W) /\ empty' = SubSeq(empty, k + 1, Len(empty)) /\ Returns(t)
      /\ size' = size + n /\ opened' = opened /\ full' = full
  BY DEF AddItems
<1> HIDE DEF k
<1>6. /\ empty' \in Seq(Threads) /\ Distinct(empty')
      /\ W \subseteq ToSet(empty) /\ ToSet(empty') \subseteq ToSet(empty)
      /\ W \cap ToSet(empty') = {}
      /\ k <= Cardinality(W)
      /\ k = Len(empty) => empty' = <<>>
  BY <1>1, <1>4, <1>5, PrefixFacts
<1> HIDE DEF W
<1>7. ToSet(empty) \subseteq Threads /\ ToSet(full) \subseteq Threads
  BY <1>1, MemberFacts
<1>8. W \in SUBSET Threads /\ \A u \in W : Blocked(u) /\ within[u] \in Pops
  BY <1>1, <1>6, <1>7
<1>9. Pushes \cap Pops = {}
  BY DEF Pushes, Pops
<1>10. /\ within' \in [Threads -> Pushes \cup Pops \cup {"none"}]
       /\ status' \in [Threads -> Statuses]
       /\ \A u \in Threads \ (W \cup {t}) : status'[u] = status[u]
       /\ \A u \in Threads \ {t} : within'[u] = within[u]
       /\ \A u \in Threads : Outside(u)' => status'[u] = "out"
       /\ Poppers' = (Poppers \ {t}) \cup {u \in W : within[u] \in Pops}
       /\ Pushers' = (Pushers \ {t}) \cup {u \in W : within[u] \in Pushes}
  BY <1>5, <1>8, CallerReturns
<1>11. WaitsIn(full, Pushes)' /\ WaitsIn(empty, Pops)'
  <2>1. /\ ToSet(full') \subseteq ToSet(full) \ (W \cup {t})
        /\ ToSet(empty') \subseteq ToSet(empty) \ (W \cup {t})
    BY <1>1, <1>5, <1>6, <1>8, <1>9
  <2>2. /\ ToSet(full)' \subseteq ToSet(full) \ (W \cup {t})
        /\ ToSet(empty)' \subseteq ToSet(empty) \ (W \cup {t})
        /\ Distinct(full)' /\ Distinct(empty)'
    BY <1>1, <1>5, <1>6, <2>1
  <2> QED
    BY <1>8, <1>10, <2>2, QueuesStay
<1>12. QueueInv'
  <2>1. size' \in Nat
    BY <1>1, <1>5 DEF QueueTypeOK
  <2> QED
    BY <1>1, <1>5, <1>6, <1>10, <1>11, <2>1 DEF QueueInv, QueueTypeOK
<1>13. {u \in W : within[u] \in Pops} = W /\ {u \in W : within[u] \in Pushes} = {}
  BY <1>8, <1>9
<1>14. Poppers \cap W = {}
  BY <1>8 DEF Poppers, Blocked, Woken, Results
<1>15. empty' # <<>> => n <= Cardinality(W)
  BY <1>3, <1>6
<1> QED
  BY <1>8, <1>10, <1>12, <1>13, <1>14, <1>15

LEMMA TakeItemKeepsInv ==
    ASSUME QueueInv, NEW t \in Threads, ~Blocked(t), TakeItem(t)
    PROVE  /\ QueueInv'
           /\ \E W \in SUBSET Threads :
                 /\ Pushers' = (Pushers \ {t}) \cup W /\ Pushers \cap W = {}
                 /\ full' # <<>> => full # <<>> /\ Cardinality(W) = 1
                 /\ Poppers' = Poppers \ {t}
<1> DEFINE W == First(full)
<1>1. /\ QueueTypeOK /\ empty \in Seq(Threads) /\ Distinct(empty)
      /\ full \in Seq(Threads) /\ Distinct(full)
      /\ \A u \in ToSet(empty) : Blocked(u) /\ within[u] \in Pops
      /\ \A u \in ToSet(full) : Blocked(u) /\ within[u] \in Pushes
  BY DEF QueueInv, QueueTypeOK, WaitsIn
<1>2. /\ Tells(t, W) /\ full' = Others(full) /\ Returns(t)
      /\ size > 0 /\ size' = size - 1 /\ opened' = opened /\ empty' = empty
  BY DEF TakeItem
<1>3. full = <<>> => full' = <<>>
  BY <1>2 DEF Others
<1>4. full # <<>> => Cardinality(W) = 1
  <2>1. full # <<>> => W = {full[1]}
    BY <1>1, MemberFacts DEF First
  <2> QED
    BY <2>1, FS_Singleton
<1>5. /\ full' \in Seq(Threads) /\ Distinct(full')
      /\ W \subseteq ToSet(full) /\ ToSet(full') = ToSet(full) \ W
  BY <1>1, <1>2, FirstFacts
<1> HIDE DEF W
<1>6. ToSet(empty) \subseteq Threads /\ ToSet(full) \subseteq Threads
  BY <1>1, MemberFacts
<1>7. W \in SUBSET Threads /\ \A u \in W : Blocked(u) /\ within[u] \in Pushes
  BY <1>1, <1>5, <1>6
<1>8. Pushes \cap Pops = {}
  BY DEF Pushes, Pops
<1>9. /\ within' \in [Threads -> Pushes \cup Pops \cup {"none"}]
      /\ status' \in [Threads -> Statuses]
      /\ \A u \in Threads \ (W \cup {t}) : status'[u] = status[u]
      /\ \A u \in Threads \ {t} : within'[u] = within[u]
      /\ \A u \in Threads : Outside(u)' => status'[u] = "out"
      /\ Poppers' = (Poppers \ {t}) \cup {u \in W : within[u] \in Pops}
      /\ Pushers' = (Pushers \ {t}) \cup {u \in W : within[u] \in Pushes}
  BY <1>2, <1>7, CallerReturns
<1>10. WaitsIn(full, Pushes)' /\ WaitsIn(empty, Pops)'
  <2>1. /\ ToSet(full') \subseteq ToSet(full) \ (W \cup {t})
        /\ ToSet(empty') \subseteq ToSet(empty) \ (W \cup {t})
    BY <1>1, <1>2, <1>5, <1>7, <1>8
  <2>2. /\ ToSet(full)' \subseteq ToSet(full) \ (W \cup {t})
        /\ ToSet(empty)' \subseteq ToSet(empty) \ (W \cup {t})
        /\ Distinct(full)' /\ Distinct(empty)'
    BY <1>1, <1>2, <1>5, <2>1
  <2> QED
    BY <1>7, <1>9, <2>2, QueuesStay
<1>11. QueueInv'
  <2>1. size' \in Nat
    BY <1>1, <1>2 DEF QueueTypeOK
  <2>2. ~opened' => full' = <<>> /\ empty' = <<>>
    BY <1>2, <1>3 DEF QueueInv
  <2> QED
    BY <1>1, <1>2, <1>5, <1>9, <1>10, <2>1, <2>2 DEF QueueInv, QueueTypeOK
<1>12. {u \in W : within[u] \in Pushes} = W /\ {u \in W : within[u] \in Pops} = {}
  BY <1>7, <1>8
<1>13. Pushers \cap W = {}
  BY <1>7 DEF Pushers, Blocked, Woken, Results
<1> QED
  BY <1>3, <1>4, <1>7, <1>9, <1>11, <1>12, <1>13

(* A call queues up, for the first time or again.                          *)
LEMMA PushQueuesUp ==
    ASSUME QueueInv, NEW t \in Threads, ~Blocked(t), t \notin Poppers, opened,
           NEW c \in Pushes, QueuesUp(t, c), full' = Append(full, t),
           UNCHANGED <<size, opened, empty>>
    PROVE  QueueInv' /\ Poppers' = Poppers
<1>1. /\ QueueTypeOK /\ empty \in Seq(Threads) /\ full \in Seq(Threads)
      /\ Distinct(full) /\ Distinct(empty)
      /\ \A u \in ToSet(full) : Blocked(u) /\ within[u] \in Pushes
      /\ \A u \in ToSet(empty) : Blocked(u) /\ within[u] \in Pops
  BY DEF QueueInv, QueueTypeOK, WaitsIn
<1>2. /\ within' \in [Threads -> Pushes \cup Pops \cup {"none"}]
      /\ within'[t] = c
      /\ \A u \in Threads \ {t} : within'[u] = within[u]
  BY <1>1 DEF QueuesUp, QueueTypeOK
<1>3. /\ status' \in [Threads -> Statuses]
      /\ status'[t] \in {"waiting", "timed"}
      /\ \A u \in Threads \ {t} : status'[u] = status[u]
  BY <1>1 DEF QueuesUp, QueueTypeOK, Statuses
<1>4. /\ ToSet(full) \subseteq Threads /\ ToSet(empty) \subseteq Threads
      /\ t \notin ToSet(full) /\ t \notin ToSet(empty)
  BY <1>1, MemberFacts
<1>5. /\ full' \in Seq(Threads) /\ Distinct(full')
      /\ ToSet(full') = ToSet(full) \cup {t}
  BY <1>1, <1>4, AppendFacts
<1>6. ASSUME NEW u \in Threads \ {t} PROVE Blocked(u)' <=> Blocked(u)
  BY <1>3 DEF Blocked
<1>7. Blocked(t)'
  BY <1>3 DEF Blocked
<1>8. WaitsIn(full, Pushes)'
  <2>1. ToSet(full)' = ToSet(full) \cup {t} /\ Distinct(full)'
    BY <1>5
  <2>2. ASSUME NEW u \in ToSet(full)' PROVE Blocked(u)' /\ within'[u] \in Pushes
    BY <1>1, <1>2, <1>4, <1>6, <1>7, <2>1
  <2> QED
    BY <2>1, <2>2 DEF WaitsIn
<1>9. WaitsIn(empty, Pops)'
  <2>1. ToSet(empty)' = ToSet(empty) /\ Distinct(empty)'
    BY <1>1
  <2>2. ASSUME NEW u \in ToSet(empty)' PROVE Blocked(u)' /\ within'[u] \in Pops
    BY <1>1, <1>2, <1>4, <1>6, <2>1
  <2> QED
    BY <2>1, <2>2 DEF WaitsIn
<1>10. \A u \in Threads : Outside(u)' => status'[u] = "out"
  <2>1. "none" \notin Pushes
    BY DEF Pushes
  <2> QED
    BY <1>2, <1>3, <2>1 DEF Outside, QueueInv
<1>11. QueueInv'
  BY <1>1, <1>2, <1>3, <1>5, <1>8, <1>9, <1>10 DEF QueueInv, QueueTypeOK
<1>12. \A u \in Threads \ {t} : Woken(u)' <=> Woken(u)
  BY <1>3 DEF Woken
<1>13. Poppers' = {u \in Threads : within'[u] \in Pops /\ Woken(u)'}
  BY DEF Poppers
<1>14. c \notin Pops
  BY DEF Pushes, Pops
<1> QED
  BY <1>2, <1>11, <1>12, <1>13, <1>14 DEF Poppers

LEMMA PopQueuesUp ==
    ASSUME QueueInv, NEW t \in Threads, ~Blocked(t), t \notin Pushers, opened,
           NEW c \in Pops, QueuesUp(t, c), empty' = Append(empty, t),
           UNCHANGED <<size, opened, full>>
    PROVE  QueueInv' /\ Pushers' = Pushers
<1>1. /\ QueueTypeOK /\ empty \in Seq(Threads) /\ full \in Seq(Threads)
      /\ Distinct(empty) /\ Distinct(full)
      /\ \A u \in ToSet(empty) : Blocked(u) /\ within[u] \in Pops
      /\ \A u \in ToSet(full) : Blocked(u) /\ within[u] \in Pushes
  BY DEF QueueInv, QueueTypeOK, WaitsIn
<1>2. /\ within' \in [Threads -> Pushes \cup Pops \cup {"none"}]
      /\ within'[t] = c
      /\ \A u \in Threads \ {t} : within'[u] = within[u]
  BY <1>1 DEF QueuesUp, QueueTypeOK
<1>3. /\ status' \in [Threads -> Statuses]
      /\ status'[t] \in {"waiting", "timed"}
      /\ \A u \in Threads \ {t} : status'[u] = status[u]
  BY <1>1 DEF QueuesUp, QueueTypeOK, Statuses
<1>4. /\ ToSet(empty) \subseteq Threads /\ ToSet(full) \subseteq Threads
      /\ t \notin ToSet(empty) /\ t \notin ToSet(full)
  BY <1>1, MemberFacts
<1>5. /\ empty' \in Seq(Threads) /\ Distinct(empty')
      /\ ToSet(empty') = ToSet(empty) \cup {t}
  BY <1>1, <1>4, AppendFacts
<1>6. ASSUME NEW u \in Threads \ {t} PROVE Blocked(u)' <=> Blocked(u)
  BY <1>3 DEF Blocked
<1>7. Blocked(t)'
  BY <1>3 DEF Blocked
<1>8. WaitsIn(empty, Pops)'
  <2>1. ToSet(empty)' = ToSet(empty) \cup {t} /\ Distinct(empty)'
    BY <1>5
  <2>2. ASSUME NEW u \in ToSet(empty)' PROVE Blocked(u)' /\ within'[u] \in Pops
    BY <1>1, <1>2, <1>4, <1>6, <1>7, <2>1
  <2> QED
    BY <2>1, <2>2 DEF WaitsIn
<1>9. WaitsIn(full, Pushes)'
  <2>1. ToSet(full)' = ToSet(full) /\ Distinct(full)'
    BY <1>1
  <2>2. ASSUME NEW u \in ToSet(full)' PROVE Blocked(u)' /\ within'[u] \in Pushes
    BY <1>1, <1>2, <1>4, <1>6, <2>1
  <2> QED
    BY <2>1, <2>2 DEF WaitsIn
<1>10. \A u \in Threads : Outside(u)' => status'[u] = "out"
  <2>1. "none" \notin Pops
    BY DEF Pops
  <2> QED
    BY <1>2, <1>3, <2>1 DEF Outside, QueueInv
<1>11. QueueInv'
  BY <1>1, <1>2, <1>3, <1>5, <1>8, <1>9, <1>10 DEF QueueInv, QueueTypeOK
<1>12. \A u \in Threads \ {t} : Woken(u)' <=> Woken(u)
  BY <1>3 DEF Woken
<1>13. Pushers' = {u \in Threads : within'[u] \in Pushes /\ Woken(u)'}
  BY DEF Pushers
<1>14. c \notin Pushes
  BY DEF Pushes, Pops
<1> QED
  BY <1>2, <1>11, <1>12, <1>13, <1>14 DEF Pushers

(* A call returns false.                                                   *)
LEMMA FailsKeepsInv ==
    ASSUME QueueInv, NEW t \in Threads, ~Blocked(t), Fails(t)
    PROVE  QueueInv' /\ Poppers' = Poppers \ {t} /\ Pushers' = Pushers \ {t}
<1>1. /\ QueueTypeOK /\ empty \in Seq(Threads) /\ full \in Seq(Threads)
      /\ Distinct(full) /\ Distinct(empty)
      /\ \A u \in ToSet(full) \cup ToSet(empty) : Blocked(u)
  BY DEF QueueInv, QueueTypeOK, WaitsIn
<1>2. /\ Tells(t, {}) /\ Returns(t)
      /\ size' = size /\ opened' = opened /\ full' = full /\ empty' = empty
  BY DEF Fails
<1>3. {} \in SUBSET Threads /\ \A u \in {} : Blocked(u)
  OBVIOUS
<1>4. /\ within' \in [Threads -> Pushes \cup Pops \cup {"none"}]
      /\ status' \in [Threads -> Statuses]
      /\ \A u \in Threads \ ({} \cup {t}) : status'[u] = status[u]
      /\ \A u \in Threads \ {t} : within'[u] = within[u]
      /\ \A u \in Threads : Outside(u)' => status'[u] = "out"
      /\ Poppers' = (Poppers \ {t}) \cup {u \in {} : within[u] \in Pops}
      /\ Pushers' = (Pushers \ {t}) \cup {u \in {} : within[u] \in Pushes}
  BY <1>2, <1>3, CallerReturns
<1>5. /\ ToSet(full)' \subseteq ToSet(full) \ ({} \cup {t})
      /\ ToSet(empty)' \subseteq ToSet(empty) \ ({} \cup {t})
      /\ Distinct(full)' /\ Distinct(empty)'
  BY <1>1, <1>2
<1>6. WaitsIn(full, Pushes)' /\ WaitsIn(empty, Pops)'
  BY <1>3, <1>4, <1>5, QueuesStay
<1> QED
  BY <1>1, <1>2, <1>4, <1>6 DEF QueueInv, QueueTypeOK

(* The timer of a call expires.                                            *)
LEMMA CallTimesOutKeepsInv ==
    ASSUME QueueInv, NEW t \in Threads, CallTimesOut(t)
    PROVE  /\ QueueInv' /\ Poppers \subseteq Poppers' /\ Pushers \subseteq Pushers'
           /\ full' # <<>> => full # <<>>
           /\ empty' # <<>> => empty # <<>>
<1>1. /\ QueueTypeOK /\ empty \in Seq(Threads) /\ full \in Seq(Threads)
      /\ Distinct(full) /\ Distinct(empty)
  BY DEF QueueInv, QueueTypeOK, WaitsIn
<1>2. /\ full' = RemoveFirst(full, t) /\ empty' = RemoveFirst(empty, t)
      /\ size' = size /\ opened' = opened /\ within' = within
      /\ status[t] = "timed" /\ status' = [status EXCEPT ![t] = "timeout"]
  BY DEF CallTimesOut
<1>3. /\ full' \in Seq(Threads) /\ Distinct(full') /\ ToSet(full') = ToSet(full) \ {t}
      /\ empty' \in Seq(Threads) /\ Distinct(empty')
      /\ ToSet(empty') = ToSet(empty) \ {t}
  BY <1>1, <1>2, RemoveFirstFacts
<1>4. /\ status' \in [Threads -> Statuses] /\ status'[t] = "timeout"
      /\ \A u \in Threads \ {t} : status'[u] = status[u]
  BY <1>1, <1>2 DEF QueueTypeOK, Statuses, Results
<1>5. WaitsIn(full, Pushes)' /\ WaitsIn(empty, Pops)'
  <2>1. {} \in SUBSET Threads /\ ~Blocked(t)'
    BY <1>4 DEF Blocked
  <2>2. \A u \in Threads \ ({} \cup {t}) : status'[u] = status[u]
    BY <1>4
  <2>3. \A u \in Threads \ {t} : within'[u] = within[u]
    BY <1>2
  <2>4. /\ ToSet(full)' \subseteq ToSet(full) \ ({} \cup {t})
        /\ ToSet(empty)' \subseteq ToSet(empty) \ ({} \cup {t})
        /\ Distinct(full)' /\ Distinct(empty)'
    BY <1>3
  <2> QED
    BY <2>1, <2>2, <2>3, <2>4, QueuesStay
<1>6. /\ full = <<>> => full' = <<>>
      /\ empty = <<>> => empty' = <<>>
  BY <1>3, EmptyFacts, MemberFacts
<1>7. \A u \in Threads : Outside(u)' => status'[u] = "out"
  <2>1. ~Outside(t)
    BY <1>2 DEF QueueInv
  <2> QED
    BY <1>2, <1>4, <2>1 DEF QueueInv, Outside
<1>8. QueueInv'
  <2>1. ~opened' => full' = <<>> /\ empty' = <<>>
    BY <1>2, <1>6 DEF QueueInv
  <2> QED
    BY <1>1, <1>2, <1>3, <1>4, <1>5, <1>7, <2>1 DEF QueueInv, QueueTypeOK
<1>9. \A u \in Threads : Woken(u) => Woken(u)'
  BY <1>4 DEF Woken, Results
<1>10. /\ Poppers' = {u \in Threads : within'[u] \in Pops /\ Woken(u)'}
       /\ Pushers' = {u \in Threads : within'[u] \in Pushes /\ Woken(u)'}
  BY DEF Poppers, Pushers
<1> QED
  BY <1>2, <1>6, <1>8, <1>9, <1>10 DEF Poppers, Pushers

(* open and close.                                                         *)
LEMMA OpenKeepsInv ==
    ASSUME QueueInv, NEW t \in Threads, Open(t) \/ Close(t)
    PROVE  QueueInv'
<1>1. /\ QueueTypeOK /\ WaitsIn(full, Pushes) /\ WaitsIn(empty, Pops)
      /\ \A u \in Threads : Outside(u) => status[u] = "out"
  BY DEF QueueInv
<1>2. CASE Open(t)
  <2>1. /\ opened' = TRUE /\ size' = size /\ full' = full /\ empty' = empty
        /\ within' = within /\ status' = status
    BY <1>2 DEF Open
  <2>2. WaitsIn(full, Pushes)' /\ WaitsIn(empty, Pops)'
    BY <1>1, <2>1 DEF WaitsIn, Blocked
  <2> QED
    BY <1>1, <2>1, <2>2 DEF QueueInv, QueueTypeOK, Outside
<1>3. CASE Close(t)
  <2> DEFINE W == All(full) \cup All(empty)
  <2>1. /\ opened' = FALSE /\ size' = size /\ full' = <<>> /\ empty' = <<>>
        /\ within' = within /\ WakesFrom(status, W)
    BY <1>3 DEF Close, Wakes
  <2>2. W \in SUBSET Threads /\ \A u \in W : Blocked(u)
    BY <1>1, MemberFacts DEF QueueTypeOK, WaitsIn, All
  <2> HIDE DEF W
  <2>3. status \in [Threads -> Statuses]
    BY <1>1 DEF QueueTypeOK
  <2>4. /\ status' \in [Threads -> Statuses]
        /\ \A u \in Threads \ W : status'[u] = status[u]
    BY <2>1, <2>2, <2>3, WakesFacts
  <2>5. full' \in Seq(Threads) /\ empty' \in Seq(Threads)
    BY <2>1, EmptyFacts
  <2>6. WaitsIn(full, Pushes)' /\ WaitsIn(empty, Pops)'
    <3>1. /\ ToSet(full)' = {} /\ ToSet(empty)' = {}
          /\ Distinct(full)' /\ Distinct(empty)'
      BY <2>1, EmptyFacts
    <3> QED
      BY <3>1 DEF WaitsIn
  <2>7. \A u \in Threads : Outside(u)' => status'[u] = "out"
    <3>1. \A u \in W : ~Outside(u)
      BY <1>1, <2>2 DEF Blocked
    <3> QED
      BY <1>1, <2>1, <2>4, <3>1 DEF Outside
  <2> QED
    BY <1>1, <2>1, <2>4, <2>5, <2>6, <2>7 DEF QueueInv, QueueTypeOK
<1> QED
  BY <1>2, <1>3

LEMMA QueueInitInv == QueueInit => QueueInv
<1> SUFFICES ASSUME QueueInit PROVE QueueInv
  OBVIOUS
<1>1. full = <<>> /\ empty = <<>>
  BY DEF QueueInit
<1>2. full \in Seq(Threads) /\ empty \in Seq(Threads)
  BY <1>1, EmptyFacts
<1>3. WaitsIn(full, Pushes) /\ WaitsIn(empty, Pops)
  BY <1>1, EmptyFacts DEF WaitsIn
<1> QED
  BY <1>1, <1>2, <1>3 DEF QueueInit, QueueInv, QueueTypeOK, Statuses, Outside

(* What is known of a call that goes on, and of one that starts.           *)
LEMMA CallFacts ==
    ASSUME QueueInv, NEW t \in Threads
    PROVE  /\ Outside(t) => ~Blocked(t) /\ t \notin Poppers /\ t \notin Pushers
           /\ InPush(t) => ~Blocked(t) /\ t \notin Poppers /\ t \in Pushers
           /\ InPop(t) => ~Blocked(t) /\ t \in Poppers /\ t \notin Pushers
<1>1. Outside(t) => status[t] = "out"
  BY DEF QueueInv
<1>2. "none" \notin Pushes /\ "none" \notin Pops /\ Pushes \cap Pops = {}
  BY DEF Pushes, Pops
<1>3. Woken(t) => ~Blocked(t)
  BY DEF Woken, Blocked, Results
<1> QED
  BY <1>1, <1>2, <1>3 DEF Outside, InPush, InPop, Poppers, Pushers, Blocked

(* What push, push_some and push_all add.                                  *)
LEMMA AddedFacts ==
    ASSUME QueueInv, NEW n \in Batch
    PROVE  /\ n \in Nat
           /\ ~Full => /\ Min({n, Capacity - size}) \in Nat
                       /\ size + Min({n, Capacity - size}) <= Capacity
<1>1. n \in Nat /\ size \in Nat /\ Capacity \in Nat
  BY QueueAssumption DEF QueueInv, QueueTypeOK
<1>2. ASSUME ~Full
      PROVE  /\ Min({n, Capacity - size}) \in Nat
             /\ size + Min({n, Capacity - size}) <= Capacity
  <2> DEFINE room == Capacity - size
  <2>1. room \in Nat /\ size + room = Capacity
    BY <1>1, <1>2 DEF Full
  <2> HIDE DEF room
  <2>2. Min({n, room}) \in {n, room} /\ Min({n, room}) <= room
    BY <1>1, <2>1, SmallerFacts
  <2>3. Min({n, room}) \in Nat
    BY <1>1, <2>1, <2>2
  <2>4. size + Min({n, room}) <= Capacity
    BY <1>1, <2>1, <2>2, <2>3
  <2> QED
    BY <2>3, <2>4 DEF room
<1> QED
  BY <1>1, <1>2

LEMMA QueueNextInv == QueueInv /\ [QueueNext]_queueVars => QueueInv'
<1> SUFFICES ASSUME QueueInv, [QueueNext]_queueVars PROVE QueueInv'
  OBVIOUS
<1>1. CASE UNCHANGED queueVars
  <2>1. /\ size' = size /\ opened' = opened /\ full' = full /\ empty' = empty
        /\ within' = within /\ status' = status
    BY <1>1 DEF queueVars
  <2>2. WaitsIn(full, Pushes)' /\ WaitsIn(empty, Pops)'
    BY <2>1 DEF QueueInv, WaitsIn, Blocked
  <2> QED
    BY <2>1, <2>2 DEF QueueInv, QueueTypeOK, Outside
<1>2. ASSUME NEW t \in Threads, CallStarts(t) PROVE QueueInv'
  <2>1. CASE PushNow(t)
    BY <2>1, CallFacts, AddItemsKeepsInv DEF PushNow
  <2>2. CASE PushSome(t)
    BY <2>2, CallFacts, AddedFacts, AddItemsKeepsInv DEF PushSome
  <2>3. CASE PushAll(t)
    BY <2>3, CallFacts, AddedFacts, AddItemsKeepsInv DEF PushAll
  <2>4. CASE PopNow(t)
    BY <2>4, CallFacts, TakeItemKeepsInv DEF PopNow
  <2>5. ASSUME NEW c \in Pushes, PushWait(t, c) PROVE QueueInv'
    BY <2>5, CallFacts, PushQueuesUp DEF PushWait
  <2>6. ASSUME NEW c \in Pops, PopWait(t, c) PROVE QueueInv'
    BY <2>6, CallFacts, PopQueuesUp DEF PopWait
  <2> QED
    BY <1>2, <2>1, <2>2, <2>3, <2>4, <2>5, <2>6 DEF CallStarts
<1>3. ASSUME NEW t \in Threads, CallGoesOn(t) PROVE QueueInv'
  <2>1. CASE PushAgain(t)
    <3>1. within[t] \in Pushes
      BY <2>1 DEF PushAgain, InPush
    <3> QED
      BY <2>1, <3>1, CallFacts, PushQueuesUp DEF PushAgain
  <2>2. CASE PushEnds(t)
    BY <2>2, CallFacts, AddItemsKeepsInv DEF PushEnds
  <2>3. CASE PushFails(t)
    BY <2>3, CallFacts, FailsKeepsInv DEF PushFails
  <2>4. CASE PopAgain(t)
    <3>1. within[t] \in Pops
      BY <2>4 DEF PopAgain, InPop
    <3> QED
      BY <2>4, <3>1, CallFacts, PopQueuesUp DEF PopAgain
  <2>5. CASE PopEnds(t)
    BY <2>5, CallFacts, TakeItemKeepsInv DEF PopEnds
  <2>6. CASE PopFails(t)
    BY <2>6, CallFacts, FailsKeepsInv DEF PopFails
  <2> QED
    BY <1>3, <2>1, <2>2, <2>3, <2>4, <2>5, <2>6 DEF CallGoesOn
<1> QED
  BY <1>1, <1>2, <1>3, OpenKeepsInv, CallTimesOutKeepsInv DEF QueueNext

(* The callers of a queue stay as QueueInv says.                           *)
THEOREM QueueInvariance == QueueSpec => []QueueInv
  BY QueueInitInv, QueueNextInv, PTL DEF QueueSpec

(* The queue goes beyond its capacity only in push_all, however calls that
   waited and calls that barge in follow each other.                       *)
THEOREM QueueKeepsCapacity == QueueSpec => CapacityKept
<1>1. ASSUME QueueInv, QueueNext, size' > size, size' > Capacity
      PROVE  \E t \in Threads : PushAll(t)
  <2>1. size \in Nat /\ Capacity \in Nat
    BY <1>1, QueueAssumption DEF QueueInv, QueueTypeOK
  <2>2. ASSUME NEW t \in Threads, CallStarts(t), ~PushAll(t) PROVE FALSE
    <3>1. CASE PushNow(t)
      BY <1>1, <2>1, <3>1 DEF PushNow, AddItems, Full
    <3>2. CASE PushSome(t)
      <4>1. PICK n \in Batch : AddItems(t, Min({n, Capacity - size}))
        BY <3>2 DEF PushSome
      <4>2. size' <= Capacity /\ size' \in Nat
        BY <1>1, <2>1, <3>2, <4>1, AddedFacts DEF PushSome, AddItems
      <4> QED
        BY <1>1, <2>1, <4>2
    <3>3. CASE PopNow(t)
      BY <1>1, <2>1, <3>3 DEF PopNow, TakeItem
    <3>4. CASE (\E c \in Pushes : PushWait(t, c)) \/ (\E c \in Pops : PopWait(t, c))
      BY <1>1, <2>1, <3>4 DEF PushWait, PopWait
    <3> QED
      BY <2>2, <3>1, <3>2, <3>3, <3>4 DEF CallStarts
  <2>3. ASSUME NEW t \in Threads, CallGoesOn(t) PROVE FALSE
    <3>1. CASE PushEnds(t)
      BY <1>1, <2>1, <3>1 DEF PushEnds, AddItems, Full
    <3>2. CASE PopEnds(t)
      BY <1>1, <2>1, <3>2 DEF PopEnds, TakeItem
    <3>3. CASE PushAgain(t) \/ PopAgain(t)
      BY <1>1, <2>1, <3>3 DEF PushAgain, PopAgain
    <3>4. CASE PushFails(t) \/ PopFails(t)
      BY <1>1, <2>1, <3>4 DEF PushFails, PopFails, Fails
    <3> QED
      BY <2>3, <3>1, <3>2, <3>3, <3>4 DEF CallGoesOn
  <2>4. ASSUME NEW t \in Threads, Open(t) \/ Close(t) \/ CallTimesOut(t) PROVE FALSE
    BY <1>1, <2>1, <2>4 DEF Open, Close, CallTimesOut
  <2> QED
    BY <1>1, <2>2, <2>3, <2>4 DEF QueueNext
<1>2. QueueInv /\ [QueueNext]_queueVars =>
         [size' > size /\ size' > Capacity => \E t \in Threads : PushAll(t)]_queueVars
  BY <1>1
<1> QED
  BY <1>2, QueueInvariance, PTL DEF QueueSpec, CapacityKept

-----------------------------------------------------------------------------
(* The number of callers that have been woken.                             *)

LEMMA AwakeFacts ==
    /\ Awake(Pops) = Cardinality(Poppers) /\ Awake(Pushes) = Cardinality(Pushers)
    /\ Awake(Pops) \in Nat /\ Awake(Pushes) \in Nat
    /\ IsFiniteSet(Poppers) /\ IsFiniteSet(Pushers)
<1>1. Poppers \in SUBSET Threads /\ Pushers \in SUBSET Threads
  BY DEF Poppers, Pushers
<1>2. IsFiniteSet(Poppers) /\ IsFiniteSet(Pushers)
  BY <1>1, QueueAssumption, FS_Subset
<1>3. Awake(Pops) = Cardinality(Poppers) /\ Awake(Pushes) = Cardinality(Pushers)
  BY DEF Awake, Poppers, Pushers
<1> QED
  BY <1>2, <1>3, FS_CardinalityType

(* The same after a step.                                                  *)
LEMMA AwakeFactsAfter ==
    /\ Awake(Pops)' = Cardinality(Poppers') /\ Awake(Pushes)' = Cardinality(Pushers')
    /\ Awake(Pops)' \in Nat /\ Awake(Pushes)' \in Nat
    /\ IsFiniteSet(Poppers') /\ IsFiniteSet(Pushers')
<1>1. Poppers' \in SUBSET Threads /\ Pushers' \in SUBSET Threads
  BY DEF Poppers, Pushers
<1>2. IsFiniteSet(Poppers') /\ IsFiniteSet(Pushers')
  BY <1>1, QueueAssumption, FS_Subset
<1>3. /\ Awake(Pops)' = Cardinality(Poppers')
      /\ Awake(Pushes)' = Cardinality(Pushers')
  BY DEF Awake, Poppers, Pushers
<1> QED
  BY <1>2, <1>3, FS_CardinalityType

LEMMA CountsOf ==
    ASSUME NEW S, IsFiniteSet(S), NEW t
    PROVE  /\ t \notin S => Cardinality(S \ {t}) = Cardinality(S)
           /\ t \in S => Cardinality(S \ {t}) = Cardinality(S) - 1
           /\ IsFiniteSet(S \ {t})
           /\ \A W : IsFiniteSet(W) /\ S \cap W = {} =>
                 Cardinality((S \ {t}) \cup W) = Cardinality(S \ {t}) + Cardinality(W)
<1>1. t \notin S => S \ {t} = S
  OBVIOUS
<1>2. /\ t \in S => Cardinality(S \ {t}) = Cardinality(S) - 1
      /\ IsFiniteSet(S \ {t})
  BY FS_RemoveElement, FS_Subset
<1>3. ASSUME NEW W, IsFiniteSet(W), S \cap W = {}
      PROVE  Cardinality((S \ {t}) \cup W) = Cardinality(S \ {t}) + Cardinality(W)
  <2>1. (S \ {t}) \cap W = {}
    BY <1>3
  <2>2. Cardinality((S \ {t}) \cap W) = 0
    BY <2>1, FS_EmptySet
  <2>3. Cardinality((S \ {t}) \cup W) = Cardinality(S \ {t}) + Cardinality(W)
                                          - Cardinality((S \ {t}) \cap W)
    BY <1>2, <1>3, FS_Union
  <2>4. Cardinality(S \ {t}) \in Nat /\ Cardinality(W) \in Nat
    BY <1>2, <1>3, FS_CardinalityType
  <2> QED
    BY <2>2, <2>3, <2>4
<1> QED
  BY <1>1, <1>2, <1>3

(* Each item that is added is spoken for by one more popper, or nobody is
   left waiting for it; and a pusher that was woken uses up the room it was
   woken for.                                                              *)
LEMMA AddItemsServe ==
    ASSUME QueueInv, NEW t \in Threads, ~Blocked(t), t \notin Poppers, opened,
           NEW n \in Nat, t \in Pushers => n = 1, AddItems(t, n)
    PROVE  /\ PoppersServed => PoppersServed'
           /\ PushersServed => PushersServed'
<1>1. /\ size' = size + n /\ full' = full /\ size \in Nat /\ Capacity \in Nat
      /\ empty' # <<>> => empty # <<>>
  <2>1. /\ size' = size + n /\ full' = full
        /\ empty' = SubSeq(empty, Min({n, Len(empty)}) + 1, Len(empty))
    BY DEF AddItems
  <2>2. empty = <<>> => empty' = <<>>
    <3>1. ASSUME empty = <<>> PROVE empty' = <<>>
      <4>1. Len(empty) = 0
        BY <3>1
      <4>2. Min({n, 0}) = 0
        <5>1. Min({n, 0}) \in {n, 0} /\ Min({n, 0}) <= 0
          BY SmallerFacts
        <5> QED
          BY <5>1
      <4> QED
        BY <2>1, <3>1, <4>1, <4>2
    <3> QED
      BY <3>1
  <2> QED
    BY <2>1, <2>2, QueueAssumption DEF QueueInv, QueueTypeOK
<1>2. PICK W \in SUBSET Threads :
         /\ Poppers' = (Poppers \ {t}) \cup W /\ Poppers \cap W = {}
         /\ empty' # <<>> => n <= Cardinality(W)
         /\ Pushers' = Pushers \ {t}
  BY AddItemsKeepsInv
<1>3. IsFiniteSet(W) /\ Cardinality(W) \in Nat
  BY QueueAssumption, FS_Subset, FS_CardinalityType
<1>4. Awake(Pops)' = Awake(Pops) + Cardinality(W)
  <2>1. Cardinality(Poppers \ {t}) = Cardinality(Poppers)
    BY AwakeFacts, CountsOf
  <2>2. Cardinality(Poppers') = Cardinality(Poppers \ {t}) + Cardinality(W)
    BY <1>2, <1>3, AwakeFacts, CountsOf
  <2> QED
    BY <2>1, <2>2, AwakeFacts, AwakeFactsAfter
<1>5. ASSUME PoppersServed PROVE PoppersServed'
  <2> SUFFICES ASSUME empty' # <<>> PROVE size' <= Awake(Pops)'
    BY DEF PoppersServed
  <2>1. size <= Awake(Pops) /\ n <= Cardinality(W)
    BY <1>1, <1>2, <1>5 DEF PoppersServed
  <2> QED
    BY <1>1, <1>3, <1>4, <2>1, AwakeFacts
<1>6. ASSUME PushersServed PROVE PushersServed'
  <2> SUFFICES ASSUME full' # <<>> PROVE Capacity - size' <= Awake(Pushes)'
    BY DEF PushersServed
  <2>1. Capacity - size <= Awake(Pushes)
    BY <1>1, <1>6 DEF PushersServed
  <2>2. CASE t \in Pushers
    <3>1. Cardinality(Pushers') = Cardinality(Pushers) - 1
      BY <1>2, <2>2, AwakeFacts, CountsOf
    <3>2. Awake(Pushes)' = Awake(Pushes) - 1
      BY <3>1, AwakeFacts, AwakeFactsAfter
    <3>3. size' = size + 1
      BY <1>1, <2>2
    <3> QED
      BY <1>1, <2>1, <3>2, <3>3, AwakeFacts
  <2>3. CASE t \notin Pushers
    <3>1. Cardinality(Pushers') = Cardinality(Pushers)
      BY <1>2, <2>3, AwakeFacts, CountsOf
    <3>2. Awake(Pushes)' = Awake(Pushes)
      BY <3>1, AwakeFacts, AwakeFactsAfter
    <3> QED
      BY <1>1, <2>1, <3>2, AwakeFacts
  <2> QED
    BY <2>2, <2>3
<1> QED
  BY <1>5, <1>6

(* An item that is taken makes room for one more pusher.                   *)
LEMMA TakeItemServes ==
    ASSUME QueueInv, NEW t \in Threads, ~Blocked(t), t \notin Pushers, TakeItem(t)
    PROVE  /\ PoppersServed => PoppersServed'
           /\ PushersServed => PushersServed'
<1>1. /\ size' = size - 1 /\ size > 0 /\ empty' = empty
      /\ size \in Nat /\ Capacity \in Nat
  BY QueueAssumption DEF TakeItem, QueueInv, QueueTypeOK
<1>2. PICK W \in SUBSET Threads :
         /\ Pushers' = (Pushers \ {t}) \cup W /\ Pushers \cap W = {}
         /\ full' # <<>> => full # <<>> /\ Cardinality(W) = 1
         /\ Poppers' = Poppers \ {t}
  BY TakeItemKeepsInv
<1>3. IsFiniteSet(W) /\ Cardinality(W) \in Nat
  BY QueueAssumption, FS_Subset, FS_CardinalityType
<1>4. Awake(Pushes)' = Awake(Pushes) + Cardinality(W)
  <2>1. Cardinality(Pushers \ {t}) = Cardinality(Pushers)
    BY AwakeFacts, CountsOf
  <2>2. Cardinality(Pushers') = Cardinality(Pushers \ {t}) + Cardinality(W)
    BY <1>2, <1>3, AwakeFacts, CountsOf
  <2> QED
    BY <2>1, <2>2, AwakeFacts, AwakeFactsAfter
<1>5. ASSUME PushersServed PROVE PushersServed'
  <2> SUFFICES ASSUME full' # <<>> PROVE Capacity - size' <= Awake(Pushes)'
    BY DEF PushersServed
  <2>1. Capacity - size <= Awake(Pushes) /\ Cardinality(W) = 1
    BY <1>2, <1>5 DEF PushersServed
  <2> QED
    BY <1>1, <1>4, <2>1, AwakeFacts
<1>6. ASSUME PoppersServed PROVE PoppersServed'
  <2> SUFFICES ASSUME empty' # <<>> PROVE size' <= Awake(Pops)'
    BY DEF PoppersServed
  <2>1. size <= Awake(Pops)
    BY <1>1, <1>6 DEF PoppersServed
  <2>2. Awake(Pops)' >= Awake(Pops) - 1
    <3>1. CASE t \in Poppers
      BY <1>2, <3>1, AwakeFacts, AwakeFactsAfter, CountsOf
    <3>2. CASE t \notin Poppers
      BY <1>2, <3>2, AwakeFacts, AwakeFactsAfter, CountsOf
    <3> QED
      BY <3>1, <3>2
  <2> QED
    BY <1>1, <2>1, <2>2, AwakeFacts, AwakeFactsAfter
<1> QED
  BY <1>5, <1>6

(* A step that wakes callers, or lets others queue, and changes neither the
   items nor the threads whose queue is not empty.                         *)
LEMMA OthersServe ==
    ASSUME size' = size, size \in Nat, Capacity \in Nat
    PROVE  /\ Poppers \subseteq Poppers' /\ (empty' # <<>> => empty # <<>>) =>
                 (PoppersServed => PoppersServed')
           /\ Pushers \subseteq Pushers' /\ (full' # <<>> => full # <<>>) =>
                 (PushersServed => PushersServed')
<1>1. Poppers \subseteq Poppers' => Awake(Pops) <= Awake(Pops)'
  BY AwakeFacts, AwakeFactsAfter, FS_Subset
<1>2. Pushers \subseteq Pushers' => Awake(Pushes) <= Awake(Pushes)'
  BY AwakeFacts, AwakeFactsAfter, FS_Subset
<1>3. ASSUME Poppers \subseteq Poppers', empty' # <<>> => empty # <<>>, PoppersServed
      PROVE  PoppersServed'
  BY <1>1, <1>3, AwakeFacts, AwakeFactsAfter DEF PoppersServed
<1>4. ASSUME Pushers \subseteq Pushers', full' # <<>> => full # <<>>, PushersServed
      PROVE  PushersServed'
  BY <1>2, <1>4, AwakeFacts, AwakeFactsAfter DEF PushersServed
<1> QED
  BY <1>3, <1>4

(* A pusher queues up when there is no room, a popper when there is no
   item.                                                                   *)
LEMMA PushWaitServes ==
    ASSUME QueueInv, NEW t \in Threads, ~Blocked(t), t \notin Poppers, opened, Full,
           NEW c \in Pushes, QueuesUp(t, c), full' = Append(full, t),
           UNCHANGED <<size, opened, empty>>
    PROVE  (PoppersServed => PoppersServed') /\ PushersServed'
<1>1. size' = size /\ size \in Nat /\ Capacity \in Nat /\ empty' = empty
  BY QueueAssumption DEF QueueInv, QueueTypeOK
<1>2. Poppers' = Poppers
  BY PushQueuesUp
<1>3. Capacity - size' <= Awake(Pushes)'
  BY <1>1, AwakeFactsAfter DEF Full
<1> QED
  BY <1>1, <1>2, <1>3, OthersServe DEF PushersServed

LEMMA PopWaitServes ==
    ASSUME QueueInv, NEW t \in Threads, ~Blocked(t), t \notin Pushers, opened,
           size = 0, NEW c \in Pops, QueuesUp(t, c), empty' = Append(empty, t),
           UNCHANGED <<size, opened, full>>
    PROVE  PoppersServed' /\ (PushersServed => PushersServed')
<1>1. size' = size /\ size \in Nat /\ Capacity \in Nat /\ full' = full
  BY QueueAssumption DEF QueueInv, QueueTypeOK
<1>2. Pushers' = Pushers
  BY PopQueuesUp
<1>3. size' <= Awake(Pops)'
  BY <1>1, AwakeFactsAfter
<1> QED
  BY <1>1, <1>2, <1>3, OthersServe DEF PoppersServed

LEMMA StartServes ==
    ASSUME QueueInv, NEW t \in Threads, CallStarts(t)
    PROVE  /\ PoppersServed => PoppersServed'
           /\ PushersServed => PushersServed'
<1>1. CASE PushNow(t)
  BY <1>1, CallFacts, AddItemsServe DEF PushNow
<1>2. CASE PushSome(t)
  BY <1>2, CallFacts, AddedFacts, AddItemsServe DEF PushSome
<1>3. CASE PushAll(t)
  BY <1>3, CallFacts, AddedFacts, AddItemsServe DEF PushAll
<1>4. CASE PopNow(t)
  BY <1>4, CallFacts, TakeItemServes DEF PopNow
<1>5. CASE \E c \in Pushes : PushWait(t, c)
  BY <1>5, CallFacts, PushWaitServes DEF PushWait
<1>6. CASE \E c \in Pops : PopWait(t, c)
  BY <1>6, CallFacts, PopWaitServes DEF PopWait
<1> QED
  BY <1>1, <1>2, <1>3, <1>4, <1>5, <1>6 DEF CallStarts

LEMMA FailsServes ==
    ASSUME QueueInv, NEW t \in Threads, ~Blocked(t), Fails(t)
    PROVE  /\ t \notin Poppers => (PoppersServed => PoppersServed')
           /\ t \notin Pushers => (PushersServed => PushersServed')
           /\ ~opened => PoppersServed' /\ PushersServed'
<1>1. /\ size' = size /\ full' = full /\ empty' = empty
      /\ size \in Nat /\ Capacity \in Nat
  BY QueueAssumption DEF Fails, QueueInv, QueueTypeOK
<1>2. Poppers' = Poppers \ {t} /\ Pushers' = Pushers \ {t}
  BY FailsKeepsInv
<1>3. t \notin Poppers => (PoppersServed => PoppersServed')
  BY <1>1, <1>2, OthersServe
<1>4. t \notin Pushers => (PushersServed => PushersServed')
  BY <1>1, <1>2, OthersServe
<1>5. ~opened => full' = <<>> /\ empty' = <<>>
  BY <1>1 DEF QueueInv
<1> QED
  BY <1>3, <1>4, <1>5 DEF PoppersServed, PushersServed

LEMMA GoesOnServes ==
    ASSUME QueueInv, NEW t \in Threads, CallGoesOn(t)
    PROVE  /\ PoppersServed => PoppersServed' \/ (TimedOut(t) /\ PopFails(t))
           /\ PushersServed => PushersServed' \/ (TimedOut(t) /\ PushFails(t))
<1>1. CASE PushAgain(t)
  <2>1. within[t] \in Pushes
    BY <1>1 DEF PushAgain, InPush
  <2> QED
    BY <1>1, <2>1, CallFacts, PushWaitServes DEF PushAgain
<1>2. CASE PushEnds(t)
  BY <1>2, CallFacts, AddItemsServe DEF PushEnds
<1>3. CASE PushFails(t)
  <2>1. InPush(t) /\ Fails(t) /\ ~Blocked(t) /\ t \notin Poppers
    BY <1>3, CallFacts DEF PushFails
  <2>2. ~opened \/ TimedOut(t)
    BY <1>3 DEF PushFails
  <2> QED
    BY <1>3, <2>1, <2>2, FailsServes
<1>4. CASE PopAgain(t)
  <2>1. within[t] \in Pops
    BY <1>4 DEF PopAgain, InPop
  <2> QED
    BY <1>4, <2>1, CallFacts, PopWaitServes DEF PopAgain
<1>5. CASE PopEnds(t)
  BY <1>5, CallFacts, TakeItemServes DEF PopEnds
<1>6. CASE PopFails(t)
  <2>1. InPop(t) /\ Fails(t) /\ ~Blocked(t) /\ t \notin Pushers
    BY <1>6, CallFacts DEF PopFails
  <2>2. ~opened \/ TimedOut(t)
    BY <1>6 DEF PopFails
  <2> QED
    BY <1>6, <2>1, <2>2, FailsServes
<1> QED
  BY <1>1, <1>2, <1>3, <1>4, <1>5, <1>6 DEF CallGoesOn

LEMMA OpenServes ==
    ASSUME QueueInv, NEW t \in Threads, Open(t) \/ Close(t) \/ CallTimesOut(t)
    PROVE  /\ PoppersServed => PoppersServed'
           /\ PushersServed => PushersServed'
<1>1. size \in Nat /\ Capacity \in Nat
  BY QueueAssumption DEF QueueInv, QueueTypeOK
<1>2. CASE Open(t)
  <2>1. /\ size' = size /\ full' = full /\ empty' = empty
        /\ within' = within /\ status' = status
    BY <1>2 DEF Open
  <2>2. Poppers' = Poppers /\ Pushers' = Pushers
    BY <2>1 DEF Poppers, Pushers, Woken
  <2> QED
    BY <1>1, <2>1, <2>2, OthersServe
<1>3. CASE Close(t)
  <2>1. full' = <<>> /\ empty' = <<>>
    BY <1>3 DEF Close
  <2> QED
    BY <2>1 DEF PoppersServed, PushersServed
<1>4. CASE CallTimesOut(t)
  <2>1. size' = size
    BY <1>4 DEF CallTimesOut
  <2> QED
    BY <1>1, <1>4, <2>1, CallTimesOutKeepsInv, OthersServe
<1> QED
  BY <1>2, <1>3, <1>4

(* While a popper waits, every item is spoken for by a popper that has been
   woken, and while a pusher waits so is all room: no sequence of calls,
   barging ones among them, loses a notification.  Only a timed call that
   gives up with the item or the room at hand can.                         *)
THEOREM QueueServesWaiters == QueueSpec => NoWaiterForgotten
<1>1. ASSUME QueueInv, QueueNext
      PROVE  /\ PoppersServed /\ ~PoppersServed' =>
                   \E t \in Threads : TimedOut(t) /\ PopFails(t)
             /\ PushersServed /\ ~PushersServed' =>
                   \E t \in Threads : TimedOut(t) /\ PushFails(t)
  <2>1. PICK t \in Threads : \/ Open(t) \/ Close(t) \/ CallStarts(t)
                             \/ CallGoesOn(t) \/ CallTimesOut(t)
    BY <1>1 DEF QueueNext
  <2> QED
    BY <1>1, <2>1, OpenServes, StartServes, GoesOnServes
<1>2. QueueInv /\ [QueueNext]_queueVars =>
         [/\ PoppersServed /\ ~PoppersServed' =>
                \E t \in Threads : TimedOut(t) /\ PopFails(t)
          /\ PushersServed /\ ~PushersServed' =>
                \E t \in Threads : TimedOut(t) /\ PushFails(t)]_queueVars
  BY <1>1
<1> QED
  BY <1>2, QueueInvariance, PTL DEF QueueSpec, NoWaiterForgotten
=============================================================================
