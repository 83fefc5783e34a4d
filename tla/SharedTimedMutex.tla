--------------------------- MODULE SharedTimedMutex ---------------------------
(***************************************************************************)
(* shared_timed_mutex: shared, upgradeable and exclusive ownership, and    *)
(* the conversions between them.                                           *)
(*                                                                         *)
(* Every method holds state_change while it looks at and changes the       *)
(* state, except while it waits, so what a call does between two waits is  *)
(* one step.  unlock_shared is the exception: it unlocks state_change      *)
(* before it notifies.                                                     *)
(***************************************************************************)
EXTENDS Waiters, FiniteSetsExt

VARIABLES shared_count, exclusive, upgrade,
          exclusive_waiting_blocked,
          shared_cond, exclusive_cond, upgrade_cond,  \* their waiters
          mode,   \* the ownership each thread has been given
          call    \* the call it is in, where it waits or still notifies

state == <<shared_count, exclusive, upgrade, exclusive_waiting_blocked>>
conds == <<shared_cond, exclusive_cond, upgrade_cond>>
vars == <<state, conds, mode, call, status>>

(* The calls that may wait, named after the methods; the _until variants,
   which the _for variants call, have a timer.                             *)
Timed == {"try_lock_shared_until", "try_lock_until", "try_lock_upgrade_until",
          "try_unlock_upgrade_and_lock_until",
          "try_unlock_shared_and_lock_until",
          "try_unlock_shared_and_lock_upgrade_until"}
Waits == Timed \cup {"lock_shared", "lock", "lock_upgrade",
                     "unlock_upgrade_and_lock"}

(* call is one of these, "none", or, for an unlock_shared that has unlocked
   state_change already, "notify_upgrader", "notify_exclusive" or
   "notify_shared"; mode is "none", "shared", "upgrade" or "exclusive".    *)

Init == /\ shared_count = 0
        /\ exclusive = FALSE
        /\ upgrade = FALSE
        /\ exclusive_waiting_blocked = FALSE
        /\ shared_cond = <<>>
        /\ exclusive_cond = <<>>
        /\ upgrade_cond = <<>>
        /\ mode = [t \in Threads |-> "none"]
        /\ call = [t \in Threads |-> "none"]
        /\ status = [t \in Threads |-> "out"]

-----------------------------------------------------------------------------
(* The condition each waiting call waits for, what it does then, the
   ownership its caller has before and after, and where it waits.          *)

Can(c) ==
    \/ c \in {"lock_shared", "try_lock_shared_until"}
       /\ ~exclusive /\ ~exclusive_waiting_blocked
    \/ c \in {"lock", "try_lock_until"} /\ shared_count = 0 /\ ~exclusive
    \/ c \in {"lock_upgrade", "try_lock_upgrade_until",
              "try_unlock_shared_and_lock_upgrade_until"}
       /\ ~exclusive /\ ~exclusive_waiting_blocked /\ ~upgrade
    \/ c = "unlock_upgrade_and_lock" /\ shared_count = 0
    \/ c \in {"try_unlock_upgrade_and_lock_until", "try_unlock_shared_and_lock_until"}
       /\ shared_count = 1

Before(c) ==
    IF c \in {"try_unlock_shared_and_lock_until",
             "try_unlock_shared_and_lock_upgrade_until"} THEN "shared"
    ELSE IF c \in {"unlock_upgrade_and_lock", "try_unlock_upgrade_and_lock_until"}
         THEN "upgrade" ELSE "none"

After(c) ==
    IF c \in {"lock_shared", "try_lock_shared_until"} THEN "shared"
    ELSE IF c \in {"lock_upgrade", "try_lock_upgrade_until",
                  "try_unlock_shared_and_lock_upgrade_until"}
         THEN "upgrade" ELSE "exclusive"

Take(c) ==
    \/ /\ After(c) = "shared"
       /\ shared_count' = shared_count + 1
       /\ UNCHANGED <<exclusive, upgrade, exclusive_waiting_blocked>>
    \/ /\ c \in {"lock_upgrade", "try_lock_upgrade_until"}
       /\ shared_count' = shared_count + 1
       /\ upgrade' = TRUE
       /\ UNCHANGED <<exclusive, exclusive_waiting_blocked>>
    \/ /\ c = "try_unlock_shared_and_lock_upgrade_until"
       /\ upgrade' = TRUE
       /\ UNCHANGED <<shared_count, exclusive, exclusive_waiting_blocked>>
    \/ /\ c \in {"lock", "try_lock_until"}
       /\ exclusive' = TRUE
       /\ UNCHANGED <<shared_count, upgrade, exclusive_waiting_blocked>>
    \/ /\ c = "unlock_upgrade_and_lock"
       /\ exclusive' = TRUE
       /\ upgrade' = FALSE
       /\ UNCHANGED <<shared_count, exclusive_waiting_blocked>>
    \/ /\ c \in {"try_unlock_upgrade_and_lock_until",
                 "try_unlock_shared_and_lock_until"}
       /\ exclusive' = TRUE
       /\ upgrade' = FALSE
       /\ shared_count' = 0
       /\ exclusive_waiting_blocked' = FALSE

ExclusiveQueue == {"lock", "try_lock_until", "try_unlock_shared_and_lock_upgrade_until"}
Queue(t, c) ==
    \/ /\ c \in ExclusiveQueue
       /\ exclusive_cond' = Append(exclusive_cond, t)
       /\ UNCHANGED <<shared_cond, upgrade_cond>>
    \/ /\ c = "unlock_upgrade_and_lock"
       /\ upgrade_cond' = Append(upgrade_cond, t)
       /\ UNCHANGED <<shared_cond, exclusive_cond>>
    \/ /\ c \notin ExclusiveQueue \cup {"unlock_upgrade_and_lock"}
       /\ shared_cond' = Append(shared_cond, t)
       /\ UNCHANGED <<exclusive_cond, upgrade_cond>>

-----------------------------------------------------------------------------
(* Pieces of the calls.                                                    *)

(* t waits in call c; lock and try_lock_until keep new readers out.        *)
Sleep(t, c) == /\ call' = [call EXCEPT ![t] = c]
               /\ status' = [status EXCEPT ![t] = IF c \in Timed THEN "timed"
                                                  ELSE "waiting"]
               /\ Queue(t, c)
               /\ exclusive_waiting_blocked' =
                      (exclusive_waiting_blocked \/ c \in {"lock", "try_lock_until"})
               /\ UNCHANGED <<exclusive, upgrade, mode>>

(* t leaves its call with ownership m.                                     *)
Leaves(t, m) == /\ mode' = [mode EXCEPT ![t] = m]
                /\ call' = [call EXCEPT ![t] = "none"]
Quietly(t) == /\ status' = [status EXCEPT ![t] = "out"]
              /\ UNCHANGED conds

(* release_waiters, by t.                                                  *)
ReleaseWaiters(t) ==
    /\ WakesFrom([status EXCEPT ![t] = "out"],
                 First(exclusive_cond) \cup All(shared_cond))
    /\ exclusive_cond' = Others(exclusive_cond)
    /\ shared_cond' = <<>>
    /\ UNCHANGED upgrade_cond

Idle(t, m) == call[t] = "none" /\ mode[t] = m

-----------------------------------------------------------------------------
(* The calls that may wait, and how a woken call goes on.  A try_ call
   without a timer changes nothing or is Granted as its _until variant is.
   Only unlock_upgrade_and_lock changes the state before it waits: it gives
   up its share.                                                           *)

(* Variant: lock and try_lock look for other writers only.                 *)
GrantedBesideReaders(t, c) ==
    /\ Idle(t, Before(c))
    /\ c # "unlock_upgrade_and_lock"
    /\ Can(c) \/ (c = "lock" /\ ~exclusive)
    /\ Take(c)
    /\ Leaves(t, After(c))
    /\ Quietly(t)

Granted(t, c) == /\ Idle(t, Before(c))
                 /\ c # "unlock_upgrade_and_lock"
                 /\ Can(c)
                 /\ Take(c)
                 /\ Leaves(t, After(c))
                 /\ Quietly(t)
UpgradeAtOnce(t) == /\ Idle(t, "upgrade")
                    /\ shared_count = 1
                    /\ shared_count' = 0
                    /\ exclusive' = TRUE
                    /\ upgrade' = FALSE
                    /\ UNCHANGED exclusive_waiting_blocked
                    /\ Leaves(t, "exclusive")
                    /\ Quietly(t)
MustWait(t, c) == /\ Idle(t, Before(c))
                  /\ IF c = "unlock_upgrade_and_lock" THEN shared_count # 1
                                                      ELSE ~Can(c)
                  /\ shared_count' = IF c = "unlock_upgrade_and_lock"
                                     THEN shared_count - 1
                                     ELSE shared_count
                  /\ Sleep(t, c)

InWait(t) == call[t] \in Waits /\ Woken(t)

(* try_lock_shared_until believes a timeout without looking again.         *)
Believes(t) == call[t] = "try_lock_shared_until" /\ status[t] = "timeout"

GoesOn(t) == /\ InWait(t)
             /\ Can(call[t])
             /\ ~Believes(t)
             /\ Take(call[t])
             /\ Leaves(t, After(call[t]))
             /\ Quietly(t)

WaitsAgain(t) == /\ InWait(t)
                 /\ status[t] = "no_timeout"
                 /\ ~Can(call[t])
                 /\ Sleep(t, call[t])
                 /\ UNCHANGED shared_count

(* Variant: try_lock_until gives up and leaves it at that.                 *)
GivesUpQuietly(t) == /\ InWait(t)
                     /\ status[t] = "timeout"
                     /\ ~Can(call[t]) \/ Believes(t)
                     /\ Leaves(t, mode[t])
                     /\ Quietly(t)
                     /\ UNCHANGED state

(* A timed call fails; try_lock_until lets the readers in that it and any
   other writer has kept out.                                              *)
GivesUp(t) == /\ InWait(t)
              /\ status[t] = "timeout"
              /\ ~Can(call[t]) \/ Believes(t)
              /\ Leaves(t, mode[t])
              /\ IF call[t] = "try_lock_until"
                 THEN /\ exclusive_waiting_blocked' = FALSE
                      /\ UNCHANGED <<shared_count, exclusive, upgrade>>
                      /\ ReleaseWaiters(t)
                 ELSE UNCHANGED state /\ Quietly(t)

TimerExpires(t) == /\ status[t] = "timed"
                   /\ status' = [status EXCEPT ![t] = "timeout"]
                   /\ shared_cond' = RemoveFirst(shared_cond, t)
                   /\ exclusive_cond' = RemoveFirst(exclusive_cond, t)
                   /\ UNCHANGED <<state, upgrade_cond, mode, call>>

-----------------------------------------------------------------------------
(* The calls that never wait.                                              *)

(* unlock_shared.  The last reader hands the mutex to the thread that waits
   in unlock_upgrade_and_lock, if there is one.                            *)
UnlockShared(t) ==
    /\ Idle(t, "shared")
    /\ mode' = [mode EXCEPT ![t] = "none"]
    /\ shared_count' = shared_count - 1
    /\ IF shared_count > 1
       THEN UNCHANGED <<exclusive, upgrade, exclusive_waiting_blocked, call>>
       ELSE IF upgrade
       THEN /\ upgrade' = FALSE
            /\ exclusive' = TRUE
            /\ call' = [call EXCEPT ![t] = "notify_upgrader"]
            /\ UNCHANGED exclusive_waiting_blocked
       ELSE /\ exclusive_waiting_blocked' = FALSE
            /\ call' = [call EXCEPT ![t] = "notify_exclusive"]
            /\ UNCHANGED <<exclusive, upgrade>>
    /\ UNCHANGED <<conds, status>>

(* Its notifications, after state_change is unlocked.                      *)
Notifies(t, c, next) == /\ call[t] = c
                        /\ call' = [call EXCEPT ![t] = next]
                        /\ UNCHANGED <<state, mode>>
NotifyUpgrader(t) == /\ Notifies(t, "notify_upgrader", "notify_exclusive")
                     /\ Wakes(First(upgrade_cond))
                     /\ upgrade_cond' = Others(upgrade_cond)
                     /\ UNCHANGED <<shared_cond, exclusive_cond>>
NotifyExclusive(t) == /\ Notifies(t, "notify_exclusive", "notify_shared")
                      /\ Wakes(First(exclusive_cond))
                      /\ exclusive_cond' = Others(exclusive_cond)
                      /\ UNCHANGED <<shared_cond, upgrade_cond>>
NotifyShared(t) == /\ Notifies(t, "notify_shared", "none")
                   /\ Wakes(All(shared_cond))
                   /\ shared_cond' = <<>>
                   /\ UNCHANGED <<exclusive_cond, upgrade_cond>>

(* Variant: nobody is notified.                                            *)
DowngradeSilently(t, m) ==
    /\ Idle(t, "exclusive")
    /\ m # "exclusive"
    /\ exclusive' = FALSE
    /\ exclusive_waiting_blocked' = FALSE
    /\ upgrade' = (upgrade \/ m = "upgrade")
    /\ shared_count' = shared_count + (IF m = "none" THEN 0 ELSE 1)
    /\ Leaves(t, m)
    /\ Quietly(t)

(* unlock, unlock_and_lock_upgrade and unlock_and_lock_shared, to mode m.  *)
Downgrade(t, m) == /\ Idle(t, "exclusive")
                   /\ m # "exclusive"
                   /\ exclusive' = FALSE
                   /\ exclusive_waiting_blocked' = FALSE
                   /\ upgrade' = (upgrade \/ m = "upgrade")
                   /\ shared_count' = shared_count + (IF m = "none" THEN 0 ELSE 1)
                   /\ Leaves(t, m)
                   /\ ReleaseWaiters(t)

(* unlock_upgrade.                                                         *)
UnlockUpgrade(t) ==
    /\ Idle(t, "upgrade")
    /\ upgrade' = FALSE
    /\ shared_count' = shared_count - 1
    /\ Leaves(t, "none")
    /\ UNCHANGED exclusive
    /\ IF shared_count = 1
       THEN exclusive_waiting_blocked' = FALSE /\ ReleaseWaiters(t)
       ELSE /\ Wakes(All(shared_cond))
            /\ shared_cond' = <<>>
            /\ UNCHANGED <<exclusive_waiting_blocked, exclusive_cond,
                           upgrade_cond>>

(* unlock_upgrade_and_lock_shared.                                         *)
UpgradeToShared(t) == /\ Idle(t, "upgrade")
                      /\ upgrade' = FALSE
                      /\ exclusive_waiting_blocked' = FALSE
                      /\ Leaves(t, "shared")
                      /\ UNCHANGED <<shared_count, exclusive>>
                      /\ ReleaseWaiters(t)

-----------------------------------------------------------------------------
Starts(t) == UpgradeAtOnce(t) \/ \E c \in Waits : Granted(t, c) \/ MustWait(t, c)
Resumes(t) == \/ GoesOn(t) \/ WaitsAgain(t) \/ GivesUp(t)
              \/ NotifyUpgrader(t) \/ NotifyExclusive(t) \/ NotifyShared(t)
Unlocks(t) == UnlockShared(t) \/ UnlockUpgrade(t) \/ Downgrade(t, "none")
Converts(t) == \/ UpgradeToShared(t)
               \/ \E m \in {"shared", "upgrade"} : Downgrade(t, m)

Next == \E t \in Threads : \/ Starts(t) \/ Resumes(t) \/ TimerExpires(t)
                           \/ Unlocks(t) \/ Converts(t)

Spec == Init /\ [][Next]_vars

(* Woken threads go on, timers expire, and owners unlock in the end.       *)
Fairness == \A t \in Threads : /\ WF_vars(Resumes(t)) /\ WF_vars(TimerExpires(t))
                               /\ WF_vars(Unlocks(t))
FairSpec == Spec /\ Fairness

-----------------------------------------------------------------------------
(* Properties.                                                             *)

(* A thread in unlock_upgrade_and_lock has given up what it had.           *)
Upgrading(t) == call[t] = "unlock_upgrade_and_lock"
Owners(M) == {t \in Threads : mode[t] \in M /\ ~Upgrading(t)}

(* One exclusive owner and nobody else, or any number of shared owners, of
   which one may be upgradeable; shared_count counts exactly these, and the
   assertions of state_data hold for every owner, whatever it calls next:
   assert_locked, assert_lock_shared and assert_lock_upgraded.             *)
OwnersExclude ==
    /\ Cardinality(Owners({"exclusive"})) <= 1
    /\ Cardinality(Owners({"upgrade"})) <= 1
    /\ Owners({"exclusive"}) # {} => Owners({"shared", "upgrade"}) = {}
    /\ shared_count = Cardinality(Owners({"shared", "upgrade"}))
    /\ \A t \in Threads :
          /\ t \in Owners({"exclusive"}) => exclusive /\ ~upgrade
          /\ t \in Owners({"shared"}) => ~exclusive
          /\ t \in Owners({"upgrade"}) => ~exclusive /\ upgrade

(* New readers are kept out only for a writer that has or wants the mutex:
   the flag is not left behind by one that gave up.                        *)
ReadersWaitForWriter ==
    exclusive_waiting_blocked =>
       exclusive \/ \E t \in Threads : call[t] \in {"lock", "try_lock_until"}

(* No writer waits while the mutex is free, unless one that waited has been
   woken or is about to be told.                                           *)
WritersTold ==
    exclusive_cond # <<>> /\ Can("lock") =>
       \E t \in Threads : \/ call[t] = "notify_exclusive"
                          \/ call[t] \in ExclusiveQueue /\ Woken(t)

(* No reader waits while there is nothing in its way, unless it is about to
   be told.  A conversion that waits to be the only shared owner is not told
   and has a timer.                                                        *)
Sole == {"try_unlock_upgrade_and_lock_until", "try_unlock_shared_and_lock_until"}
ReadersTold ==
    \A t \in ToSet(shared_cond) :
       Can(call[t]) /\ call[t] \notin Sole =>
          \E u \in Threads : call[u] \in {"notify_exclusive", "notify_shared"}

(* Nobody waits for what it could have: however calls that unlock, convert
   and give up follow each other, one of them has told, or will tell, those
   who wait that their turn has come.                                      *)
NobodyWaitsInVain == ReadersWaitForWriter /\ WritersTold /\ ReadersTold

(* While a thread waits in unlock_upgrade_and_lock the mutex stays reserved
   for it, or has been handed to it.                                       *)
UpgraderUndisturbed ==
    \A t \in Threads :
       Upgrading(t) /\ Blocked(t) =>
          upgrade \/ \E u \in Threads : call[u] = "notify_upgrader"

(* If the threads stop making new calls, every call returns -- unless a
   thread in unlock_upgrade_and_lock is overtaken.                         *)
EveryCallReturns ==
    (<>[][~\E t \in Threads : Starts(t)]_vars /\ []UpgraderUndisturbed) =>
        \A t \in Threads : []<>(call[t] = "none")
=============================================================================
