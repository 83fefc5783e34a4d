--------------------------- MODULE SchedulerProofs ---------------------------
(***************************************************************************)
(* Proofs about Scheduler, for every set of threads and of workers.        *)
(*                                                                         *)
(* on_check_timer decides on the number thread_count_ alone.  That it is   *)
(* right when it stops the io_service follows from the number being exact; *)
(* that it stays right until join returns follows from green threads being *)
(* created by running green threads only, once the first one exists.       *)
(***************************************************************************)
EXTENDS Scheduler, FiniteSetTheorems, TLAPS

Alive == {t \in Threads : life[t] \notin {"new", "gone"}}

(* thread_count_ is the number of threads not yet through on_thread_exit.  *)
CountExact == threadCount = Cardinality(Alive)

(* What a worker runs is a running thread, and no other worker runs it.    *)
WorkersRun == /\ \A w \in WorkerIds :
                    worker[w] \in Threads => life[worker[w]] = "running"
              /\ \A v, w \in WorkerIds :
                    worker[v] = worker[w] /\ worker[v] \in Threads => v = w

(* The io_service is stopped only while there are workers, after the first
   thread, and workers return for no other reason.                         *)
StopSound == /\ stopped => started /\ Pool # {}
             /\ \A w \in WorkerIds : worker[w] = Returned => stopped

JoinSound == main # "free" => Pool # {}

IInv == /\ TypeOK
        /\ CountExact
        /\ WorkersRun
        /\ StopSound
        /\ JoinSound
        /\ StoppedOnlyWhenAllGone
        /\ CheckerAlive

-----------------------------------------------------------------------------
(* How the threads that are not through change when one of them does.      *)

(* A thread that becomes alive counts once more.                           *)
LEMMA AliveGrows ==
    ASSUME TypeOK, CountExact, NEW t \in Threads, life[t] = "new",
           life' = [life EXCEPT ![t] = "ready"], threadCount' = threadCount + 1
    PROVE  CountExact' /\ threadCount' \in Nat
<1>1. Alive \subseteq Threads /\ IsFiniteSet(Alive)
  BY FiniteAssumption, FS_Subset DEF Alive
<1>2. Alive' = Alive \cup {t} /\ t \notin Alive
  BY DEF Alive, TypeOK
<1>3. Cardinality(Alive \cup {t}) = Cardinality(Alive) + 1
  BY <1>1, <1>2, FS_AddElement
<1> QED BY <1>2, <1>3 DEF CountExact, TypeOK

(* A thread that leaves counts once less.                                  *)
LEMMA AliveShrinks ==
    ASSUME TypeOK, CountExact, NEW t \in Threads, life[t] = "exiting",
           life' = [life EXCEPT ![t] = "gone"], threadCount' = threadCount - 1
    PROVE  CountExact' /\ threadCount' \in Nat
<1>1. Alive \subseteq Threads /\ IsFiniteSet(Alive)
  BY FiniteAssumption, FS_Subset DEF Alive
<1>2. Alive' = Alive \ {t} /\ t \in Alive
  BY DEF Alive, TypeOK
<1>3. /\ Cardinality(Alive \ {t}) = Cardinality(Alive) - 1
      /\ Cardinality(Alive \ {t}) \in Nat
  BY <1>1, <1>2, FS_RemoveElement, FS_CardinalityType
<1> QED BY <1>2, <1>3 DEF CountExact, TypeOK

(* The count does not change while a thread stays alive.                   *)
LEMMA AliveKept ==
    ASSUME TypeOK, CountExact, UNCHANGED threadCount,
           \/ UNCHANGED life
           \/ \E t \in Threads, l \in {"ready", "running", "waiting", "exiting"} :
                /\ life[t] \notin {"new", "gone"}
                /\ life' = [life EXCEPT ![t] = l]
    PROVE  CountExact'
<1>1. Alive' = Alive
  BY DEF Alive, TypeOK
<1> QED BY <1>1 DEF CountExact

(* A count of zero means that nothing is left.                             *)
LEMMA NobodyAlive ==
    ASSUME TypeOK, CountExact, threadCount = 0
    PROVE  \A t \in Threads : life[t] \in {"new", "gone"}
<1>1. Alive \subseteq Threads /\ IsFiniteSet(Alive)
  BY FiniteAssumption, FS_Subset DEF Alive
<1>2. Alive = {}
  BY <1>1, FS_EmptySet DEF CountExact
<1> QED BY <1>2 DEF Alive

-----------------------------------------------------------------------------
(* The inductive invariant.                                                *)

(* A new scheduler has no workers and no threads.                          *)
LEMMA InitIInv == Init => IInv
<1> SUFFICES ASSUME Init PROVE IInv
  OBVIOUS
<1>1. Pool = {} /\ Alive = {}
  BY DEF Init, Pool, Alive
<1> QED
  BY <1>1, FS_EmptySet, NamesAssumption
  DEF Init, IInv, TypeOK, CountExact, WorkersRun, StopSound, JoinSound,
      StoppedOnlyWhenAllGone, CheckerAlive, Lives, None, Polling, Returned

(* start with no workers: there is no check timer either, so there will be
   one.                                                                    *)
LEMMA StartIInv ==
    ASSUME IInv, NEW W \in (SUBSET WorkerIds) \ {{}}, Start(W)
    PROVE  IInv'
<1> USE DEF IInv, None, Polling, Returned
<1>1. /\ Pool = {} /\ main = "free"
      /\ checks' = checks + 1
      /\ worker' = [w \in WorkerIds |-> IF w \in W THEN Polling ELSE None]
      /\ UNCHANGED <<started, threadCount, stopped, life, main>>
  BY DEF Start
<1>2. Pool' = W /\ W # {}
  BY <1>1 DEF Pool
<1>3. checks = 0 /\ ~stopped
  BY <1>1 DEF CheckerAlive, StopSound
<1>4. TypeOK'
  BY <1>1 DEF TypeOK
<1>5. CountExact'
  BY <1>1, AliveKept
<1>6. WorkersRun'
  BY <1>1, NamesAssumption DEF WorkersRun
<1>7. StopSound' /\ JoinSound' /\ StoppedOnlyWhenAllGone'
  BY <1>1, <1>3 DEF StopSound, JoinSound, StoppedOnlyWhenAllGone
<1>8. CheckerAlive'
  BY <1>1, <1>2, <1>3 DEF CheckerAlive
<1> QED BY <1>4, <1>5, <1>6, <1>7, <1>8

(* A further worker, once there is one.                                    *)
LEMMA AddThreadIInv ==
    ASSUME IInv, NEW w \in WorkerIds, AddThread(w), Pool # {}
    PROVE  IInv'
<1> USE DEF IInv, None, Polling, Returned
<1>1. /\ worker[w] = None
      /\ worker' = [worker EXCEPT ![w] = Polling]
      /\ UNCHANGED <<started, threadCount, stopped, checks, life, main>>
  BY DEF AddThread
<1>2. Pool' # {}
  BY <1>1 DEF Pool, TypeOK
<1>3. TypeOK'
  BY <1>1 DEF TypeOK
<1>4. CountExact'
  BY <1>1, AliveKept
<1>5. WorkersRun'
  BY <1>1, NamesAssumption DEF WorkersRun, TypeOK
<1>6. StopSound' /\ JoinSound' /\ StoppedOnlyWhenAllGone'
  BY <1>1, <1>2 DEF StopSound, JoinSound, StoppedOnlyWhenAllGone, TypeOK
<1>7. CheckerAlive'
  BY <1>1, <1>2 DEF CheckerAlive
<1> QED BY <1>3, <1>4, <1>5, <1>6, <1>7

(* make_thread while the io_service is not stopped.                        *)
LEMMA MakeThreadIInv ==
    ASSUME IInv, NEW t \in Threads, MakeThread(t), ~stopped
    PROVE  IInv'
<1> USE DEF IInv
<1>1. /\ life[t] = "new"
      /\ threadCount' = threadCount + 1
      /\ started'
      /\ started' \in BOOLEAN
      /\ life' = [life EXCEPT ![t] = "ready"]
      /\ UNCHANGED <<stopped, checks, worker, main>>
  BY DEF MakeThread
<1>2. CountExact' /\ threadCount' \in Nat
  BY <1>1, AliveGrows
<1>3. TypeOK'
  BY <1>1, <1>2 DEF TypeOK, Lives
<1>4. WorkersRun'
  BY <1>1 DEF WorkersRun, TypeOK
<1>5. Pool' = Pool
  BY <1>1 DEF Pool
<1>6. /\ StopSound' /\ JoinSound' /\ StoppedOnlyWhenAllGone'
      /\ CheckerAlive'
  BY <1>1, <1>5 DEF StopSound, JoinSound, StoppedOnlyWhenAllGone, CheckerAlive
<1> QED BY <1>2, <1>3, <1>4, <1>6

(* The steps of the main program inside join.                              *)
LEMMA JoinIInv ==
    ASSUME IInv, (Pool # {} /\ Join) \/ Recheck \/ SpuriousWake
    PROVE  IInv'
<1> USE DEF IInv
<1>1. /\ Pool # {}
      /\ main' \in {"asleep", "woken", "joining"}
      /\ UNCHANGED <<started, threadCount, stopped, checks, life, worker>>
  BY DEF JoinSound, Join, Recheck, SpuriousWake, TestCount
<1>2. Pool' = Pool
  BY <1>1 DEF Pool
<1>3. TypeOK' /\ WorkersRun' /\ StopSound' /\ JoinSound'
      /\ StoppedOnlyWhenAllGone' /\ CheckerAlive'
  BY <1>1, <1>2 DEF TypeOK, WorkersRun, StopSound, JoinSound,
                    StoppedOnlyWhenAllGone, CheckerAlive
<1>4. CountExact'
  BY <1>1, AliveKept
<1> QED BY <1>3, <1>4

(* The end of join: the workers returned, so the io_service was stopped and
   no check is pending any more.                                           *)
LEMMA JoinReturnsIInv ==
    ASSUME IInv, JoinReturns
    PROVE  IInv' /\ stopped
<1> USE DEF IInv, None, Polling, Returned
<1>1. /\ main = "joining"
      /\ \A w \in Pool : worker[w] = Returned
      /\ worker' = [w \in WorkerIds |-> None]
      /\ started' = FALSE /\ stopped' = FALSE /\ main' = "free"
      /\ UNCHANGED <<threadCount, checks, life>>
  BY DEF JoinReturns
<1>2. stopped
  BY <1>1 DEF JoinSound, StopSound, Pool
<1>3. checks = 0
  BY <1>2 DEF CheckerAlive
<1>4. Pool' = {}
  BY <1>1 DEF Pool
<1>5. CountExact'
  BY <1>1, AliveKept
<1>6. TypeOK' /\ WorkersRun' /\ StopSound' /\ JoinSound'
      /\ StoppedOnlyWhenAllGone' /\ CheckerAlive'
  BY <1>1, <1>3, <1>4, NamesAssumption
  DEF TypeOK, WorkersRun, StopSound, JoinSound, StoppedOnlyWhenAllGone,
      CheckerAlive
<1> QED BY <1>2, <1>5, <1>6

(* A worker takes a posted thread.                                         *)
LEMMA RunThreadIInv ==
    ASSUME IInv, NEW w \in WorkerIds, NEW t \in Threads, RunThread(w, t)
    PROVE  IInv'
<1> USE DEF IInv, None, Polling, Returned
<1>1. /\ worker[w] = Polling /\ ~stopped /\ life[t] = "ready"
      /\ life' = [life EXCEPT ![t] = "running"]
      /\ worker' = [worker EXCEPT ![w] = t]
      /\ UNCHANGED <<started, threadCount, stopped, checks, main>>
  BY DEF RunThread, Takes
<1>2. t \notin {None, Polling, Returned}
  BY NamesAssumption
<1>3. Pool' = Pool
  BY <1>1, <1>2 DEF Pool, TypeOK
<1>4. TypeOK'
  BY <1>1 DEF TypeOK, Lives
<1>5. CountExact'
  BY <1>1, AliveKept
<1>6. WorkersRun'
  BY <1>1, <1>2 DEF WorkersRun, TypeOK
<1>7. StopSound' /\ JoinSound' /\ StoppedOnlyWhenAllGone' /\ CheckerAlive'
  BY <1>1, <1>2, <1>3
  DEF StopSound, JoinSound, StoppedOnlyWhenAllGone, CheckerAlive, TypeOK
<1> QED BY <1>4, <1>5, <1>6, <1>7

(* The thread on a worker switches out.                                    *)
LEMMA SwitchOutIInv ==
    ASSUME IInv, NEW w \in WorkerIds, NEW l \in {"waiting", "ready", "exiting"},
           SwitchOut(w, l)
    PROVE  IInv'
<1> USE DEF IInv, None, Polling, Returned
<1> DEFINE t == worker[w]
<1>1. /\ t \in Threads
      /\ life' = [life EXCEPT ![t] = l]
      /\ worker' = [worker EXCEPT ![w] = Polling]
      /\ UNCHANGED <<started, threadCount, stopped, checks, main>>
  BY DEF SwitchOut
<1>2. /\ life[t] = "running"
      /\ t \notin {None, Polling, Returned}
      /\ \A v \in WorkerIds : worker[v] = t => v = w
  BY <1>1, NamesAssumption DEF WorkersRun
<1>3. ~stopped
  BY <1>1, <1>2 DEF StoppedOnlyWhenAllGone
<1> HIDE DEF t
<1>4. Pool' = Pool
  BY <1>1, <1>2 DEF Pool, TypeOK, t
<1>5. TypeOK'
  BY <1>1 DEF TypeOK, Lives
<1>6. CountExact'
  BY <1>1, <1>2, AliveKept
<1>7. WorkersRun'
  BY <1>1, <1>2, NamesAssumption DEF WorkersRun, TypeOK
<1>8. StopSound' /\ JoinSound' /\ StoppedOnlyWhenAllGone' /\ CheckerAlive'
  BY <1>1, <1>3, <1>4
  DEF StopSound, JoinSound, StoppedOnlyWhenAllGone, CheckerAlive, TypeOK
<1> QED BY <1>5, <1>6, <1>7, <1>8

(* An asynchronous operation completes, or a thread is through.            *)
LEMMA HandlerIInv ==
    ASSUME IInv, NEW w \in WorkerIds, NEW t \in Threads,
           Completes(w, t) \/ OnThreadExit(w, t)
    PROVE  IInv'
<1> USE DEF IInv
<1>1. /\ ~stopped /\ life[t] \in {"waiting", "exiting"}
      /\ UNCHANGED <<started, stopped, checks, worker, main>>
  BY DEF Completes, OnThreadExit, Takes
<1>2. Pool' = Pool
  BY <1>1 DEF Pool
<1>3. CountExact' /\ threadCount' \in Nat
  <2>1. CASE Completes(w, t)
    BY <2>1, AliveKept DEF Completes, TypeOK
  <2>2. CASE OnThreadExit(w, t)
    BY <2>2, AliveShrinks DEF OnThreadExit
  <2> QED BY <2>1, <2>2
<1>4. /\ life' \in [Threads -> Lives]
      /\ \A u \in Threads : life[u] = "running" => life'[u] = "running"
  BY <1>1 DEF Completes, OnThreadExit, TypeOK, Lives
<1>5. TypeOK' /\ WorkersRun' /\ StopSound' /\ JoinSound'
      /\ StoppedOnlyWhenAllGone' /\ CheckerAlive'
  BY <1>1, <1>2, <1>3, <1>4
  DEF TypeOK, WorkersRun, StopSound, JoinSound, StoppedOnlyWhenAllGone,
      CheckerAlive
<1> QED BY <1>3, <1>5

(* on_check_timer stops the io_service: the count is zero.                 *)
LEMMA StopIInv ==
    ASSUME IInv, NEW w \in WorkerIds, Stop(w)
    PROVE  IInv'
<1> USE DEF IInv, None, Polling, Returned
<1>1. /\ worker[w] = Polling /\ ~stopped /\ started
      /\ threadCount = 0
      /\ checks' = checks - 1
      /\ stopped' = TRUE
      /\ main' = IF main = "asleep" THEN "woken" ELSE main
      /\ UNCHANGED <<started, threadCount, life, worker>>
  BY DEF Stop, Takes
<1>2. Pool' = Pool /\ Pool # {}
  BY <1>1 DEF Pool
<1>3. checks = 1
  BY <1>1, <1>2 DEF CheckerAlive
<1>4. CountExact'
  BY <1>1, AliveKept
<1>5. StoppedOnlyWhenAllGone'
  BY <1>1, NobodyAlive DEF StoppedOnlyWhenAllGone
<1>6. TypeOK' /\ WorkersRun' /\ StopSound' /\ JoinSound' /\ CheckerAlive'
  BY <1>1, <1>2, <1>3
  DEF TypeOK, WorkersRun, StopSound, JoinSound, CheckerAlive
<1> QED BY <1>4, <1>5, <1>6

(* A worker returns from the stopped io_service.                           *)
LEMMA ReturnIInv ==
    ASSUME IInv, NEW w \in WorkerIds, Return(w)
    PROVE  IInv'
<1> USE DEF IInv, None, Polling, Returned
<1>1. /\ worker[w] = Polling /\ stopped
      /\ worker' = [worker EXCEPT ![w] = Returned]
      /\ UNCHANGED <<started, threadCount, stopped, checks, life, main>>
  BY DEF Return
<1>2. Pool' = Pool
  BY <1>1 DEF Pool, TypeOK
<1>3. CountExact'
  BY <1>1, AliveKept
<1>4. WorkersRun'
  BY <1>1, NamesAssumption DEF WorkersRun, TypeOK
<1>5. TypeOK' /\ StopSound' /\ JoinSound' /\ StoppedOnlyWhenAllGone'
      /\ CheckerAlive'
  BY <1>1, <1>2
  DEF TypeOK, StopSound, JoinSound, StoppedOnlyWhenAllGone, CheckerAlive
<1> QED BY <1>3, <1>4, <1>5

(* Every step keeps the invariant.                                         *)
LEMMA NextIInv == IInv /\ [Next]_vars => IInv'
<1> SUFFICES ASSUME IInv, [Next]_vars PROVE IInv'
  OBVIOUS
<1>1. CASE Main
  <2>1. ASSUME NEW t \in Threads, CreateFirst(t) PROVE IInv'
    BY <2>1, MakeThreadIInv DEF CreateFirst, IInv, StopSound
  <2>2. ASSUME NEW w \in WorkerIds, GrowFromOutside(w) PROVE IInv'
    BY <2>2, AddThreadIInv DEF GrowFromOutside
  <2> QED BY <1>1, <2>1, <2>2, StartIInv, JoinIInv DEF Main, JoinStarted
<1>2. CASE JoinSteps \/ SpuriousWake
  BY <1>2, JoinIInv, JoinReturnsIInv DEF JoinSteps
<1>3. ASSUME NEW w \in WorkerIds, Inside(w) \/ Ends(w) PROVE IInv'
  <2>1. ASSUME worker[w] \in Threads PROVE ~stopped /\ Pool # {}
    BY <2>1, NamesAssumption
    DEF IInv, WorkersRun, StoppedOnlyWhenAllGone, Pool, None
  <2>2. ASSUME NEW t \in Threads, CreateInside(w, t) PROVE IInv'
    BY <2>1, <2>2, MakeThreadIInv DEF CreateInside
  <2>3. ASSUME NEW v \in WorkerIds, GrowFromInside(w, v) PROVE IInv'
    BY <2>1, <2>3, AddThreadIInv DEF GrowFromInside
  <2>4. CASE Waits(w) \/ Yields(w) \/ Ends(w)
    BY <2>4, SwitchOutIInv DEF Waits, Yields, Ends
  <2> QED BY <1>3, <2>2, <2>3, <2>4 DEF Inside
<1>4. CASE UNCHANGED vars
  <2>1. CountExact'
    BY <1>4, AliveKept DEF vars, IInv
  <2>2. Pool' = Pool
    BY <1>4 DEF vars, Pool
  <2> QED
    BY <1>4, <2>1, <2>2
    DEF vars, IInv, TypeOK, WorkersRun, StopSound, JoinSound,
        StoppedOnlyWhenAllGone, CheckerAlive
<1>5. ASSUME NEW w \in WorkerIds, Timers(w) \/ Return(w) PROVE IInv'
  BY <1>4, <1>5, StopIInv, ReturnIInv DEF Timers, Rearm
<1>6. ASSUME NEW w \in WorkerIds, NEW t \in Threads,
             RunThread(w, t) \/ Completes(w, t) \/ OnThreadExit(w, t)
      PROVE  IInv'
  BY <1>6, RunThreadIInv, HandlerIInv
<1> QED BY <1>1, <1>2, <1>3, <1>4, <1>5, <1>6 DEF Next

-----------------------------------------------------------------------------
(* The theorems.                                                           *)

(* The invariant holds in every reachable state.                           *)
LEMMA Invariance == Spec => []IInv
BY InitIInv, NextIInv, PTL DEF Spec

(* Every variable stays in its domain; the count never becomes negative.   *)
THEOREM SchedulerTypeCorrect == Spec => []TypeOK
<1>1. IInv => TypeOK
  BY DEF IInv
<1> QED BY <1>1, Invariance, PTL

(* on_check_timer never stops the io_service under a thread that still has
   something to run.                                                       *)
THEOREM SchedulerStopsLast == Spec => []StoppedOnlyWhenAllGone
<1>1. IInv => StoppedOnlyWhenAllGone
  BY DEF IInv
<1> QED BY <1>1, Invariance, PTL

(* While workers run, exactly one check is pending until the io_service is
   stopped.                                                                *)
THEOREM SchedulerChecks == Spec => []CheckerAlive
<1>1. IInv => CheckerAlive
  BY DEF IInv
<1> QED BY <1>1, Invariance, PTL

(* join returns only when every green thread is through.                   *)
THEOREM SchedulerJoinWaits == Spec => JoinWaitsForAll
<1> DEFINE Waited == main # "free" /\ main' = "free"
                       => \A t \in Threads : life[t] \in {"new", "gone"}
<1>1. IInv /\ [Next]_vars => [Waited]_vars
  <2> SUFFICES ASSUME IInv, Next, main # "free", main' = "free"
               PROVE  \A t \in Threads : life[t] \in {"new", "gone"}
    BY DEF Waited
  <2>1. JoinReturns
    BY DEF Next, Main, JoinSteps, Start, CreateFirst, MakeThread,
           GrowFromOutside, AddThread, JoinStarted, Join, TestCount, Recheck,
           SpuriousWake, Inside, CreateInside, GrowFromInside, Waits, Yields,
           Ends, SwitchOut, Timers, Rearm, Stop, vars, Return, RunThread,
           Completes, OnThreadExit
  <2> QED BY <2>1, JoinReturnsIInv DEF IInv, StoppedOnlyWhenAllGone
<1> QED BY <1>1, Invariance, PTL DEF Spec, JoinWaitsForAll
=============================================================================
