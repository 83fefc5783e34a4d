------------------------------ MODULE Scheduler ------------------------------
(***************************************************************************)
(* scheduler_object: the worker pool, the count of green threads, the      *)
(* check timer that stops the io_service when the count is zero, and join. *)
(*                                                                         *)
(* One native thread, the main program, starts the scheduler, creates      *)
(* green threads from outside and joins it, possibly several times in      *)
(* turn.  The inside of a green thread is reduced to when it runs on a     *)
(* worker, waits for an asynchronous operation, and ends; ThreadObject has *)
(* the details.  Code under mtx_ is one step.                              *)
(***************************************************************************)
EXTENDS Naturals, FiniteSets

CONSTANTS Threads,      \* the green threads that may be created
          WorkerIds     \* the native threads that may join the pool

ASSUME FiniteAssumption == IsFiniteSet(Threads) /\ IsFiniteSet(WorkerIds)
ASSUME NamesAssumption ==
    Threads \cap {"none", "polling", "returned"} = {}

VARIABLES started,      \* started_
          threadCount,  \* thread_count_
          stopped,      \* io_service_ has been stopped and not yet reset
          checks,       \* pending waits of check_timer
          life,         \* where each green thread is
          worker,       \* what each native thread of threads_ does
          main          \* where the main program is in join()

vars == <<started, threadCount, stopped, checks, life, worker, main>>

(* new, activation posted, on a worker, waiting for an asynchronous
   operation, on_thread_exit posted, through on_thread_exit.               *)
Lives == {"new", "ready", "running", "waiting", "exiting", "gone"}

(* not in the pool, polling, has returned from io_service::run; a worker in
   the middle of an activate_thread handler is the thread it runs.         *)
None == "none"
Polling == "polling"
Returned == "returned"

Pool == {w \in WorkerIds : worker[w] # None}

Init == /\ started = FALSE
        /\ threadCount = 0
        /\ stopped = FALSE
        /\ checks = 0
        /\ life = [t \in Threads |-> "new"]
        /\ worker = [w \in WorkerIds |-> None]
        /\ main = "free"

-----------------------------------------------------------------------------
(* The scheduler's interface.                                              *)

(* start: nothing when there are workers already; else arm the check timer
   and make the workers W.                                                 *)
Start(W) == /\ main = "free"
            /\ Pool = {}
            /\ checks' = checks + 1
            /\ worker' = [w \in WorkerIds |-> IF w \in W THEN Polling ELSE None]
            /\ UNCHANGED <<started, threadCount, stopped, life, main>>

(* add_thread, one worker at a time, called by the main program or by a
   green thread.                                                           *)
AddThread(w) == /\ worker[w] = None
                /\ worker' = [worker EXCEPT ![w] = Polling]
                /\ UNCHANGED <<started, threadCount, stopped, checks, life,
                               main>>

(* Variant: a thread made while the scheduler runs is not counted.         *)
MakeThreadUncounted(t) == /\ life[t] = "new"
                          /\ threadCount' = IF started THEN threadCount
                                                       ELSE threadCount + 1
                          /\ started' = TRUE
                          /\ life' = [life EXCEPT ![t] = "ready"]
                          /\ UNCHANGED <<stopped, checks, worker, main>>

MakeThread(t) == /\ life[t] = "new"
                 /\ threadCount' = threadCount + 1
                 /\ started' = TRUE
                 /\ life' = [life EXCEPT ![t] = "ready"]
                 /\ UNCHANGED <<stopped, checks, worker, main>>

(* join, first part: under mtx_, sleep on cv_ while there are threads.     *)
TestCount == main' = IF started /\ threadCount > 0 THEN "asleep" ELSE "joining"

Join == /\ main = "free"
        /\ TestCount
        /\ UNCHANGED <<started, threadCount, stopped, checks, life, worker>>

Recheck == /\ main = "woken"
           /\ TestCount
           /\ UNCHANGED <<started, threadCount, stopped, checks, life, worker>>

(* A condition variable may wake its waiter for no reason.                 *)
SpuriousWake == /\ main = "asleep"
                /\ main' = "woken"
                /\ UNCHANGED <<started, threadCount, stopped, checks, life,
                               worker>>

(* join, second part, without mtx_: join every native thread, forget them
   and make the io_service ready to run again.                             *)
JoinReturns == /\ main = "joining"
               /\ \A w \in Pool : worker[w] = Returned
               /\ worker' = [w \in WorkerIds |-> None]
               /\ started' = FALSE
               /\ stopped' = FALSE
               /\ main' = "free"
               /\ UNCHANGED <<threadCount, checks, life>>

-----------------------------------------------------------------------------
(* The workers: io_service::run hands handlers to polling workers until it
   is stopped.                                                             *)

Takes(w) == worker[w] = Polling /\ ~stopped

RunThread(w, t) == /\ Takes(w)
                   /\ life[t] = "ready"
                   /\ life' = [life EXCEPT ![t] = "running"]
                   /\ worker' = [worker EXCEPT ![w] = t]
                   /\ UNCHANGED <<started, threadCount, stopped, checks, main>>

(* The thread on w switches out: for an asynchronous operation, to be
   posted again, or for the last time with on_thread_exit posted.          *)
SwitchOut(w, l) == /\ worker[w] \in Threads
                   /\ life' = [life EXCEPT ![worker[w]] = l]
                   /\ worker' = [worker EXCEPT ![w] = Polling]
                   /\ UNCHANGED <<started, threadCount, stopped, checks, main>>
Waits(w) == SwitchOut(w, "waiting")
Yields(w) == SwitchOut(w, "ready")
Ends(w) == SwitchOut(w, "exiting")

(* The handler of a finished asynchronous operation posts its thread.      *)
Completes(w, t) == /\ Takes(w)
                   /\ life[t] = "waiting"
                   /\ life' = [life EXCEPT ![t] = "ready"]
                   /\ UNCHANGED <<started, threadCount, stopped, checks,
                                  worker, main>>

(* on_thread_exit.                                                         *)
OnThreadExit(w, t) == /\ Takes(w)
                      /\ life[t] = "exiting"
                      /\ life' = [life EXCEPT ![t] = "gone"]
                      /\ threadCount' = threadCount - 1
                      /\ UNCHANGED <<started, stopped, checks, worker, main>>

(* on_check_timer, for an expired timer: wait again while there are threads
   or there has been none yet, else stop the io_service and notify join.   *)
Rearm(w) == /\ Takes(w)
            /\ checks > 0
            /\ threadCount > 0 \/ ~started
            /\ UNCHANGED vars

(* Variants: it stops with a thread left, or does not notify.              *)
StopWithOneLeft(w) == /\ Takes(w)
                      /\ checks > 0
                      /\ threadCount <= 1
                      /\ started
                      /\ checks' = checks - 1
                      /\ stopped' = TRUE
                      /\ main' = IF main = "asleep" THEN "woken" ELSE main
                      /\ UNCHANGED <<started, threadCount, life, worker>>
StopSilently(w) == /\ Takes(w)
                   /\ checks > 0
                   /\ threadCount = 0
                   /\ started
                   /\ checks' = checks - 1
                   /\ stopped' = TRUE
                   /\ UNCHANGED <<started, threadCount, life, worker, main>>

Stop(w) == /\ Takes(w)
           /\ checks > 0
           /\ threadCount = 0
           /\ started
           /\ checks' = checks - 1
           /\ stopped' = TRUE
           /\ main' = IF main = "asleep" THEN "woken" ELSE main
           /\ UNCHANGED <<started, threadCount, life, worker>>

(* io_service::run returns: the io_service is stopped.  It does not return
   for lack of work, since the armed check timer is work.                  *)
Return(w) == /\ worker[w] = Polling
             /\ stopped
             /\ worker' = [worker EXCEPT ![w] = Returned]
             /\ UNCHANGED <<started, threadCount, stopped, checks, life, main>>

-----------------------------------------------------------------------------
(* The main program as the documentation asks: start, create the first
   green thread, join (this is also what greenify_with_sched does); the
   other green threads are created by green threads.                       *)

CreateFirst(t) == main = "free" /\ Pool # {} /\ ~started /\ MakeThread(t)
JoinStarted == Pool # {} /\ started /\ Join
CreateInside(w, t) == worker[w] \in Threads /\ MakeThread(t)
GrowFromOutside(w) == main = "free" /\ Pool # {} /\ AddThread(w)
GrowFromInside(v, w) == worker[v] \in Threads /\ AddThread(w)

Main == \/ \E W \in (SUBSET WorkerIds) \ {{}} : Start(W)
        \/ \E t \in Threads : CreateFirst(t)
        \/ \E w \in WorkerIds : GrowFromOutside(w)
        \/ JoinStarted

JoinSteps == Recheck \/ JoinReturns

Inside(w) == \/ \E t \in Threads : CreateInside(w, t)
             \/ \E v \in WorkerIds : GrowFromInside(w, v)
             \/ Waits(w) \/ Yields(w)

Timers(w) == Rearm(w) \/ Stop(w)

Next == \/ Main \/ JoinSteps \/ SpuriousWake
        \/ \E w \in WorkerIds :
             \/ Inside(w) \/ Ends(w) \/ Timers(w) \/ Return(w)
             \/ \E t \in Threads :
                  RunThread(w, t) \/ Completes(w, t) \/ OnThreadExit(w, t)

Spec == Init /\ [][Next]_vars

(***************************************************************************)
(* Fairness.  The native threads run: join goes on, workers return from a  *)
(* stopped io_service.  The io_service is FIFO, so whatever handler waits  *)
(* is taken in the end (strong, since workers may be busy in between), and *)
(* green threads end (what the caller of join must ensure).                *)
(***************************************************************************)
Fairness ==
    /\ WF_vars(Recheck) /\ WF_vars(JoinReturns)
    /\ \A w \in WorkerIds : WF_vars(Return(w)) /\ SF_vars(Ends(w))
    /\ SF_vars(\E w \in WorkerIds : Stop(w))
    /\ \A t \in Threads :
         /\ SF_vars(\E w \in WorkerIds : RunThread(w, t))
         /\ SF_vars(\E w \in WorkerIds : Completes(w, t))
         /\ SF_vars(\E w \in WorkerIds : OnThreadExit(w, t))

FairSpec == Spec /\ Fairness

-----------------------------------------------------------------------------
(* Properties.                                                             *)

(* Every variable stays in its domain.                                     *)
TypeOK == /\ started \in BOOLEAN
          /\ threadCount \in Nat
          /\ stopped \in BOOLEAN
          /\ checks \in Nat
          /\ life \in [Threads -> Lives]
          /\ worker \in [WorkerIds -> {None, Polling, Returned} \cup Threads]
          /\ main \in {"free", "asleep", "woken", "joining"}

(* on_check_timer stops the io_service only when no green thread is left,
   so that no posted thread, running thread or exit message is abandoned.  *)
StoppedOnlyWhenAllGone ==
    stopped => \A t \in Threads : life[t] \in {"new", "gone"}

(* As long as there are workers, exactly one wait of the check timer is
   pending or the io_service has been stopped, over any number of rounds
   of start and join: without it nobody would ever stop the workers.       *)
CheckerAlive == checks = (IF Pool # {} /\ ~stopped THEN 1 ELSE 0)

(* join() returns to the main program only when every green thread created
   in the scheduler is through on_thread_exit.                             *)
JoinWaitsForAll ==
    [][main # "free" /\ main' = "free"
         => \A t \in Threads : life[t] \in {"new", "gone"}]_vars

(* join() returns.                                                         *)
JoinTerminates == main # "free" ~> main = "free"
=============================================================================
