---------------------------- MODULE ThreadObject ----------------------------
(***************************************************************************)
(* The life of green threads: thread_object.cpp over one asio io_service.  *)
(*                                                                         *)
(* Every green thread owns, or shares with its parent, a strand.  A strand *)
(* is a FIFO queue of handlers of which at most one runs at a time; the    *)
(* handlers are activate_thread, thread_object::detach and                 *)
(* scheduler_object::on_thread_exit.  one_step runs the coroutine of the   *)
(* thread inside an activate_thread handler until the coroutine switches   *)
(* out, and then acts on the state it left.                                *)
(*                                                                         *)
(* Sections of code under a spinlock are one step: the state they read and *)
(* write is touched only under the same lock, except state_, whose STOPPED *)
(* store is a step of its own (Finish) before the lock of                  *)
(* DrainJoinQueue is taken.                                                *)
(***************************************************************************)
EXTENDS Naturals, Sequences, FiniteSets

CONSTANTS Threads,      \* the green threads that may be created
          NoThread,     \* no green thread
          Workers       \* number of native worker threads, threads_.size()

ASSUME ThreadsAssumption == NoThread \notin Threads
ASSUME WorkersAssumption == Workers \in Nat \ {0}

VARIABLES state,        \* state_ of each thread, "NEW" before construction
          strand,       \* thread_strand_, named by the thread it was made for
          queue,        \* handlers waiting on each strand
          exec,         \* the handler each strand is executing
          timers,       \* threads whose sleep timer is pending
          waitFor,      \* what the coroutine of t waits for in pause()
          joinQueue,    \* join_queue_: the threads to activate at the end
          handle,       \* some boost::green_thread::thread refers to t
          thisRef,      \* this_ref_ is set
          threadCount   \* scheduler_object::thread_count_

vars == <<state, strand, queue, exec, timers, waitFor, joinQueue, handle,
          thisRef, threadCount>>

(* A strand that runs no handler, and the phases of one_step: the coroutine
   is on the worker ("user"), it has registered its wake-up and is about to
   switch out ("pausing"), it has switched out ("out"), it has ended
   ("stopped") and its joiners are being activated ("notify").            *)
Idle == [thread |-> NoThread, phase |-> "idle", temp |-> <<>>]
Phases == {"idle", "user", "pausing", "out", "stopped", "notify"}

Nothing == [on |-> "nothing", thread |-> NoThread]
Timer == [on |-> "timer", thread |-> NoThread]
Joining(f) == [on |-> "join", thread |-> f]

Activate(t) == [kind |-> "activate", thread |-> t]

Created(t) == state[t] # "NEW"
Executing(t) == /\ Created(t)
                /\ exec[strand[t]].thread = t
InPhase(t, phase) == Executing(t) /\ exec[strand[t]].phase = phase

(* The coroutine of t is on a worker and free to call the library.        *)
Running(t) == InPhase(t, "user") /\ waitFor[t] = Nothing

Init == /\ state = [t \in Threads |-> "NEW"]
        /\ strand = [t \in Threads |-> t]
        /\ queue = [s \in Threads |-> <<>>]
        /\ exec = [s \in Threads |-> Idle]
        /\ timers = {}
        /\ waitFor = [t \in Threads |-> Nothing]
        /\ joinQueue = [t \in Threads |-> <<>>]
        /\ handle = [t \in Threads |-> FALSE]
        /\ thisRef = [t \in Threads |-> FALSE]
        /\ threadCount = 0

-----------------------------------------------------------------------------
(* Posting to strands and occupying workers.                               *)

Post(s, h) == queue' = [queue EXCEPT ![s] = Append(@, h)]

(* thread_object::resume: post activate_thread on the strand of t.         *)
Resume(t) == Post(strand[t], Activate(t))

FreeWorker == Cardinality({s \in Threads : exec[s] # Idle}) < Workers

(* asio takes the oldest handler of an idle strand on a free worker.       *)
Dispatch(s, kind) == /\ exec[s] = Idle
                     /\ FreeWorker
                     /\ queue[s] # <<>>
                     /\ Head(queue[s]).kind = kind
                     /\ queue' = [queue EXCEPT ![s] = Tail(@)]

-----------------------------------------------------------------------------
(* Creation.                                                               *)

(* scheduler_object::make_thread: count the thread, construct it on its
   strand and post its first activation.                                   *)
MakeThread(u, s) == /\ state[u] = "NEW"
                    /\ threadCount' = threadCount + 1
                    /\ state' = [state EXCEPT ![u] = "READY"]
                    /\ strand' = [strand EXCEPT ![u] = s]
                    /\ handle' = [handle EXCEPT ![u] = TRUE]
                    /\ Post(s, Activate(u))
                    /\ UNCHANGED <<exec, timers, waitFor, joinQueue, thisRef>>

(* thread::start from outside every green thread.                          *)
StartFromOutside(u) == MakeThread(u, u)

(* thread::start in a green thread: the new thread gets a strand of its own,
   or the strand of its parent when the policy is stick_with_parent.       *)
StartNormal(t, u) == Running(t) /\ MakeThread(u, u)
StartSticky(t, u) == Running(t) /\ MakeThread(u, strand[t])

-----------------------------------------------------------------------------
(* What the coroutine of a running thread calls.                           *)

Register(t, w) == /\ waitFor' = [waitFor EXCEPT ![t] = w]
                  /\ exec' = [exec EXCEPT ![strand[t]].phase = "pausing"]

(* Variant: join registers without looking at state_.                      *)
JoinWaitUnchecked(t, f) ==
    /\ Running(t)
    /\ t # f
    /\ handle[f]
    /\ joinQueue' = [joinQueue EXCEPT ![f] = Append(@, t)]
    /\ Register(t, Joining(f))
    /\ UNCHANGED <<state, strand, queue, timers, handle, thisRef, threadCount>>

(* thread_object::join when f has not stopped: under f->mtx_ the caller is
   put on join_queue_, then pause() is entered with the lock released.     *)
JoinWait(t, f) == /\ Running(t)
                  /\ t # f
                  /\ handle[f]
                  /\ state[f] # "STOPPED"
                  /\ joinQueue' = [joinQueue EXCEPT ![f] = Append(@, t)]
                  /\ Register(t, Joining(f))
                  /\ UNCHANGED <<state, strand, queue, timers, handle,
                                 thisRef, threadCount>>

(* sleep_rel: start the timer and pause.                                   *)
Sleep(t) == /\ Running(t)
            /\ timers' = timers \cup {t}
            /\ Register(t, Timer)
            /\ UNCHANGED <<state, strand, queue, joinQueue, handle, thisRef,
                           threadCount>>

(* pause: the coroutine switches out with BLOCKED and one_step stores it.  *)
SwitchOut(t) == /\ InPhase(t, "pausing")
                /\ state' = [state EXCEPT ![t] = "BLOCKED"]
                /\ exec' = [exec EXCEPT ![strand[t]].phase = "out"]
                /\ UNCHANGED <<strand, queue, timers, waitFor, joinQueue,
                               handle, thisRef,
                               threadCount>>

(* The rest of pause and of the call that made it, after the activation.   *)
PauseReturns(t) == /\ InPhase(t, "user")
                   /\ waitFor[t] # Nothing
                   /\ waitFor' = [waitFor EXCEPT ![t] = Nothing]
                   /\ UNCHANGED <<state, strand, queue, exec, timers,
                                  joinQueue, handle,
                                  thisRef, threadCount>>

(* yield switches out unless none of its four conditions holds; hint is
   the thread a mutex was handed to, or NoThread for this_thread::yield.   *)
YieldSwitches(t, hint) == \/ Workers = 1
                          \/ threadCount > 2 * Workers
                          \/ hint = NoThread
                          \/ hint # NoThread /\ strand[hint] = strand[t]

Yield(t, hint) == /\ Running(t)
                  /\ YieldSwitches(t, hint)
                  /\ state' = [state EXCEPT ![t] = "READY"]
                  /\ exec' = [exec EXCEPT ![strand[t]].phase = "out"]
                  /\ UNCHANGED <<strand, queue, timers, waitFor, joinQueue,
                                 handle, thisRef,
                                 threadCount>>

(* runner_wrapper returns from the entry function and switches out with
   STOPPED for the last time; one_step stores it, without a lock.          *)
Finish(t) == /\ Running(t)
             /\ state' = [state EXCEPT ![t] = "STOPPED"]
             /\ exec' = [exec EXCEPT ![strand[t]].phase = "stopped"]
             /\ UNCHANGED <<strand, queue, timers, waitFor, joinQueue, handle,
                            thisRef, threadCount>>

(* thread::detach, by any caller but the thread itself: the handle lets go
   and the rest happens in a handler of the thread's strand.               *)
Detach(f) == /\ handle[f]
             /\ handle' = [handle EXCEPT ![f] = FALSE]
             /\ Post(strand[f], [kind |-> "detach", thread |-> f])
             /\ UNCHANGED <<state, strand, exec, timers, waitFor, joinQueue,
                            thisRef, threadCount>>

(* The handle is destroyed without join or detach.                         *)
DropHandle(f) == /\ handle[f]
                 /\ handle' = [handle EXCEPT ![f] = FALSE]
                 /\ UNCHANGED <<state, strand, queue, exec, timers, waitFor,
                                joinQueue, thisRef,
                                threadCount>>

-----------------------------------------------------------------------------
(* The handlers, as the workers run them.                                  *)

(* activate_thread and the head of one_step: READY, RUNNING, and into the
   coroutine, whatever state_ was before.                                  *)
RunActivate(s) == /\ Dispatch(s, "activate")
                  /\ LET t == Head(queue[s]).thread
                     IN  /\ state' = [state EXCEPT ![t] = "RUNNING"]
                         /\ exec' = [exec EXCEPT ![s] =
                              [thread |-> t, phase |-> "user", temp |-> <<>>]]
                  /\ UNCHANGED <<strand, timers, waitFor, joinQueue, handle,
                                 thisRef, threadCount>>

(* Variant: everything that has not stopped is posted again.               *)
RepostAlive(s) == /\ exec[s].phase = "out"
                  /\ Resume(exec[s].thread)
                  /\ exec' = [exec EXCEPT ![s] = Idle]
                  /\ UNCHANGED <<state, strand, timers, waitFor, joinQueue,
                                 handle, thisRef, threadCount>>

(* The tail of one_step for a thread that yielded: post it again.          *)
RepostReady(s) == /\ exec[s].phase = "out"
                  /\ state[exec[s].thread] = "READY"
                  /\ Resume(exec[s].thread)
                  /\ exec' = [exec EXCEPT ![s] = Idle]
                  /\ UNCHANGED <<state, strand, timers, waitFor, joinQueue,
                                 handle, thisRef,
                                 threadCount>>

(* The tail of one_step for a thread that paused: nothing is left to do.   *)
LeaveBlocked(s) == /\ exec[s].phase = "out"
                   /\ state[exec[s].thread] = "BLOCKED"
                   /\ exec' = [exec EXCEPT ![s] = Idle]
                   /\ UNCHANGED <<state, strand, queue, timers, waitFor,
                                  joinQueue, handle,
                                  thisRef, threadCount>>

(* The tail of one_step for a thread that stopped: move join_queue_ out
   under mtx_ ...                                                          *)
DrainJoinQueue(s) ==
    /\ exec[s].phase = "stopped"
    /\ LET t == exec[s].thread
       IN  /\ exec' = [exec EXCEPT ![s] = [thread |-> t, phase |-> "notify",
                                           temp |-> joinQueue[t]]]
           /\ joinQueue' = [joinQueue EXCEPT ![t] = <<>>]
    /\ UNCHANGED <<state, strand, queue, timers, waitFor, handle, thisRef,
                   threadCount>>

(* ... call each of its functions: activate() of a joiner, which outside
   every green thread is resume() ...                                      *)
ActivateJoiner(s) ==
    /\ exec[s].phase = "notify"
    /\ exec[s].temp # <<>>
    /\ Resume(Head(exec[s].temp))
    /\ exec' = [exec EXCEPT ![s].temp = Tail(@)]
    /\ UNCHANGED <<state, strand, timers, waitFor, joinQueue, handle, thisRef,
                   threadCount>>

(* ... and post on_thread_exit on the strand.                              *)
PostExit(s) == /\ exec[s].phase = "notify"
               /\ exec[s].temp = <<>>
               /\ Post(s, [kind |-> "exit", thread |-> exec[s].thread])
               /\ exec' = [exec EXCEPT ![s] = Idle]
               /\ UNCHANGED <<state, strand, timers, waitFor, joinQueue,
                              handle, thisRef, threadCount>>

(* thread_object::detach: keep the thread alive until it exits, unless it
   has stopped already.                                                    *)
RunDetach(s) ==
    /\ Dispatch(s, "detach")
    /\ LET t == Head(queue[s]).thread
       IN  thisRef' = [thisRef EXCEPT ![t] = @ \/ state[t] # "STOPPED"]
    /\ UNCHANGED <<state, strand, exec, timers, waitFor, joinQueue, handle,
                   threadCount>>

(* Variant: the exit is not counted.                                       *)
RunExitUncounted(s) ==
    /\ Dispatch(s, "exit")
    /\ thisRef' = [thisRef EXCEPT ![Head(queue[s]).thread] = FALSE]
    /\ UNCHANGED <<state, strand, exec, timers, waitFor, joinQueue, handle,
                   threadCount>>

(* scheduler_object::on_thread_exit.                                       *)
RunExit(s) ==
    /\ Dispatch(s, "exit")
    /\ threadCount' = threadCount - 1
    /\ thisRef' = [thisRef EXCEPT ![Head(queue[s]).thread] = FALSE]
    /\ UNCHANGED <<state, strand, exec, timers, waitFor, joinQueue, handle>>

(* Variant: the timer handler activates its thread and starts over.        *)
TimerRepeats(t) == /\ t \in timers
                   /\ Len(queue[strand[t]]) < 3
                   /\ Resume(t)
                   /\ UNCHANGED <<state, strand, exec, timers, waitFor,
                                  joinQueue, handle, thisRef, threadCount>>

(* A sleep timer expires; its handler, outside every green thread, calls
   activate(), which there is resume().                                    *)
TimerFires(t) == /\ t \in timers
                 /\ timers' = timers \ {t}
                 /\ Resume(t)
                 /\ UNCHANGED <<state, strand, exec, waitFor, joinQueue,
                                handle, thisRef, threadCount>>

-----------------------------------------------------------------------------
(* The environment starts, detaches and drops threads; a running coroutine
   calls the library; workers run handlers.                                *)

SwitchingCall(t) == \/ \E f \in Threads : JoinWait(t, f)
                    \/ Sleep(t)
                    \/ \E hint \in {h \in Threads : Created(h)} \cup {NoThread} :
                          Yield(t, hint)
                    \/ Finish(t)

Coroutine(t) == SwitchOut(t) \/ PauseReturns(t)

FinishStep(s) == \/ RepostReady(s) \/ LeaveBlocked(s) \/ DrainJoinQueue(s)
            \/ ActivateJoiner(s) \/ PostExit(s)

Take(s) == RunActivate(s) \/ RunDetach(s) \/ RunExit(s)

Next == \/ \E u \in Threads : StartFromOutside(u)
        \/ \E t, u \in Threads : StartNormal(t, u) \/ StartSticky(t, u)
        \/ \E f \in Threads : Detach(f) \/ DropHandle(f)
        \/ \E t \in Threads : SwitchingCall(t) \/ Coroutine(t)
        \/ \E s \in Threads : Take(s) \/ FinishStep(s)
        \/ \E t \in Threads : TimerFires(t)

Spec == Init /\ [][Next]_vars

-----------------------------------------------------------------------------
(* Properties.                                                             *)

Live(t) == state[t] \notin {"NEW", "STOPPED"}

(* one_step has taken join_queue_ of f for the last time.                  *)
Drained(f) == state[f] = "STOPPED" /\ ~InPhase(f, "stopped")

(* The places that will make t run next: itself, while it runs or is about
   to be posted again, its timer, a handler on a strand, the join_queue_ of
   a thread, or such a queue moved out by one_step.                        *)
Positions(q, x) == {i \in DOMAIN q : q[i] = x}

Activations(t) ==
    {p \in {<<"self", t, 0>>} : \/ InPhase(t, "user")
                                \/ InPhase(t, "out") /\ state[t] = "READY"}
    \cup {p \in {<<"timer", t, 0>>} : t \in timers}
    \cup (UNION {{"handler"} \X {s} \X Positions(queue[s], Activate(t)) :
                   s \in Threads})
    \cup (UNION {{"joinQueue"} \X {f} \X Positions(joinQueue[f], t) :
                   f \in {u \in Threads : ~Drained(u)}})
    \cup (UNION {{"temp"} \X {s} \X Positions(exec[s].temp, t) : s \in Threads})

(* A live thread will be run by exactly one place, a stopped one by none:
   no wake-up is lost while a thread is between registering for it and
   switching out, none is given twice, and activate_thread never sets a
   finished thread READY and enters its coroutine again.                   *)
OneActivation == \A t \in Threads :
                    Cardinality(Activations(t)) = (IF Live(t) THEN 1 ELSE 0)

Exited(t) == /\ state[t] = "STOPPED"
             /\ ~Executing(t)
             /\ \A s \in Threads :
                   Positions(queue[s], [kind |-> "exit", thread |-> t]) = {}

(* The scheduler's count, on which it decides to stop its workers, is the
   number of threads created and not yet through on_thread_exit.           *)
ThreadCountExact ==
    threadCount = Cardinality({t \in Threads : Created(t) /\ ~Exited(t)})

(* However detach() and the end of the thread are ordered, a thread that is
   through on_thread_exit keeps no reference to itself (it would leak).    *)
SelfReferenceReleased == \A t \in Threads : Exited(t) => ~thisRef[t]

(* Both: on_thread_exit settles each thread's account exactly once.        *)
ExitAccounted == ThreadCountExact /\ SelfReferenceReleased

(* join() returns only when the joined thread has stopped.                 *)
JoinWaitsForEnd ==
    [][\A t, f \in Threads :
         waitFor[t] = Joining(f) /\ waitFor'[t] = Nothing
            => state[f] = "STOPPED"]_vars

(* The abstract contract, seen through this refinement mapping.            *)
ctx == [t \in Threads |->
          IF state[t] = "NEW" THEN "absent"
          ELSE IF state[t] = "STOPPED" THEN "ended"
          ELSE IF InPhase(t, "user") THEN "running"
          ELSE IF InPhase(t, "pausing") THEN "parking"
          ELSE "parked"]
wake == [t \in Threads |-> Positions(queue[strand[t]], Activate(t)) # {}]

Contract == INSTANCE Suspension

(* Threads are suspended and activated as Suspension says.                 *)
ImplementsSuspension == Contract!Spec

=============================================================================
