------------------------------- MODULE Future -------------------------------
(***************************************************************************)
(* promise, future and their shared_state, and what is built from futures: *)
(* wait_for_any and wait_for_all, which block, and async_wait_for_any,     *)
(* async_wait_for_all and then, which return the future of a promise that  *)
(* their callbacks fulfil; their caller gets that future next.             *)
(*                                                                         *)
(* A promise in Foreign may be fulfilled by a native thread, as the tasks  *)
(* of foreign_thread_pool are.  There mutex::lock returns at once and locks*)
(* nothing, so such a thread may act while a green thread, which has       *)
(* locked mtx_ and found the state not ready, is about to queue up: for    *)
(* this each wait is two steps here, of which the first keeps mtx_ locked. *)
(* A callback of wait_for_all does the same by notifying cv without its    *)
(* mutex.                                                                  *)
(***************************************************************************)
EXTENDS Waiters, FiniteSetsExt

CONSTANTS Promises, Foreign, None,
          MayCall      \* the calls that each thread makes

(* A thread makes one call.  It is "called", "about" to wait -- it has tested
   its condition --, or has "returned", "timed_out" or "threw".  The thread
   that fulfils a promise is "idle", has made it "ready" (a native one), runs
   the "callbacks", is "done", or "threw" on the way.                      *)
Single == {"get", "wait_for"}
Several == {"wait_for_any", "wait_for_all"}
Async == {"async_wait_for_any", "async_wait_for_all", "then"}
Calls == Single \cup Several \cup Async

ASSUME FutureAssumption == /\ Foreign \subseteq Promises
                           /\ Promises \cap Threads = {}
                           /\ None \notin Promises \cup Threads
                           /\ MayCall \in [Threads -> SUBSET Calls]

VARIABLES ready,     \* ready_ of each shared state
          waiters,   \* waiters_ of each shared state
          ext,       \* ext_waiters_: the threads whose callback is kept there
          setter,    \* how far the thread that fulfils each promise is
          native,    \* the promises that a native thread fulfils
          late,      \* those that got a callback while theirs were being run
          running,   \* the callback that each runner of callbacks is in
          call,      \* the call each green thread makes
          on,        \* the future of its get or wait_for
          at,        \* how far it is
          joined,    \* the futures its callback has been added to
          adding,    \* the one whose state it has locked to store it
          hits,      \* the futures whose callback has run for it
          ret,       \* ret of its any_state, or what its promise was given
          isSet      \* is_set_ of its async_any_state

states == <<ready, waiters, ext>>
setters == <<setter, native, late, running>>
several == <<joined, adding, hits, ret>>
callVars == <<call, on, at, several, isSet>>
vars == <<states, setters, callVars, status>>

(* A state is named by its promise or, for the promise that the callbacks of
   an asynchronous call fulfil, by the thread that made the call.  Callbacks
   are run by whoever fulfils a promise or, at once, by the caller.        *)
States == Promises \cup Threads
Runners == Promises \cup Threads
Task(t, p, step) == [call |-> t, from |-> p, step |-> step]
In(r, step) == running[r] # None /\ running[r].step = step

Init == /\ ready = [s \in States |-> FALSE]
        /\ waiters = [s \in States |-> <<>>]
        /\ ext = [p \in Promises |-> {}]
        /\ setter = [p \in Promises |-> "idle"]
        /\ native = {} /\ late = {}
        /\ running = [r \in Runners |-> None]
        /\ call = [t \in Threads |-> "none"]
        /\ on = [t \in Threads |-> None]
        /\ at = [t \in Threads |-> "called"]
        /\ joined = [t \in Threads |-> {}]
        /\ adding = [t \in Threads |-> None]
        /\ hits = [t \in Threads |-> {}]
        /\ ret = [t \in Threads |-> None]
        /\ isSet = [t \in Threads |-> FALSE]
        /\ status = [t \in Threads |-> "out"]

(* The futures that the callback of a call is added to, whether that is
   done, and the state that the call then waits for.                       *)
Sources(t) == {p \in Promises : \/ call[t] = "then" /\ on[t] = p
                                \/ call[t] \in (Several \cup Async) \ {"then"}}
Added(t) == joined[t] = Sources(t) /\ adding[t] = None /\ running[t] = None
Target(t) == IF call[t] \in Async THEN t ELSE on[t]

(* Variant: the test of add_external_waiter outside the lock.              *)
LocksToWait(t, s) == at[t] = "about" /\ call[t] \notin Several /\ Target(t) = s

(* mtx_ of state s is locked by a green thread between two steps.          *)
Locks(t, s) == \/ adding[t] = s
               \/ at[t] = "about" /\ call[t] \notin Several /\ Target(t) = s
Unlocked(s) == /\ \A t \in Threads : ~Locks(t, s)
               /\ \A r \in Runners \ native : In(r, "checked") => running[r].call # s

Goes(t, place) == at' = [at EXCEPT ![t] = place]

(* A call that is not waiting goes on, or is just back from its wait; and
   the call that was about to queues up.                                   *)
Runs(t) == /\ at[t] = "called"
           /\ status[t] = "out" \/ Woken(t)
           /\ status' = [status EXCEPT ![t] = "out"]
Sleeps(t) == /\ at[t] = "about"
             /\ Goes(t, "called")
             /\ status' = [status EXCEPT ![t] = IF call[t] = "wait_for"
                                                THEN "timed" ELSE "waiting"]

-----------------------------------------------------------------------------
(* future::get and wait, wait_for and wait_until.                          *)

Start(t, c, p) == /\ call[t] = "none"
                  /\ c \in Single \cup {"then"} <=> p # None
                  /\ call' = [call EXCEPT ![t] = c]
                  /\ on' = [on EXCEPT ![t] = p]
                  /\ UNCHANGED <<states, setters, at, several, isSet, status>>

(* The call locks mtx_, or returns from waiters_.wait with it locked.      *)
Enters(t) == /\ call[t] \in Single \cup Async
             /\ Added(t)
             /\ Unlocked(Target(t))
             /\ Runs(t)
             /\ UNCHANGED <<states, setters, call, on, several, isSet>>
Finds(t) == Enters(t) /\ ready[Target(t)] /\ Goes(t, "returned")
Lacks(t) == Enters(t) /\ ~ready[Target(t)]
TimesOut(t) == Lacks(t) /\ status[t] = "timeout" /\ Goes(t, "timed_out")
MustWait(t) == Lacks(t) /\ status[t] # "timeout" /\ Goes(t, "about")
Waits(t) == /\ call[t] \in Single \cup Async
            /\ Sleeps(t)
            /\ waiters' = [waiters EXCEPT ![Target(t)] = Append(@, t)]
            /\ UNCHANGED <<ready, ext, setters, call, on, several, isSet>>

TimerExpires(t) == /\ status[t] = "timed"
                   /\ status' = [status EXCEPT ![t] = "timeout"]
                   /\ waiters' = [waiters EXCEPT ![on[t]] = RemoveFirst(@, t)]
                   /\ UNCHANGED <<ready, ext, setters, callVars>>

-----------------------------------------------------------------------------
(* wait_for_* and async_wait_for_*: the callback is added to every future,
   one after the other, here in any order; then: to one.
   add_external_waiter runs it at once if the future is ready and else
   stores it, whatever happens meanwhile.                                  *)

Hit(t, p) == hits' = [hits EXCEPT ![t] = @ \cup {p}]
RetIs(t, p) == ret' = [ret EXCEPT ![t] = p]

Add(t, p) == /\ at[t] = "called"
             /\ p \in Sources(t) \ joined[t]
             /\ adding[t] = None
             /\ running[t] = None
             /\ Unlocked(p)
             /\ joined' = [joined EXCEPT ![t] = @ \cup {p}]
             /\ UNCHANGED <<states, native, late, call, on, isSet, status>>
AddReady(t, p) == /\ Add(t, p)
                  /\ ready[p]
                  /\ call[t] \in Several
                  /\ Hit(t, p)
                  /\ RetIs(t, p)
                  /\ UNCHANGED <<setters, at, adding>>
AddTests(t, p) == /\ Add(t, p)
                  /\ ~ready[p]
                  /\ adding' = [adding EXCEPT ![t] = p]
                  /\ UNCHANGED <<setters, at, hits, ret>>
AddStores(t) == /\ adding[t] # None
                /\ ext' = [ext EXCEPT ![adding[t]] = @ \cup {t}]
                /\ adding' = [adding EXCEPT ![t] = None]
                /\ late' = late \cup {p \in {adding[t]} : setter[p] = "callbacks"}
                /\ UNCHANGED <<ready, waiters, setter, native, running, call, on,
                               at, joined, hits, ret, isSet, status>>

(* Variant: one callback is taken for all.                                 *)
SatisfiedByOne(t) == hits[t] # {}

(* flag of any_state, and acquired==count.                                 *)
Satisfied(t) == IF call[t] = "wait_for_any" THEN hits[t] # {}
                                            ELSE hits[t] = Promises

(* Then the caller locks a mutex of its own call, tests, and waits.        *)
Tests(t) == /\ call[t] \in Several
            /\ Added(t)
            /\ Runs(t)
            /\ UNCHANGED <<states, setters, call, on, several, isSet>>
SeveralReturns(t) == Tests(t) /\ Satisfied(t) /\ Goes(t, "returned")
SeveralMustWait(t) == Tests(t) /\ ~Satisfied(t) /\ Goes(t, "about")
SeveralWaits(t) == /\ call[t] \in Several
                   /\ Sleeps(t)
                   /\ UNCHANGED <<states, setters, call, on, several, isSet>>

-----------------------------------------------------------------------------
(* The thread that fulfils promise p: set_value, set_exception or, for a
   promise that is dropped, owner_destroyed.  Doing it twice throws and
   changes nothing.                                                        *)

Fulfils(p, from, to) == /\ setter[p] = from
                        /\ setter' = [setter EXCEPT ![p] = to]
                        /\ UNCHANGED <<ext, late, running, callVars>>
SetsReady(s) == ready' = [ready EXCEPT ![s] = TRUE]
NotifiesAll(s) == /\ Wakes(All(waiters[s]))
                  /\ waiters' = [waiters EXCEPT ![s] = <<>>]

(* Variant: mtx_ is not locked.                                            *)
MarkReadyUnlocked(p) == /\ Fulfils(p, "idle", "callbacks")
                        /\ SetsReady(p)
                        /\ NotifiesAll(p)
                        /\ UNCHANGED native

(* ready_ is set and waiters_ notified with mtx_ locked: one step.         *)
MarkReady(p) == /\ Unlocked(p)
                /\ Fulfils(p, "idle", "callbacks")
                /\ SetsReady(p)
                /\ NotifiesAll(p)
                /\ UNCHANGED native

(* From a native thread: two steps, taken at any time.                     *)
ForeignReady(p) == /\ p \in Foreign
                   /\ Fulfils(p, "idle", "ready")
                   /\ SetsReady(p)
                   /\ native' = native \cup {p}
                   /\ UNCHANGED <<waiters, status>>
ForeignNotify(p) == /\ Fulfils(p, "ready", "callbacks")
                    /\ NotifiesAll(p)
                    /\ UNCHANGED <<ready, native>>

(* When all callbacks below have been run it is done.  The loop over them
   does not get to one that is stored meanwhile, and may miss others if that
   has moved them.                                                         *)
EndsFulfilling(p) == /\ ext[p] = {} \/ p \in late
                     /\ running[p] = None
                     /\ Fulfils(p, "callbacks", "done")
                     /\ UNCHANGED <<ready, waiters, native, status>>

(* It runs the callbacks of ext_waiters_ one after the other, with mtx_
   unlocked.  Wakens: notify_all on the condition variable of t's own call,
   which has no other waiter.                                              *)
Wakens(t) == Wakes({u \in {t} : Blocked(u)})
RunsCallback(p, t) == /\ setter[p] = "callbacks"
                      /\ running[p] = None
                      /\ t \in ext[p]
                      /\ ext' = [ext EXCEPT ![p] = @ \ {t}]
                      /\ Hit(t, p)
                      /\ UNCHANGED <<ready, waiters, native, late, call, on,
                                     joined, adding>>

(* any_state::set_value locks the mutex of the any_state, if the thread is
   green; a native one sets flag, ret and notifies in steps of its own.  The
   any_state outlives the call.                                            *)
CallbackAny(p, t) == /\ call[t] = "wait_for_any"
                     /\ p \notin native
                     /\ at[t] # "about"
                     /\ RunsCallback(p, t)
                     /\ RetIs(t, p)
                     /\ Wakens(t)
                     /\ UNCHANGED <<setters, at, isSet>>
CallbackForeign(p, t) == /\ call[t] = "wait_for_any"
                         /\ p \in native
                         /\ RunsCallback(p, t)
                         /\ running' = [running EXCEPT ![p] = Task(t, p, "notify")]
                         /\ UNCHANGED <<setter, at, ret, isSet, status>>

(* wait_for_all: acquired is counted up and, by the last, cv notified,
   which no mutex keeps together.  (For a range every callback notifies, all
   but the last only for the caller to test and wait again.)               *)
CallbackAll(p, t) == /\ call[t] = "wait_for_all"
                     /\ RunsCallback(p, t)
                     /\ running' = IF hits'[t] = Promises
                                   THEN [running EXCEPT ![p] = Task(t, p, "notify")]
                                   ELSE running
                     /\ UNCHANGED <<setter, at, ret, isSet, status>>
EndsCallback(p) == /\ In(p, "notify")
                   /\ RetIs(running[p].call, p)
                   /\ Wakens(running[p].call)
                   /\ running' = [running EXCEPT ![p] = None]
                   /\ UNCHANGED <<states, setter, native, late, call, on, at,
                                  joined, adding, hits, isSet>>

-----------------------------------------------------------------------------
(* The callback of an asynchronous call fulfils the promise of the call. Run
   by r, for the future of p:                                              *)

(* What it throws leaves set_value in whoever fulfils p -- the callbacks
   after it are not run -- or the call that is adding it.  (The task of a
   packaged_task catches it and calls set_exception, which throws again.)  *)
Throws(r) == /\ setter' = [p \in Promises |-> IF p = r THEN "threw" ELSE setter[p]]
             /\ at' = [t \in Threads |-> IF t = r THEN "threw" ELSE at[t]]

(* The test of async_any_state::set_value, the count of async_all_state.   *)
Proceeds(t) == \/ call[t] = "async_wait_for_any" /\ ~isSet[t]
               \/ call[t] = "async_wait_for_all" /\ hits'[t] = Promises
               \/ call[t] = "then"
Begins(r, t, p) ==
    /\ call[t] \in Async
    /\ Hit(t, p)
    /\ running' = IF Proceeds(t)
                  THEN [running EXCEPT ![r] = Task(t, p, "tested")] ELSE running
    /\ UNCHANGED <<setter, at>>

(* waiter::invoke of then calls the continuation, which may throw.         *)
Continuation(r, t, p) == /\ call[t] = "then"
                         /\ Hit(t, p)
                         /\ Throws(r)
                         /\ UNCHANGED running
RunsAsync(r, t, p) == Begins(r, t, p) \/ Continuation(r, t, p)

CallbackAsync(p, t) == /\ RunsCallback(p, t)
                       /\ RunsAsync(p, t, p)
                       /\ UNCHANGED <<ret, isSet, status>>
AddReadyAsync(t, p) == /\ Add(t, p)
                       /\ ready[p]
                       /\ RunsAsync(t, t, p)
                       /\ UNCHANGED <<adding, ret>>

(* is_set_ is set and p.set_value called: it locks mtx_ of the state and
   throws if that is ready already, ...                                    *)
SetsValue(r) == /\ In(r, "tested")
                /\ r \notin native => Unlocked(running[r].call)
                /\ isSet' = [isSet EXCEPT ![running[r].call] = TRUE]
                /\ UNCHANGED <<states, native, late, call, on, several, status>>
Accepted(r) == /\ running' = [running EXCEPT ![r].step = "checked"]
               /\ UNCHANGED <<setter, at>>

(* Variant: set_value does not look at ready_.                             *)
ChecksNothing(r) == SetsValue(r) /\ Accepted(r)

Checks(r) == /\ SetsValue(r)
             /\ IF ready[running[r].call]
                THEN Throws(r) /\ running' = [running EXCEPT ![r] = None]
                ELSE Accepted(r)

(* ... and else stores the value and notifies: one step in a green thread,
   which has locked mtx_, two in a native one.                             *)
Stores(r) == /\ In(r, "checked")
             /\ SetsReady(running[r].call)
             /\ RetIs(running[r].call, running[r].from)
             /\ IF r \in native
                THEN /\ running' = [running EXCEPT ![r].step = "stored"]
                     /\ UNCHANGED <<waiters, status>>
                ELSE /\ running' = [running EXCEPT ![r] = None]
                     /\ NotifiesAll(running[r].call)
             /\ UNCHANGED <<ext, setter, native, late, call, on, at, joined,
                            adding, hits, isSet>>
Notifies(r) == /\ In(r, "stored")
               /\ running' = [running EXCEPT ![r] = None]
               /\ NotifiesAll(running[r].call)
               /\ UNCHANGED <<ready, ext, setter, native, late, callVars>>

-----------------------------------------------------------------------------
Fulfilling(r) == Checks(r) \/ Stores(r) \/ Notifies(r)

GoesOn(t) == \/ Finds(t) \/ TimesOut(t) \/ MustWait(t) \/ Waits(t)
             \/ \E p \in Promises : AddReady(t, p) \/ AddTests(t, p)
                                       \/ AddReadyAsync(t, p)
             \/ AddStores(t) \/ Fulfilling(t)
             \/ SeveralReturns(t) \/ SeveralMustWait(t) \/ SeveralWaits(t)
Callback(p) == \/ \E t \in Threads : \/ CallbackAny(p, t)
                                     \/ CallbackForeign(p, t)
                                     \/ CallbackAll(p, t)
                                     \/ CallbackAsync(p, t)
               \/ Fulfilling(p) \/ EndsCallback(p) \/ EndsFulfilling(p)

Next == \/ \E t \in Threads :
              \/ \E c \in MayCall[t], p \in Promises \cup {None} :
                    Start(t, c, p)
              \/ GoesOn(t)
              \/ TimerExpires(t)
        \/ \E p \in Promises : \/ MarkReady(p) \/ ForeignReady(p)
                                \/ ForeignNotify(p) \/ Callback(p)

Spec == Init /\ [][Next]_vars

(* Threads that can go on do, timers expire, and whoever has begun to fulfil
   a promise ends doing so; that one is fulfilled at all is not assumed.   *)
Fairness == /\ \A t \in Threads : /\ WF_vars(GoesOn(t))
                                  /\ WF_vars(TimerExpires(t))
            /\ \A p \in Promises : /\ WF_vars(ForeignNotify(p))
                                   /\ WF_vars(Callback(p))
FairSpec == Spec /\ Fairness

-----------------------------------------------------------------------------
(* Properties.                                                             *)

(* What a call waited for is ready when it returns: the future, the one that
   wait_for_any names -- also if several callbacks come together, or one
   after it has returned -- or all of them; and what get on the future of an
   asynchronous call gives is ready, too.  Only a native thread lets
   wait_for_any return before ret is set.                                  *)
Holds(t) ==
    /\ call[t] \in Single => ready[on[t]]
    /\ call[t] = "wait_for_any" =>
          IF ret[t] = None THEN hits[t] # {} /\ hits[t] \subseteq native
                           ELSE ready[ret[t]]
    /\ call[t] \in {"async_wait_for_any", "then"} => ready[ret[t]]
    /\ call[t] \in {"wait_for_all", "async_wait_for_all"} =>
          \A p \in Promises : ready[p]
ReturnsWhatIsReady == \A t \in Threads : at[t] = "returned" => Holds(t)

(* The future of an asynchronous call keeps the value it became ready with:
   of two futures that become ready together the callback of one throws, and
   does not replace what the other gave.  A native thread, whose set_value
   locks nothing, may replace it, or have it replaced.                     *)
ResultsAreFinal ==
    [][\A t \in Threads :
          call[t] \in Async /\ ready[t] /\ {ret[t], ret'[t]} \cap native = {}
             => ret'[t] = ret[t]]_vars

(* No callback is lost between the test of add_external_waiter and the run
   of the callbacks, nor run twice: each that a call has added is stored, or
   about to be, or has been run; and one stored in a state that is ready is
   still to be run, unless a native thread made it ready or one before it
   threw.  That does only a continuation, or the loser of a race in
   async_wait_for_any.                                                     *)
ThrownBy(t, p) == /\ p \in hits[t]
                  /\ \/ call[t] = "then"
                     \/ call[t] = "async_wait_for_any" /\ ready[t] /\ ret[t] # p
CallbacksKept ==
    /\ \A t \in Threads : \A p \in joined[t] :
          /\ Cardinality({k \in 1..3 : <<adding[t] = p, t \in ext[p],
                                         p \in hits[t]>>[k]}) = 1
          /\ (t \in ext[p] /\ ready[p] /\ p \notin native)
                 => setter[p] \in {"callbacks", "threw"}
    /\ \A p \in Promises :
          setter[p] = "threw" => \E t \in Threads : ThrownBy(t, p)

(* A call returns, or throws, once what it waits for is ready -- the future
   of an asynchronous call is made ready then, and its get returns --, unless
   a callback it relies on threw, or was stored and left out because one
   threw or was stored late, or it is overtaken: a native thread acts, or
   wait_for_all's last callback runs, after the call's test and before it has
   queued up or stored its callback.  Then it is never woken.  No green
   thread overtakes any other call.                                        *)
Owed(t) == CASE call[t] = "none" -> FALSE
             [] call[t] = "wait_for" -> TRUE
             [] call[t] \in {"get", "then"} -> ready[on[t]]
             [] call[t] \in {"wait_for_any", "async_wait_for_any"} ->
                  \E p \in Promises : ready[p]
             [] call[t] \in {"wait_for_all", "async_wait_for_all"} ->
                  \A p \in Promises : ready[p]
Overtaken(t) ==
    \/ at[t] = "about" /\ CASE call[t] \in Single -> on[t] \in native
                             [] call[t] = "wait_for_any" -> hits[t] \cap native # {}
                             [] call[t] = "wait_for_all" -> Satisfied(t)
                             [] call[t] \in Async -> ready[t] /\ ret[t] \in native
    \/ adding[t] \in native
Dropped(t) ==
    \E p \in joined[t] : \/ setter[p] = "threw" /\ (t \in ext[p] \/ call[t] = "then")
                         \/ setter[p] = "done" /\ t \in ext[p] /\ p \in late
EveryCallReturns ==
    \A t \in Threads :
       []~(Overtaken(t) \/ Dropped(t)) =>
          (Owed(t) ~> at[t] \in {"returned", "timed_out", "threw"})

(* "Green threads can call get on the returned future to wait until
   functions in foreign threads complete."                                 *)
GetEnds ==
    \A t \in Threads :
       (call[t] = "get" /\ ready[on[t]]) ~> at[t] = "returned"
=============================================================================
