----------------------------- MODULE ThreadExit -----------------------------
(***************************************************************************)
(* How green threads end: thread_object.cpp beyond the life ThreadObject   *)
(* describes.                                                              *)
(*                                                                         *)
(* runner_wrapper runs the entry function and, however it is left, the     *)
(* functions of at_thread_exit and the cleanups of thread specific data;   *)
(* an exception of the entry function is kept for one join(true), and      *)
(* ~thread_object ends the program when nobody took it.  ~cleaner is       *)
(* noexcept, and its function-try-block rethrows at the end of its         *)
(* handler: an exception of an exit function ends the program as well.     *)
(* Interruption only sets a flag, which pause() looks at when the thread   *)
(* has been activated for another reason.                                  *)
(*                                                                         *)
(* The steps of ThreadObject are the steps of this module, each extended   *)
(* by what it does to the variables declared here.                         *)
(***************************************************************************)
EXTENDS ThreadObject

CONSTANTS Roots,       \* the threads started from outside, their handles kept
          Leavers,     \* the threads that use the facilities of the exit
          MaxUses,     \* bound: exit functions of a thread
          MaxObjects, \* bound: objects that a thread stores
          MaxTogether \* bound: these and the calls of release() in all

ASSUME LeaversAssumption == Leavers \subseteq Threads /\ Roots \subseteq Threads
ASSUME BoundsAssumption == {MaxUses, MaxObjects, MaxTogether} \subseteq Nat

VARIABLES stage,        \* runner_wrapper: in entry_->run() or in ~cleaner
          cleanup,      \* cleanup_queue_
          pending,      \* temp of ~cleaner, its head running
          registered,   \* how many exit functions t has registered
          promise,      \* the state of a promise given to t
          owed,         \* what exit functions have promised to others
          uncaught,     \* uncaught_exception_ is set
          raised,       \* the entry function of t ended with an exception
          rethrows,     \* the join t is in is join_and_rethrow
          delivered,    \* how many joins rethrew the exception of t
          interrupted,  \* interrupt_requested_
          disabled,     \* interrupt_disable_level_ is not zero
          fss,          \* the object of t under one key of fss_, 0 if none
          made,         \* how many objects t has stored there
          freed,        \* how often the cleanup of each was called
          released,     \* the objects that release() has returned to t
          aborted       \* an exception met a noexcept destructor

(* A promise to others: who made it, where it was registered, and what.    *)
Duties == Threads \X {"entry", "exiting"} \X {"value", "notify"}

leaving == <<stage, cleanup, pending, registered, promise, owed>>
exceptions == <<uncaught, raised, rethrows, delivered, aborted>>
interruption == <<interrupted, disabled>>
specific == <<fss, made, freed, released>>
exitVars == <<leaving, exceptions, interruption, specific>>
allVars == <<vars, exitVars>>

(* The objects of a thread, numbered as it stores them.                    *)
Objects == 1..MaxObjects

(* Bound: another exit function, object or release() is within MaxTogether. *)
Room(t) == registered[t] + made[t] + Cardinality(released[t]) < MaxTogether

(* What an exit function does: it calls the library, throws, sets the value
   of set_value_at_thread_exit, or unlocks and notifies for
   notify_all_at_thread_exit.                                              *)
Functions == {"calls", "throws", "value", "notify"}

ExitInit == /\ Init
            /\ stage = [t \in Threads |-> "entry"]
            /\ cleanup = [t \in Threads |-> <<>>]
            /\ pending = [t \in Threads |-> <<>>]
            /\ registered = [t \in Threads |-> 0]
            /\ promise = [t \in Threads |-> "unset"]
            /\ owed = {}
            /\ uncaught = [t \in Threads |-> FALSE]
            /\ raised = [t \in Threads |-> FALSE]
            /\ rethrows = [t \in Threads |-> FALSE]
            /\ delivered = [t \in Threads |-> 0]
            /\ interrupted = [t \in Threads |-> FALSE]
            /\ disabled = [t \in Threads |-> FALSE]
            /\ fss = [t \in Threads |-> 0]
            /\ made = [t \in Threads |-> 0]
            /\ freed = [t \in Threads |-> [i \in Objects |-> 0]]
            /\ released = [t \in Threads |-> {}]
            /\ aborted = FALSE

-----------------------------------------------------------------------------
(* The end of the program.                                                 *)

(* Nothing holds the shared pointer of t any more: no handle, no self
   reference, no handler or registered wake-up bound to it, no join() that
   waits for it.                                                           *)
Unreferenced(t) ==
    /\ ~handle[t] /\ ~thisRef[t] /\ ~Executing(t) /\ t \notin timers
    /\ \A s \in Threads : /\ \A i \in DOMAIN queue[s] : queue[s][i].thread # t
                          /\ Positions(joinQueue[s], t) = {}
                          /\ Positions(exec[s].temp, t) = {}
                          /\ waitFor[s] # Joining(t)

(* ~thread_object calls std::terminate for a thread that has not stopped or
   whose exception nobody took.                                            *)
DestroyedBadly(t) == /\ Created(t)
                     /\ Unreferenced(t)
                     /\ state[t] # "STOPPED" \/ uncaught[t]

Terminated == aborted \/ \E t \in Threads : DestroyedBadly(t)

-----------------------------------------------------------------------------
(* Exceptions and join.                                                    *)

(* Variant: the exception stays where it is.                               *)
ClaimCopies(f) ==
    /\ delivered' = [delivered EXCEPT ![f] = @ + (IF uncaught[f] THEN 1 ELSE 0)]
    /\ UNCHANGED uncaught

(* propagate_exception: swap the exception out and rethrow it.             *)
Claim(f) ==
    /\ delivered' = [delivered EXCEPT ![f] = @ + (IF uncaught[f] THEN 1 ELSE 0)]
    /\ uncaught' = [uncaught EXCEPT ![f] = FALSE]

(* join(true) and join(false) of a thread that has not stopped.  An exit
   function does not join here: it could wait for its own joiner.          *)
Join(t, f, rethrow) == /\ stage[t] = "entry"
                       /\ JoinWait(t, f)
                       /\ rethrows' = [rethrows EXCEPT ![t] = rethrow]
                       /\ UNCHANGED <<uncaught, raised, delivered, aborted,
                                      leaving, interruption, specific>>

(* join(true) of a thread that has stopped returns, or throws, at once.    *)
JoinStopped(t, f) == /\ stage[t] = "entry"
                     /\ Running(t)
                     /\ t # f
                     /\ handle[f]
                     /\ state[f] = "STOPPED"
                     /\ uncaught[f]
                     /\ Claim(f)
                     /\ UNCHANGED <<vars, raised, rethrows, aborted, leaving,
                                    interruption, specific>>

(* t runs user code: its entry function, or an exit function that calls.   *)
Runs(t, f) == stage[t] = "exiting" /\ pending[t] # <<>> /\ Head(pending[t]) = f
Calls(t) == stage[t] = "entry" \/ Runs(t, "calls")

-----------------------------------------------------------------------------
(* Interruption.                                                           *)

(* thread::interrupt, by anyone who has the handle.  Nothing resets the
   flag.                                                                   *)
Interrupt(f) == /\ handle[f]
                /\ ~disabled[f]
                /\ ~interrupted[f]
                /\ interrupted' = [interrupted EXCEPT ![f] = TRUE]
                /\ UNCHANGED <<vars, disabled, leaving, exceptions, specific>>

(* The constructors and destructors of disable_interruption and
   restore_interruption.                                                   *)
Disable(t, off) == /\ t \in Leavers
                   /\ Running(t)
                   /\ disabled[t] # off
                   /\ disabled' = [disabled EXCEPT ![t] = off]
                   /\ UNCHANGED <<vars, interrupted, leaving, exceptions,
                                  specific>>

(* interruption_point does not look at the level: in an exit function its
   exception ends the program.                                             *)
InterruptionPoint(t) == /\ Running(t)
                        /\ Runs(t, "calls")
                        /\ interrupted[t]
                        /\ aborted' = TRUE
                        /\ UNCHANGED <<vars, uncaught, raised, rethrows,
                                       delivered, leaving, interruption,
                                       specific>>

PauseThrows(t) == interrupted[t] /\ ~disabled[t]

(* An exception in an exit function leaves ~cleaner; in the entry function
   the user may catch it, or LeaveEntry follows.                           *)
Raise(t) == aborted' = (stage[t] = "exiting")

(* The rest of pause and of the sleep or join that made it.                *)
PauseEnds(t) ==
    LET f == waitFor[t].thread
    IN  /\ PauseReturns(t)
        /\ rethrows' = [rethrows EXCEPT ![t] = FALSE]
        /\ \/ PauseThrows(t) /\ Raise(t) /\ UNCHANGED <<delivered, uncaught>>
           \/ /\ ~PauseThrows(t)
              /\ IF rethrows[t] THEN Claim(f)
                                ELSE UNCHANGED <<delivered, uncaught>>
              /\ UNCHANGED aborted
        /\ UNCHANGED <<raised, leaving, interruption, specific>>

-----------------------------------------------------------------------------
(* The end of a thread.                                                    *)

(* at_thread_exit and what is built on it: the future of a promise armed
   with set_value_at_thread_exit waits for the value, and the caller of
   notify_all_at_thread_exit gives its lock away.                          *)
AtThreadExit(t, f) ==
    /\ t \in Leavers
    /\ Running(t)
    /\ Calls(t)
    /\ registered[t] < MaxUses
    /\ Room(t)
    /\ cleanup' = [cleanup EXCEPT ![t] = Append(@, f)]
    /\ registered' = [registered EXCEPT ![t] = @ + 1]
    /\ owed' = owed \cup ({<<t, stage[t], f>>} \cap Duties)
    /\ UNCHANGED <<vars, stage, pending, promise, exceptions, interruption,
                   specific>>

(* ~promise after set_value_at_thread_exit, by its owner, before anything
   was stored: the result is broken_promise.                               *)
DropPromise(t) == /\ \E s \in {"entry", "exiting"} : <<t, s, "value">> \in owed
                  /\ promise[t] = "unset"
                  /\ promise' = [promise EXCEPT ![t] = "broken"]
                  /\ UNCHANGED <<vars, stage, cleanup, pending, registered,
                                 owed, exceptions, interruption, specific>>

(* Variant: the exit functions belong to a normal return.                  *)
LeaveEntryUnwinding(t, throws) ==
    /\ Running(t)
    /\ stage[t] = "entry"
    /\ throws => t \in Leavers
    /\ stage' = [stage EXCEPT ![t] = "exiting"]
    /\ pending' = [pending EXCEPT ![t] = IF throws THEN <<>> ELSE cleanup[t]]
    /\ cleanup' = [cleanup EXCEPT ![t] = <<>>]
    /\ raised' = [raised EXCEPT ![t] = throws]
    /\ uncaught' = [uncaught EXCEPT ![t] = throws]
    /\ disabled' = [disabled EXCEPT ![t] = FALSE]
    /\ UNCHANGED <<vars, registered, promise, owed, rethrows, delivered,
                   aborted, interrupted, specific>>

(* The entry function returns or throws: ~cleaner takes the cleanup queue;
   the exception ends up in uncaught_exception_, which is not read before
   the thread has stopped.                                                 *)
LeaveEntry(t, throws) ==
    /\ Running(t)
    /\ stage[t] = "entry"
    /\ throws => t \in Leavers
    /\ stage' = [stage EXCEPT ![t] = "exiting"]
    /\ pending' = [pending EXCEPT ![t] = cleanup[t]]
    /\ cleanup' = [cleanup EXCEPT ![t] = <<>>]
    /\ raised' = [raised EXCEPT ![t] = throws]
    /\ uncaught' = [uncaught EXCEPT ![t] = throws]
    /\ disabled' = [disabled EXCEPT ![t] = FALSE]
    /\ UNCHANGED <<vars, registered, promise, owed, rethrows, delivered,
                   aborted, interrupted, specific>>

(* The function at the head of the list ends.                              *)
Exits(t, f) == /\ Running(t)
               /\ Runs(t, f)
               /\ pending' = [pending EXCEPT ![t] = Tail(@)]

CallsReturn(t) == /\ Exits(t, "calls")
                  /\ UNCHANGED <<vars, stage, cleanup, registered, promise,
                                 owed, exceptions, interruption, specific>>

FunctionThrows(t) == /\ Exits(t, "throws")
                     /\ aborted' = TRUE
                     /\ UNCHANGED <<vars, stage, cleanup, registered, promise,
                                    owed, uncaught, raised, rethrows,
                                    delivered, interruption, specific>>

(* set_value throws promise_already_satisfied when the state is ready.     *)
SetsValue(t) ==
    /\ Exits(t, "value")
    /\ promise' = [promise EXCEPT ![t] = IF @ = "unset" THEN "value" ELSE @]
    /\ aborted' = (promise[t] # "unset")
    /\ owed' = IF promise[t] = "unset" THEN owed \ {<<t, "entry", "value">>}
                                       ELSE owed
    /\ UNCHANGED <<vars, stage, cleanup, registered, uncaught, raised, rethrows,
                   delivered, interruption, specific>>

(* cleanup_handler: unlock, then notify_all, which yields.                 *)
UnlocksAndNotifies(t) ==
    /\ Exits(t, "notify")
    /\ Yield(t, NoThread)
    /\ owed' = owed \ {<<t, "entry", "notify">>}
    /\ UNCHANGED <<stage, cleanup, registered, promise, exceptions,
                   interruption, specific>>

(* The cleanup of what is under the key, if that is an object.             *)
CleansUp(t) == freed' = IF fss[t] = 0 THEN freed
                                      ELSE [freed EXCEPT ![t][fss[t]] = @ + 1]

(* The thread specific data are cleaned up, the arguments destroyed, and
   the coroutine switches out with STOPPED.                                *)
End(t) ==
    /\ stage[t] = "exiting"
    /\ pending[t] = <<>>
    /\ Finish(t)
    /\ CleansUp(t)
    /\ UNCHANGED <<leaving, exceptions, interruption, fss, made, released>>

-----------------------------------------------------------------------------
(* Thread specific data: one thread_specific_ptr with its default cleanup.
   A null pointer under the key is to every call what no entry is.         *)

(* Variant: the key keeps what release() and the destructor clean up.      *)
StoreDataKeeping(t, value) == /\ Running(t)
                              /\ Calls(t)
                              /\ CleansUp(t)
                              /\ fss' = [fss EXCEPT ![t] = IF value = 0 THEN @ ELSE value]
                              /\ UNCHANGED <<vars, leaving, exceptions, interruption>>

(* set_tss_data for a value other than the present one: the existing object
   is cleaned up, also when release() asks for the opposite.               *)
StoreData(t, value) == /\ Running(t)
                       /\ Calls(t)
                       /\ CleansUp(t)
                       /\ fss' = [fss EXCEPT ![t] = value]
                       /\ UNCHANGED <<vars, leaving, exceptions, interruption>>

(* reset(new T).                                                           *)
ResetData(t) == /\ t \in Leavers
                /\ made[t] < MaxObjects
                /\ Room(t)
                /\ StoreData(t, made[t] + 1)
                /\ made' = [made EXCEPT ![t] = @ + 1]
                /\ UNCHANGED released

(* reset(0) and ~thread_specific_ptr.                                      *)
RemoveData(t) == /\ fss[t] # 0
                 /\ StoreData(t, 0)
                 /\ UNCHANGED <<made, released>>

(* release() returns the object, which is its caller's from then on.       *)
ReleaseData(t) == /\ fss[t] # 0
                  /\ Room(t)
                  /\ StoreData(t, 0)
                  /\ released' = [released EXCEPT ![t] = @ \cup {fss[t]}]
                  /\ UNCHANGED made

-----------------------------------------------------------------------------
(* The steps of ThreadObject that change nothing else.  Exit functions may
   pause and yield, those that set a value or notify on the mutex they lock;
   the handler that activates them again is that of a timer here.          *)

MayPause(t) == Calls(t) \/ Runs(t, "value") \/ Runs(t, "notify")

Starts == \/ \E u \in Roots : StartFromOutside(u)
          \/ \E t \in Threads, u \in Threads \ Roots :
                Calls(t) /\ (StartNormal(t, u) \/ StartSticky(t, u))

Pauses(t) == /\ MayPause(t)
             /\ Sleep(t) \/ \E hint \in {h \in Threads : Created(h)} \cup {NoThread} :
                               Yield(t, hint)

Lends == \E f \in Threads \ Roots : Detach(f) \/ DropHandle(f)

Alone(A) == A /\ UNCHANGED exitVars

(* A call of running code that goes on without pausing.                    *)
Proceeds(t) ==
    \/ \E f \in Threads : JoinStopped(t, f)
    \/ \E f \in Functions : AtThreadExit(t, f)
    \/ \E off \in BOOLEAN : Disable(t, off)
    \/ InterruptionPoint(t)
    \/ ResetData(t) \/ RemoveData(t) \/ ReleaseData(t)

(* A call that pauses, and the ends of functions.                          *)
Leaves(t) ==
    \/ \E f \in Threads, rethrow \in BOOLEAN : Join(t, f, rethrow)
    \/ Alone(Pauses(t))
    \/ \E throws \in BOOLEAN : LeaveEntry(t, throws)

FunctionEnds(t) == \/ CallsReturn(t) \/ FunctionThrows(t) \/ SetsValue(t)
                   \/ UnlocksAndNotifies(t)

ExitStep(t) == FunctionEnds(t) \/ End(t)

Continues(t) == Alone(SwitchOut(t)) \/ PauseEnds(t)

ExitNext ==
    /\ ~Terminated
    /\ \/ Alone(Starts) \/ Alone(Lends)
       \/ \E f \in Threads : Interrupt(f) \/ DropPromise(f)
       \/ \E t \in Threads : \/ Proceeds(t) \/ Leaves(t) \/ ExitStep(t)
                             \/ Continues(t) \/ Alone(TimerFires(t))
       \/ \E s \in Threads : Alone(Take(s)) \/ Alone(FinishStep(s))

ExitSpec == ExitInit /\ [][ExitNext]_allVars

(* A worker goes on with the handler it runs; asio hands a strand that keeps
   having handlers to some worker in the end, since its queue is FIFO over
   strands (strong: another strand may hold the last free worker in
   between); timers expire; a running coroutine switches out in the end; a
   thread whose exit functions are through ends; an exit function ends,
   however often it pauses.                                                *)
ExitFairness ==
    /\ \A s \in Threads : /\ SF_vars(Take(s) /\ ~Terminated)
                          /\ WF_vars(FinishStep(s) /\ ~Terminated)
    /\ \A t \in Threads : /\ WF_vars(Coroutine(t) /\ ~Terminated)
                          /\ WF_vars(TimerFires(t) /\ ~Terminated)
                          /\ WF_allVars(End(t) /\ ~Terminated)
    /\ \A t \in Leavers : SF_allVars(FunctionEnds(t) /\ ~Terminated)

FairExitSpec == ExitSpec /\ ExitFairness
-----------------------------------------------------------------------------
(* Properties.                                                             *)

(* An exception of an entry function is rethrown by at most one join, and
   until then it is kept: it is neither lost nor delivered twice, whoever
   joins, is interrupted or gives the handle away in between.              *)
ExceptionDeliveredOnce ==
    \A t \in Threads :
       delivered[t] + (IF uncaught[t] THEN 1 ELSE 0)
          = (IF raised[t] THEN 1 ELSE 0)

(* What an entry function promised at_thread_exit would do has been done
   when the thread stops, however the function ended: the value is in the
   state, the lock is unlocked and the waiters are notified.               *)
DutiesDone ==
    \A t \in Threads : state[t] = "STOPPED" =>
       \A f \in Functions : <<t, "entry", f>> \notin owed

(* Every object stored in a thread_specific_ptr is cleaned up once, neither
   sooner nor later than the call that takes it from its key, or the end of
   the thread -- however its calls, also those of exit functions, replace,
   remove and store objects.  Of what release() has returned this
   says nothing: it is no longer the library's, whose documentation promises
   not to clean it up, while the code of StoreData does.                   *)
InPlace(t, i) == fss[t] = i /\ state[t] # "STOPPED"
DataFreedOnce ==
    \A t \in Threads : \A i \in (1..made[t]) \ released[t] :
       freed[t][i] = (IF InPlace(t, i) THEN 0 ELSE 1)

(* Whoever joins a thread whose entry function has ended returns, through
   all its exit functions, unless the program is terminated.  (Leavers are
   the threads that may have some; they may also end without.)             *)
JoinReachesExit ==
    \A f \in Leavers : \A t \in Threads \ {f} :
       (waitFor[t] = Joining(f) /\ stage[f] = "exiting")
          ~> (waitFor[t] # Joining(f) \/ Terminated)
=============================================================================
