--------------------------- MODULE ConcurrentQueue ---------------------------
(***************************************************************************)
(* basic_concurrent_queue: a bounded queue that can be closed.             *)
(*                                                                         *)
(* Every method holds the_mutex_ from its first line to its last, except   *)
(* while it waits, so what a call does between two waits is one step.      *)
(* Only the number of items is kept: the order is std::queue's.  A closed  *)
(* queue, or a try_ call that finds nothing to do, returns false and       *)
(* changes nothing; those calls are not steps here.  pop_some does not     *)
(* compile when it is used (std::queue has no top) and is left out.        *)
(***************************************************************************)
EXTENDS Waiters, FiniteSetsExt

CONSTANTS Capacity,   \* capacity_
          MaxItems,   \* bound: push_all, which ignores capacity_, stops here
          Batch       \* numbers of items that push_some and push_all are given

ASSUME QueueAssumption == /\ IsFiniteSet(Threads)
                          /\ Capacity \in Nat /\ MaxItems \in Nat
                          /\ Batch \subseteq Nat

VARIABLES size,       \* the_queue_.size()
          opened,     \* opened_
          full,       \* the waiters of full_cv_: pushers
          empty,      \* the waiters of empty_cv_: poppers
          within      \* the blocking call each thread is in, or "none"

queueVars == <<size, opened, full, empty, within, status>>

Pushes == {"push", "try_push_for"}
Pops == {"pop", "try_pop_for"}
TimedCalls == {"try_push_for", "try_pop_for"}

QueueInit == /\ size = 0
             /\ opened = TRUE
             /\ full = <<>>
             /\ empty = <<>>
             /\ status = [t \in Threads |-> "out"]
             /\ within = [t \in Threads |-> "none"]

Outside(t) == within[t] = "none"
Full == size >= Capacity

-----------------------------------------------------------------------------
(* A call c by t queues up, for the first time or again; what is left of a
   call that returns.                                                      *)
QueuesUp(t, c) ==
    /\ within' = [within EXCEPT ![t] = c]
    /\ status' = [status EXCEPT ![t] = IF c \in TimedCalls THEN "timed"
                                                           ELSE "waiting"]
Returns(t) == within' = [within EXCEPT ![t] = "none"]

(* The notifications of a call, which may itself have just been woken.     *)
Tells(t, W) == WakesFrom([status EXCEPT ![t] = "out"], W)

(* n times: the_queue_.push and empty_cv_.notify_one.                      *)
AddItems(t, n) == /\ size + n <= MaxItems
                  /\ size' = size + n
                  /\ LET k == Min({n, Len(empty)}) IN
                     /\ Tells(t, ToSet(SubSeq(empty, 1, k)))
                     /\ empty' = SubSeq(empty, k + 1, Len(empty))
                  /\ Returns(t)
                  /\ UNCHANGED <<opened, full>>

(* Variant: no pusher is told of the room.                                 *)
TakeSilently(t) == /\ size > 0
                   /\ size' = size - 1
                   /\ Tells(t, {})
                   /\ Returns(t)
                   /\ UNCHANGED <<opened, full, empty>>

(* the_queue_.pop and full_cv_.notify_one.                                 *)
TakeItem(t) == /\ size > 0
               /\ size' = size - 1
               /\ Tells(t, First(full))
               /\ full' = Others(full)
               /\ Returns(t)
               /\ UNCHANGED <<opened, empty>>

-----------------------------------------------------------------------------
(* open and close, called by t.                                            *)

Open(t) == /\ Outside(t)
           /\ ~opened
           /\ opened' = TRUE
           /\ UNCHANGED <<size, full, empty, within, status>>

(* Variant: only the pushers are told.                                     *)
CloseForPushers(t) == /\ Outside(t)
                      /\ opened
                      /\ opened' = FALSE
                      /\ Wakes(All(full))
                      /\ full' = <<>>
                      /\ UNCHANGED <<size, empty, within>>

Close(t) == /\ Outside(t)
            /\ opened
            /\ opened' = FALSE
            /\ Wakes(All(full) \cup All(empty))
            /\ full' = <<>>
            /\ empty' = <<>>
            /\ UNCHANGED <<size, within>>

-----------------------------------------------------------------------------
(* push, try_push, push_some, push_all; try_push_for and try_push_until.   *)

(* push and try_push_* find room, and so does try_push.                    *)
PushNow(t) == Outside(t) /\ opened /\ ~Full /\ AddItems(t, 1)

PushWait(t, c) == /\ Outside(t)
                  /\ opened
                  /\ Full
                  /\ QueuesUp(t, c)
                  /\ full' = Append(full, t)
                  /\ UNCHANGED <<size, opened, empty>>

PushSome(t) == /\ Outside(t)
               /\ opened
               /\ ~Full
               /\ \E n \in Batch : AddItems(t, Min({n, Capacity - size}))

PushAll(t) == Outside(t) /\ opened /\ \E n \in Batch : AddItems(t, n)

(* pop and try_pop_* find an item, and so does try_pop.                    *)
PopNow(t) == Outside(t) /\ TakeItem(t)

PopWait(t, c) == /\ Outside(t)
                 /\ opened
                 /\ size = 0
                 /\ QueuesUp(t, c)
                 /\ empty' = Append(empty, t)
                 /\ UNCHANGED <<size, opened, full>>

-----------------------------------------------------------------------------
(* A woken call goes on: its loop waits while the queue is open and full,
   or open and empty, whatever wait returned; only then does a timed call
   look at the status of its last wait.                                    *)

InPush(t) == within[t] \in Pushes /\ Woken(t)
InPop(t) == within[t] \in Pops /\ Woken(t)
TimedOut(t) == within[t] \in TimedCalls /\ status[t] = "timeout"

PushAgain(t) == /\ InPush(t)
                /\ opened
                /\ Full
                /\ QueuesUp(t, within[t])
                /\ full' = Append(full, t)
                /\ UNCHANGED <<size, opened, empty>>

(* Variant: the room is not looked at again.                               *)
PushUnchecked(t) == InPush(t) /\ opened /\ ~TimedOut(t) /\ AddItems(t, 1)

PushEnds(t) == InPush(t) /\ opened /\ ~Full /\ ~TimedOut(t) /\ AddItems(t, 1)

PopAgain(t) == /\ InPop(t)
               /\ opened
               /\ size = 0
               /\ QueuesUp(t, within[t])
               /\ empty' = Append(empty, t)
               /\ UNCHANGED <<size, opened, full>>

PopEnds(t) == InPop(t) /\ ~TimedOut(t) /\ TakeItem(t)

(* false: the queue is closed (and empty, for a pop), or the call is timed
   and its last wait timed out -- although now there is room, or an item.  *)
Fails(t) == /\ Tells(t, {})
            /\ Returns(t)
            /\ UNCHANGED <<size, opened, full, empty>>
PushFails(t) == /\ InPush(t)
                /\ ~opened \/ (~Full /\ TimedOut(t))
                /\ Fails(t)
PopFails(t) == /\ InPop(t)
               /\ IF size = 0 THEN ~opened ELSE TimedOut(t)
               /\ Fails(t)

-----------------------------------------------------------------------------
(* The timer of a timed call removes it from its queue.                    *)
CallTimesOut(t) == /\ status[t] = "timed"
                   /\ status' = [status EXCEPT ![t] = "timeout"]
                   /\ full' = RemoveFirst(full, t)
                   /\ empty' = RemoveFirst(empty, t)
                   /\ UNCHANGED <<size, opened, within>>

CallGoesOn(t) == \/ PushAgain(t) \/ PushEnds(t) \/ PushFails(t)
                 \/ PopAgain(t) \/ PopEnds(t) \/ PopFails(t)
CallStarts(t) == \/ PushNow(t) \/ PushSome(t) \/ PushAll(t) \/ PopNow(t)
                 \/ \E c \in Pushes : PushWait(t, c)
                 \/ \E c \in Pops : PopWait(t, c)

QueueNext == \E t \in Threads : \/ Open(t) \/ Close(t) \/ CallStarts(t)
                                \/ CallGoesOn(t) \/ CallTimesOut(t)

QueueSpec == QueueInit /\ [][QueueNext]_queueVars

(* Woken threads go on -- no call keeps the_mutex_ for ever -- and timers
   expire.                                                                 *)
QueueFairness == \A t \in Threads : /\ WF_queueVars(CallGoesOn(t))
                                    /\ WF_queueVars(CallTimesOut(t))
QueueFairSpec == QueueSpec /\ QueueFairness

-----------------------------------------------------------------------------
(* Properties.                                                             *)

(* No number of pushers, however they wait, are woken or barge in, takes
   the queue beyond its capacity; only push_all does.                      *)
CapacityKept ==
    [][size' > size /\ size' > Capacity => \E t \in Threads : PushAll(t)]_queueVars

(* A popper waits only if every item is spoken for by a popper that has been
   woken, and a pusher only if all room is: notify_one reaches enough of
   them, although calls that never waited may take the item or the room
   first.  The one step that can end this is a timed call that returns false
   with the item, or the room, at hand.                                    *)
Awake(C) == Cardinality({t \in Threads : within[t] \in C /\ Woken(t)})
PoppersServed == empty # <<>> => size <= Awake(Pops)
PushersServed == full # <<>> => Capacity - size <= Awake(Pushes)
NoWaiterForgotten ==
    [][/\ PoppersServed /\ ~PoppersServed' =>
             \E t \in Threads : TimedOut(t) /\ PopFails(t)
       /\ PushersServed /\ ~PushersServed' =>
             \E t \in Threads : TimedOut(t) /\ PushFails(t)]_queueVars

(* Once the queue is closed for good every call returns, blocked or not.   *)
CloseEndsCalls ==
    <>[](~opened) => \A t \in Threads : []<>Outside(t)
=============================================================================
