------------------------------ MODULE Listener ------------------------------
(***************************************************************************)
(* listener: a green thread that accepts connections and starts a thread   *)
(* for each, and a watchdog, on the same strand, that closes the acceptor  *)
(* when stop() has set a promise.  Composed with Stream: the first of the  *)
(* connections is observed while it is served, the others are counted.     *)
(*                                                                         *)
(* One thread calls start and join -- which is what operator() does -- and *)
(* others call stop.  join does not pass on what the acceptor thread       *)
(* throws: the exception is met again by ~thread_object, which terminates  *)
(* the program (the catch of operator() is never reached).                 *)
(***************************************************************************)
EXTENDS Stream

CONSTANTS MaxStarts,        \* bound: calls of start
          MaxConnections,   \* bound: connections accepted
          MaxStops          \* bound: calls of stop that find a promise

VARIABLES signal,       \* *stop_signal_: "null", "unset", "set"
          caller,       \* of start and join: "out", "started", "joining"
          acceptor,     \* where acceptor_thread_ is; "null" when there is none
          acc,          \* its acceptor: "none", "open", "closed"
          watchdog,     \* where acceptor_watchdog_thread is
          stopper,      \* what a call of stop has seen of stop_signal_
          connections,  \* connections handed to a thread of their own
          starts, stops,
          ended         \* "no", "terminated" or "undefined" behaviour

listenerVars == <<signal, caller, acceptor, acc, watchdog, stopper, connections,
                  starts, stops, ended>>
vars == <<streamVars, listenerVars>>

(* The acceptor thread is "null", "starting", "accepting" -- suspended in
   async_accept --, "accepted" or "refused", activated by its handler with a
   connection or an error, "joining" its watchdog, "failed" or "ended".    *)
Init == /\ StreamInit
        /\ signal = "null" /\ caller = "out" /\ acceptor = "null"
        /\ acc = "none" /\ watchdog = "none" /\ stopper = "out"
        /\ connections = 0 /\ starts = 0 /\ stops = 0
        /\ ended = "no"

-----------------------------------------------------------------------------
(* start, stop and join.                                                   *)

(* A second start before the join changes nothing; it is not a step here.  *)
Start == /\ caller = "out" /\ starts < MaxStarts
         /\ signal = "null"
         /\ signal' = "unset"
         /\ acceptor = "null"
         /\ acceptor' = "starting"
         /\ caller' = "started"
         /\ starts' = starts + 1
         /\ UNCHANGED <<streamVars, acc, watchdog, stopper, connections, stops, ended>>

Join == /\ caller = "started"
        /\ caller' = "joining"
        /\ UNCHANGED <<streamVars, signal, acceptor, acc, watchdog, stopper,
                       connections, starts, stops, ended>>

Reset == /\ acceptor' = "null" /\ acc' = "none" /\ watchdog' = "none"
         /\ signal' = "null"
         /\ caller' = "out"

(* join returns; a thread that ended with an exception is destroyed.       *)
JoinReturns == /\ caller = "joining"
               /\ acceptor \in {"ended", "failed"}
               /\ Reset
               /\ ended' = IF acceptor = "failed" THEN "terminated" ELSE ended
               /\ UNCHANGED <<streamVars, stopper, connections, starts, stops>>

(* stop tests stop_signal_ first.  A null pointer ends the call.           *)
StopTests == /\ stopper = "out" /\ stops < MaxStops
             /\ signal # "null"
             /\ stopper' = "tested"
             /\ stops' = stops + 1
             /\ UNCHANGED <<streamVars, signal, caller, acceptor, acc, watchdog,
                            connections, starts, ended>>

(* And then calls set_value: on a promise that is satisfied it throws; one
   that join has destroyed meanwhile it should not touch.                  *)
StopSets == /\ stopper = "tested"
            /\ stopper' = IF signal = "set" THEN "threw" ELSE "out"
            /\ signal' = IF signal = "unset" THEN "set" ELSE signal
            /\ ended' = IF signal = "null" THEN "undefined" ELSE ended
            /\ UNCHANGED <<streamVars, caller, acceptor, acc, watchdog, connections,
                           starts, stops>>

-----------------------------------------------------------------------------
(* acceptor_thread.                                                        *)

(* The constructor of the acceptor throws.                                 *)
BindFails == /\ acceptor = "starting"
             /\ acceptor' = "failed"
             /\ UNCHANGED <<streamVars, signal, caller, acc, watchdog, stopper,
                            connections, starts, stops, ended>>

(* The watchdog is created, and the first async_accept begins.             *)
Bind == /\ acceptor = "starting"
        /\ acc' = "open"
        /\ watchdog' = "starting"
        /\ acceptor' = "accepting"
        /\ UNCHANGED <<streamVars, signal, caller, stopper, connections, starts,
                       stops, ended>>

(* The handler of async_accept: a connection, or an error (too many open
   files, for one).                                                        *)
AcceptCompletes == /\ acceptor = "accepting" /\ acc = "open"
                   /\ \/ connections < MaxConnections /\ acceptor' = "accepted"
                      \/ acceptor' = "refused"
                   /\ UNCHANGED <<streamVars, signal, caller, acc, watchdog, stopper,
                                  connections, starts, stops, ended>>

(* A thread is started for the connection, and the loop goes round; a closed
   acceptor accepts no more.                                               *)
Accepted == /\ acceptor = "accepted"
            /\ connections' = connections + 1
            /\ IF socket = "none" THEN Connect ELSE UNCHANGED streamVars
            /\ acceptor' = IF acc = "open" THEN "accepting" ELSE "refused"
            /\ UNCHANGED <<signal, caller, acc, watchdog, stopper, starts, stops, ended>>

(* Variant: the thread ends without the watchdog.                          *)
RefusedUnjoined == /\ acceptor = "refused"
                   /\ acceptor' = "ended"
                   /\ UNCHANGED <<streamVars, signal, caller, acc, watchdog, stopper,
                                  connections, starts, stops, ended>>

(* break; the error is forgotten, and watchdog.join() waits for stop.      *)
Refused == /\ acceptor = "refused"
           /\ acceptor' = "joining"
           /\ UNCHANGED <<streamVars, signal, caller, acc, watchdog, stopper,
                          connections, starts, stops, ended>>

AcceptorEnds == /\ acceptor = "joining" /\ watchdog = "ended"
                /\ acceptor' = "ended"
                /\ acc' = "none"
                /\ UNCHANGED <<streamVars, signal, caller, watchdog, stopper,
                               connections, starts, stops, ended>>

-----------------------------------------------------------------------------
(* acceptor_watchdog_thread.                                               *)

WatchdogWaits == /\ watchdog = "starting" /\ signal = "unset"
                 /\ watchdog' = "waiting"
                 /\ UNCHANGED <<streamVars, signal, caller, acceptor, acc, stopper,
                                connections, starts, stops, ended>>

(* Variant: what is pending is cancelled, and the acceptor left open.      *)
WatchdogCancels == /\ watchdog \in {"starting", "waiting"} /\ signal = "set"
                   /\ acceptor' = IF acceptor = "accepting" THEN "refused" ELSE acceptor
                   /\ watchdog' = "ended"
                   /\ UNCHANGED <<streamVars, signal, caller, acc, stopper,
                                  connections, starts, stops, ended>>

(* The future is ready: acc.close(), which aborts a pending async_accept.  *)
WatchdogCloses == /\ watchdog \in {"starting", "waiting"} /\ signal = "set"
                  /\ acc' = "closed"
                  /\ acceptor' = IF acceptor = "accepting" THEN "refused" ELSE acceptor
                  /\ watchdog' = "ended"
                  /\ UNCHANGED <<streamVars, signal, caller, stopper, connections,
                                 starts, stops, ended>>

-----------------------------------------------------------------------------
Listens == \/ Start \/ Join \/ JoinReturns \/ StopTests \/ StopSets
           \/ Bind \/ BindFails \/ AcceptCompletes \/ Accepted \/ Refused
           \/ AcceptorEnds \/ WatchdogWaits \/ WatchdogCloses

(* A terminated program does nothing more, and of an undefined one nothing
   is said.                                                                *)
Next == /\ ended = "no"
        /\ Listens \/ (StreamNext /\ UNCHANGED listenerVars)

Spec == Init /\ [][Next]_vars

(* Threads that can go on do; the caller of start joins, and a stop that has
   begun ends.  Nobody has to connect, to stop, or to answer.              *)
Progress == \/ Join \/ JoinReturns \/ Bind \/ BindFails \/ Accepted \/ Refused
            \/ AcceptorEnds
FairSpec == /\ Spec
            /\ WF_vars(ended = "no" /\ Progress)
            /\ WF_vars(ended = "no" /\ (WatchdogWaits \/ WatchdogCloses))
            /\ WF_vars(ended = "no" /\ StopSets)

-----------------------------------------------------------------------------
(* Properties.                                                             *)

(* Once stop has set the promise, join returns, whatever the acceptor was
   doing: suspended in async_accept, handing over a connection that came
   first, or waiting for its watchdog after an error.                      *)
StopEndsListening == signal = "set" ~> caller = "out" \/ ended # "no"

(* join returns only after a stop, although an error may have ended the
   acceptor long before, and leaves no watchdog behind that would use the
   promise and the acceptor it destroys; so a stop can meet a promise that is
   gone only if another stop came before it.                               *)
JoinWaitsForStop ==
    [][/\ caller = "joining" /\ caller' = "out" /\ ended' = "no" =>
            signal = "set" /\ watchdog \in {"none", "ended"}
       /\ ended' = "undefined" => stops > 1]_vars
=============================================================================
