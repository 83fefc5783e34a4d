--------------------------- MODULE ListenerProofs ---------------------------
(***************************************************************************)
(* Theorems of Listener, for any number of starts, stops and connections   *)
(* and any size of the put area: join waits for stop, whatever the         *)
(* connections do; and a connection sends what was written in order, all   *)
(* of it before it is closed in good order or waits for the peer.          *)
(*                                                                         *)
(* The first rests on IInv, which says who keeps the promise alive.  The   *)
(* others rest on StreamInv, which says where each character is that was   *)
(* written and not sent yet: in the put area when no thread is in          *)
(* overflow, else between the two pointers of the one that is.             *)
(***************************************************************************)
EXTENDS Listener, TLAPS

(* The promise lives as long as the caller has something to join, and the
   watchdog as long as the acceptor.                                       *)
OwnersInv == /\ caller # "out" => signal # "null"
             /\ acceptor # "null" \/ watchdog # "none" => caller # "out"
             /\ acceptor \in {"starting", "failed"} => watchdog = "none"

(* The watchdog ends only after a stop, and the acceptor after it.         *)
StoppedInv == /\ watchdog = "ended" => signal = "set"
              /\ acceptor = "ended" => watchdog = "ended"

(* A stop that has found the promise is counted; if the promise is set, or
   gone, another was before it.                                            *)
StopsInv == /\ stops \in Nat
            /\ stopper = "tested" \/ signal = "set" => stops >= 1
            /\ stopper = "tested" /\ signal \in {"set", "null"} => stops > 1

IInv == ended = "no" => OwnersInv /\ StoppedInv /\ StopsInv

-----------------------------------------------------------------------------
LEMMA InitIInv == Init => IInv
BY DEF Init, IInv, OwnersInv, StoppedInv, StopsInv

(* Serving a connection does not disturb the listener.                     *)
LEMMA ServingKeepsIInv == IInv /\ UNCHANGED listenerVars => IInv'
BY DEF IInv, OwnersInv, StoppedInv, StopsInv, listenerVars

LEMMA ListensKeepsIInv == IInv /\ ended = "no" /\ Listens => IInv'
<1> SUFFICES ASSUME OwnersInv, StoppedInv, StopsInv, ended = "no", Listens
             PROVE  IInv'
  BY DEF IInv
<1> USE DEF IInv, OwnersInv, StoppedInv, StopsInv
<1>1. CASE Start
  BY <1>1 DEF Start
<1>2. CASE Join
  BY <1>2 DEF Join
<1>3. CASE JoinReturns
  BY <1>3 DEF JoinReturns, Reset
<1>4. CASE StopTests
  BY <1>4 DEF StopTests
<1>5. CASE StopSets
  BY <1>5 DEF StopSets
<1>6. CASE Bind \/ BindFails
  BY <1>6 DEF Bind, BindFails
<1>7. CASE AcceptCompletes
  BY <1>7 DEF AcceptCompletes
<1>8. CASE Accepted
  BY <1>8 DEF Accepted
<1>9. CASE Refused \/ AcceptorEnds
  BY <1>9 DEF Refused, AcceptorEnds
<1>10. CASE WatchdogWaits
  BY <1>10 DEF WatchdogWaits
<1>11. CASE WatchdogCloses
  BY <1>11 DEF WatchdogCloses
<1> QED
  BY <1>1, <1>2, <1>3, <1>4, <1>5, <1>6, <1>7, <1>8, <1>9, <1>10, <1>11
     DEF Listens

LEMMA NextIInv == IInv /\ [Next]_vars => IInv'
BY ListensKeepsIInv, ServingKeepsIInv DEF Next, vars

-----------------------------------------------------------------------------
(* What a step from such a state may do: only StopSets meets a dead promise,
   and only JoinReturns ends a join.                                       *)
LEMMA StepWaits ==
    ASSUME IInv, Next
    PROVE  /\ caller = "joining" /\ caller' = "out" /\ ended' = "no" =>
                signal = "set" /\ watchdog \in {"none", "ended"}
           /\ ended' = "undefined" => stops > 1
<1>1. ended = "no" /\ OwnersInv /\ StoppedInv /\ StopsInv
  BY DEF Next, IInv
<1>2. CASE UNCHANGED listenerVars
  BY <1>1, <1>2 DEF listenerVars
<1>3. CASE JoinReturns
  BY <1>1, <1>3 DEF JoinReturns, Reset, StoppedInv
<1>4. CASE StopSets
  BY <1>1, <1>4 DEF StopSets, StopsInv
<1>5. CASE \/ Start \/ Join \/ StopTests \/ Bind \/ BindFails \/ AcceptCompletes
           \/ Accepted \/ Refused \/ AcceptorEnds \/ WatchdogWaits \/ WatchdogCloses
  BY <1>1, <1>5 DEF Start, Join, StopTests, Bind, BindFails, AcceptCompletes,
     Accepted, Refused, AcceptorEnds, WatchdogWaits, WatchdogCloses
<1> QED
  BY <1>2, <1>3, <1>4, <1>5 DEF Next, Listens

(* join of a listener returns only after a stop, with the watchdog gone, and
   only a later stop can find the promise destroyed.                       *)
THEOREM ListenerJoinWaits == Spec => JoinWaitsForStop
<1>1. IInv /\ [Next]_vars =>
        [/\ caller = "joining" /\ caller' = "out" /\ ended' = "no" =>
               signal = "set" /\ watchdog \in {"none", "ended"}
         /\ ended' = "undefined" => stops > 1]_vars
  BY StepWaits
<1> QED
  BY InitIInv, NextIInv, <1>1, PTL DEF Spec, JoinWaitsForStop
-----------------------------------------------------------------------------
(***************************************************************************)
(* The stream.  What is proved of it holds while no thread has entered     *)
(* overflow, or added to the put area, behind the back of another, and     *)
(* most of it while the connection lasts: after that nothing is sent.      *)
(***************************************************************************)
Steps == {"out", "gone", "writing", "wrote", "failed", "reading", "read", "eof"}
StreamCalls == {"none", "put", "flush", "read", "close", "destroy"}
Places == [step : Steps, call : StreamCalls, from : Nat, to : Nat, char : Nat, n : Nat]

StreamTypeOK == /\ socket \in {"none", "open", "reset", "closed"}
                /\ half \in BOOLEAN /\ unbuffered \in BOOLEAN
                /\ bad \in BOOLEAN /\ overlapped \in BOOLEAN /\ garbled \in BOOLEAN
                /\ pptr \in 0..BufferSize
                /\ memory \in [1..BufferSize -> Nat]
                /\ written \in Nat /\ wire \in Nat
                /\ at \in [Users -> Places]

Connected == socket \in {"none", "open"}
Live == Connected /\ ~overlapped

(* What a thread does inside overflow: only the servant writes characters
   and reads, and only sputc passes one on to overflow.                    *)
CallsOK ==
    \A t \in Users :
       /\ InOverflow(t) => /\ at[t].call # "none"
                           /\ t = "watchdog" => at[t].call = "close"
                           /\ at[t].call # "put" => at[t].char = 0
       /\ t = "watchdog" => at[t].step \notin {"reading", "read", "eof"}
       /\ Connected => at[t].step # "failed"

(* Nobody is in overflow: the put area holds what is still to be sent.     *)
AreaKept ==
    (\A t \in Users : ~InOverflow(t)) =>
       /\ written = wire + pptr
       /\ \A i \in 1..pptr : memory[i] = wire + i
       /\ unbuffered => pptr = 0

(* t is: from..to and then char is what is still to be sent.               *)
Pending(t) ==
    /\ at[t].from <= at[t].to
    /\ at[t].char \in {0, written}
    /\ IF unbuffered
       THEN /\ at[t].to = 1 /\ pptr = 0
            /\ at[t].char # 0
            /\ written = wire + 1 - at[t].from
       ELSE /\ \A i \in (at[t].from + 1)..at[t].to : memory[i] = wire + (i - at[t].from)
            /\ written = wire + (at[t].to - at[t].from)
                             + (IF at[t].char = 0 THEN 0 ELSE 1)

(* A half duplex reader has left nothing behind, and nobody else sends.    *)
ReaderAlone(t) == at[t].step = "reading" /\ half
                    => pptr = 0 /\ ~InOverflow(Other(t))

DataInv ==
    /\ AreaKept
    /\ \A t \in Users : /\ InOverflow(t) => ~InOverflow(Other(t)) /\ Pending(t)
                        /\ ReaderAlone(t)

StreamInv == /\ StreamTypeOK
             /\ CallsOK
             /\ socket = "none" => \A t \in Users : at[t] = Place("out")
             /\ ~overlapped => ~garbled
             /\ Live => DataInv

-----------------------------------------------------------------------------
(* Where the two threads are after a step of one of them.                  *)
LEMMA OtherUser ==
    ASSUME NEW t \in Users
    PROVE  /\ Other(t) \in Users /\ Other(t) # t /\ Other(Other(t)) = t
           /\ \A u \in Users : u = t \/ u = Other(t)
<1>1. \A u \in Users : \E v \in Users : v # u
  BY DEF Users
<1>2. \A u \in Users : Other(u) \in Users /\ Other(u) # u
  BY <1>1 DEF Other
<1> QED
  BY <1>2 DEF Users

LEMMA PlaceType == \A step \in Steps : Place(step) \in Places
BY DEF Place, Places, StreamCalls

LEMMA MovesFacts ==
    ASSUME at \in [Users -> Places], NEW t \in Users, NEW place \in Places,
           Moves(t, place)
    PROVE  at' \in [Users -> Places] /\ at'[t] = place /\ at'[Other(t)] = at[Other(t)]
BY OtherUser DEF Moves

LEMMA CloseSocketFacts ==
    ASSUME at \in [Users -> Places], NEW t \in Users, NEW step \in Steps,
           CloseSocket(t, step)
    PROVE  /\ socket' = "closed"
           /\ at' \in [Users -> Places]
           /\ at'[t] = Place(step)
           /\ at'[Other(t)] = [at[Other(t)] EXCEPT !.step = Aborted(@)]
<1> DEFINE u == Other(t)
<1>1. u \in Users /\ u # t
  BY OtherUser
<1>2. Place(step) \in Places
  BY PlaceType
<1>3. [at[u] EXCEPT !.step = Aborted(@)] \in Places
  BY <1>1 DEF Places, Steps, Aborted
<1>4. at' = [[at EXCEPT ![t] = Place(step)]
               EXCEPT ![u] = [at[u] EXCEPT !.step = Aborted(@)]]
  BY <1>1 DEF CloseSocket
<1> HIDE DEF u
<1>5. /\ at' \in [Users -> Places] /\ at'[t] = Place(step)
      /\ at'[u] = [at[u] EXCEPT !.step = Aborted(@)]
  BY <1>1, <1>2, <1>3, <1>4
<1> QED
  BY <1>5 DEF u, CloseSocket

(* What the end of a call changes: the thread is out of overflow, and if the
   socket is closed what the other has pending fails.                      *)
LEMMA AfterOverflowFacts ==
    ASSUME StreamTypeOK, CallsOK, NEW t \in Users, NEW c \in StreamCalls \ {"none"},
           NEW ok \in BOOLEAN, AfterOverflow(t, c, ok), t = "watchdog" => c = "close"
    PROVE  /\ bad' \in BOOLEAN
           /\ at' \in [Users -> Places]
           /\ at'[t].step \in {"out", "gone", "reading", "eof"}
           /\ at'[t].step = "reading" => c = "read"
           /\ t = "watchdog" => at'[t].step \in {"out", "gone"}
           /\ \/ /\ socket' = "closed"
                 /\ at'[Other(t)] = [at[Other(t)] EXCEPT !.step = Aborted(@)]
              \/ /\ socket' = socket /\ at'[Other(t)] = at[Other(t)]
                 /\ c \notin {"close", "destroy"}
<1> USE DEF StreamTypeOK
<1>1. bad' \in BOOLEAN
  BY DEF AfterOverflow
<1>2. CASE c \in {"put", "flush"} /\ Moves(t, Place("out")) /\ UNCHANGED socket
  BY <1>1, <1>2, MovesFacts, PlaceType DEF Steps, Place
<1>3. CASE c = "read" /\ StartRead(t)
  <2> DEFINE step == IF socket = "closed" THEN "eof" ELSE "reading"
             place == [Place(step) EXCEPT !.call = "read"]
  <2>1. place \in Places /\ place.step = step
    BY DEF Places, Place, Steps, StreamCalls
  <2>2. Moves(t, place) /\ socket' = socket
    BY <1>3 DEF StartRead
  <2> HIDE DEF place
  <2> QED
    BY <1>1, <1>3, <2>1, <2>2, MovesFacts
<1>4. CASE c = "close" /\ CloseSocket(t, IF t = "watchdog" THEN "gone" ELSE "out")
  BY <1>1, <1>4, CloseSocketFacts DEF Steps, Place
<1>5. CASE c = "destroy" /\ CloseSocket(t, "gone")
  BY <1>1, <1>5, CloseSocketFacts DEF Steps, Place
<1> QED
  BY <1>2, <1>3, <1>4, <1>5 DEF AfterOverflow

-----------------------------------------------------------------------------
(* The parts of a step that the calls share.  In each, t is a thread whose
   call goes on, and what is assumed of the put area is asked for only while
   the connection lasts.                                                   *)
StillLive == Connected /\ ~overlapped'
Undisturbed(t) ==
    ~InOverflow(Other(t)) /\ ~(at[Other(t)].step = "reading" /\ half)

LEMMA EndOfCall ==
    ASSUME StreamInv, socket # "none", NEW t \in Users,
           NEW c \in StreamCalls \ {"none"}, NEW ok \in BOOLEAN,
           AfterOverflow(t, c, ok), t = "watchdog" => c = "close",
           UNCHANGED <<half, unbuffered, sent>>,
           overlapped' \in BOOLEAN, overlapped => overlapped',
           pptr' \in 0..BufferSize, memory' \in [1..BufferSize -> Nat],
           written' \in Nat,
           StillLive /\ c \notin {"close", "destroy"} =>
              /\ Undisturbed(t)
              /\ written' = wire + pptr'
              /\ \A i \in 1..(pptr') : memory'[i] = wire + i
              /\ unbuffered => pptr' = 0
              /\ c = "read" /\ half => pptr' = 0
    PROVE  StreamInv'
<1> DEFINE u == Other(t)
<1>1. u \in Users /\ u # t /\ Other(u) = t /\ \A v \in Users : v = t \/ v = u
  BY OtherUser
<1>2. /\ bad' \in BOOLEAN
      /\ at' \in [Users -> Places]
      /\ at'[t].step \in {"out", "gone", "reading", "eof"}
      /\ at'[t].step = "reading" => c = "read"
      /\ t = "watchdog" => at'[t].step \in {"out", "gone"}
      /\ \/ /\ socket' = "closed"
            /\ at'[u] = [at[u] EXCEPT !.step = Aborted(@)]
         \/ /\ socket' = socket /\ at'[u] = at[u]
            /\ c \notin {"close", "destroy"}
  BY AfterOverflowFacts DEF StreamInv
<1>3. at[u] \in Places
  BY <1>1 DEF StreamInv, StreamTypeOK
<1>4. socket' # "none" /\ StreamTypeOK'
  BY <1>2 DEF StreamInv, StreamTypeOK, sent
<1>5. ~overlapped' => ~garbled'
  BY DEF StreamInv, sent
<1>6. ~InOverflow(t)'
  BY <1>2 DEF InOverflow
<1> HIDE DEF u
<1>7. CallsOK'
  <2>1. CASE socket' = "closed" /\ at'[u] = [at[u] EXCEPT !.step = Aborted(@)]
    <3>1. /\ at'[u].step = Aborted(at[u].step)
          /\ at'[u].call = at[u].call /\ at'[u].char = at[u].char
      BY <2>1, <1>3 DEF Places
    <3> QED
      BY <2>1, <3>1, <1>1, <1>2, <1>6 DEF StreamInv, CallsOK, InOverflow, Aborted, Connected
  <2>2. CASE socket' = socket /\ at'[u] = at[u]
    BY <2>2, <1>1, <1>2, <1>6 DEF StreamInv, CallsOK, InOverflow, Connected
  <2> QED
    BY <1>2, <2>1, <2>2
<1>8. ASSUME Live' PROVE DataInv'
  <2>1. /\ StillLive /\ Live /\ c \notin {"close", "destroy"}
        /\ at'[u] = at[u]
    BY <1>8, <1>2 DEF Live, Connected, StillLive
  <2>2. ~InOverflow(u)' /\ ~(at'[u].step = "reading" /\ half')
    BY <2>1 DEF Undisturbed, u, InOverflow
  <2>3. AreaKept'
    BY <2>1 DEF AreaKept, sent
  <2>4. ReaderAlone(t)' /\ ReaderAlone(u)'
    BY <2>1, <2>2, <1>1, <1>2, <1>6 DEF ReaderAlone, InOverflow, u
  <2> QED
    BY <2>2, <2>3, <2>4, <1>6, <1>1 DEF DataInv, u
<1> QED
  BY <1>4, <1>5, <1>7, <1>8 DEF StreamInv

LEMMA SendingEnds ==
    ASSUME StreamInv, socket # "none", NEW t \in Users,
           NEW c \in StreamCalls \ {"none"}, NEW char \in Nat,
           Sent(t, c, char), t = "watchdog" => c = "close",
           UNCHANGED <<half, unbuffered, sent>>,
           overlapped' \in BOOLEAN, overlapped => overlapped', written' \in Nat,
           c # "put" => char = 0,
           StillLive /\ c \notin {"close", "destroy"} =>
              /\ Undisturbed(t)
              /\ char \in {0, written'}
              /\ written' = wire + (IF unbuffered \/ char = 0 THEN 0 ELSE 1)
    PROVE  StreamInv'
<1>1. BufferSize \in Nat \ {0}
  BY StreamAssumption
<1>2. memory \in [1..BufferSize -> Nat] /\ wire \in Nat
  BY DEF StreamInv, StreamTypeOK
<1>3. AfterOverflow(t, c, TRUE)
  BY DEF Sent
<1>4. CASE ~unbuffered /\ char # 0
  <2>1. pptr' = 1 /\ memory' = [memory EXCEPT ![1] = char]
    BY <1>4 DEF Sent
  <2>2. pptr' \in 0..BufferSize /\ memory' \in [1..BufferSize -> Nat]
    BY <2>1, <1>1, <1>2
  <2>3. memory'[1] = char
    BY <2>1, <1>1, <1>2
  <2>4. StillLive /\ c \notin {"close", "destroy"} =>
          /\ written' = wire + pptr'
          /\ \A i \in 1..(pptr') : memory'[i] = wire + i
    BY <2>1, <2>3, <1>2, <1>4
  <2> QED
    BY <2>1, <2>2, <2>4, <1>3, <1>4, EndOfCall
<1>5. CASE unbuffered \/ char = 0
  <2>1. pptr' = 0 /\ memory' = memory
    BY <1>5 DEF Sent
  <2>2. pptr' \in 0..BufferSize /\ memory' \in [1..BufferSize -> Nat]
    BY <2>1, <1>1, <1>2
  <2>3. StillLive /\ c \notin {"close", "destroy"} =>
          /\ written' = wire + pptr'
          /\ \A i \in 1..(pptr') : memory'[i] = wire + i
    BY <2>1, <1>2, <1>5
  <2> QED
    BY <2>1, <2>2, <2>3, <1>3, EndOfCall
<1> QED
  BY <1>4, <1>5 DEF StreamInv, StreamTypeOK

LEMMA SendingStarts ==
    ASSUME StreamInv, socket # "none", NEW t \in Users,
           NEW c \in StreamCalls \ {"none"},
           NEW from \in Nat, NEW to \in Nat, NEW char \in Nat,
           StartWrite(t, c, from, to, char), t = "watchdog" => c = "close",
           UNCHANGED <<half, unbuffered, sent>>,
           overlapped' \in BOOLEAN, overlapped => overlapped', written' \in Nat,
           c # "put" => char = 0,
           StillLive =>
              /\ Undisturbed(t)
              /\ from <= to
              /\ char \in {0, written'}
              /\ IF unbuffered
                 THEN to = 1 /\ pptr = 0 /\ char # 0 /\ written' = wire + 1 - from
                 ELSE /\ \A i \in (from + 1)..to : memory[i] = wire + (i - from)
                      /\ written' = wire + (to - from) + (IF char = 0 THEN 0 ELSE 1)
    PROVE  StreamInv'
<1> DEFINE u == Other(t)
           place == [step |-> IF socket = "closed" THEN "failed" ELSE "writing",
                     call |-> c, from |-> from, to |-> to, char |-> char, n |-> 0]
<1>1. u \in Users /\ u # t /\ Other(u) = t /\ \A v \in Users : v = t \/ v = u
  BY OtherUser
<1>2. place \in Places
  BY DEF Places, Steps
<1>3. Moves(t, place) /\ UNCHANGED <<socket, memory, pptr, bad>>
  BY DEF StartWrite
<1>4. at' \in [Users -> Places] /\ at'[t] = place /\ at'[u] = at[u]
  BY <1>2, <1>3, MovesFacts DEF StreamInv, StreamTypeOK
<1> HIDE DEF u
<1>5. StreamTypeOK' /\ socket' # "none" /\ (~overlapped' => ~garbled')
  BY <1>3, <1>4 DEF StreamInv, StreamTypeOK, sent
<1>6. CallsOK'
  BY <1>1, <1>3, <1>4 DEF StreamInv, CallsOK, InOverflow, Connected
<1>7. ASSUME Live' PROVE DataInv'
  <2>1. StillLive /\ Live
    BY <1>3, <1>7 DEF Live, Connected, StillLive
  <2>2. InOverflow(t)' /\ ~InOverflow(u)' /\ ~(at'[u].step = "reading" /\ half')
    BY <2>1, <1>4 DEF Undisturbed, u, InOverflow
  <2>3. Pending(t)'
    BY <2>1, <1>3, <1>4 DEF Pending, sent
  <2>4. ReaderAlone(t)' /\ ReaderAlone(u)' /\ AreaKept'
    BY <2>2, <1>1, <1>4 DEF ReaderAlone, AreaKept, u
  <2> QED
    BY <2>2, <2>3, <2>4, <1>1 DEF DataInv, u
<1> QED
  BY <1>5, <1>6, <1>7 DEF StreamInv

LEMMA OverflowKeepsStreamInv ==
    ASSUME StreamInv, NEW t \in Users, Out(t),
           NEW c \in StreamCalls \ {"none"}, NEW char \in Nat,
           Overflow(t, c, char), t = "watchdog" => c = "close",
           \/ /\ c = "put" /\ char = written' /\ written' = written + 1
              /\ unbuffered \/ pptr = BufferSize
           \/ c # "put" /\ char = 0 /\ written' = written
    PROVE  StreamInv'
<1> DEFINE u == Other(t)
<1>1. u \in Users /\ u # t /\ Other(u) = t /\ \A v \in Users : v = t \/ v = u
  BY OtherUser
<1>2. /\ socket # "none" /\ at[t].step = "out"
      /\ UNCHANGED <<half, unbuffered, sent>>
      /\ overlapped' = (overlapped \/ InOverflow(u))
  BY DEF Out, Overflow
<1>3. /\ overlapped' \in BOOLEAN /\ overlapped => overlapped'
      /\ written \in Nat /\ wire \in Nat /\ pptr \in Nat /\ pptr \in 0..BufferSize
      /\ memory \in [1..BufferSize -> Nat] /\ written' \in Nat
  BY <1>2, StreamAssumption DEF StreamInv, StreamTypeOK, Out
<1> HIDE DEF u
<1>4. ASSUME StillLive
      PROVE  /\ ~InOverflow(u)
             /\ written = wire + pptr
             /\ \A i \in 1..pptr : memory[i] = wire + i
             /\ unbuffered => pptr = 0
             /\ at[u].step = "reading" /\ half => t = "watchdog" /\ pptr = 0
  <2>1. ~overlapped /\ ~InOverflow(u) /\ ~InOverflow(t)
    BY <1>2, <1>4 DEF StillLive, InOverflow
  <2>2. DataInv
    BY <2>1, <1>4 DEF StillLive, Live, StreamInv
  <2>3. AreaKept /\ ReaderAlone(u)
    BY <2>2, <1>1 DEF DataInv
  <2>4. at[u].step = "reading" => t = "watchdog"
    BY <1>1 DEF StreamInv, CallsOK, Users
  <2> QED
    BY <2>1, <2>3, <2>4, <1>1 DEF AreaKept, ReaderAlone
<1>5. CASE unbuffered /\ char = 0
  <2>1. AfterOverflow(t, c, TRUE) /\ UNCHANGED <<memory, pptr>>
    BY <1>5 DEF Overflow
  <2>2. StillLive /\ c \notin {"close", "destroy"} =>
              /\ Undisturbed(t)
              /\ written' = wire + pptr'
              /\ \A i \in 1..(pptr') : memory'[i] = wire + i
              /\ unbuffered => pptr' = 0
              /\ c = "read" /\ half => pptr' = 0
    BY <2>1, <1>3, <1>4, <1>5 DEF Undisturbed, u
  <2> QED
    BY <2>1, <2>2, <1>2, <1>3, EndOfCall
<1>6. CASE ~unbuffered /\ pptr = 0
  <2>1. Sent(t, c, char)
    BY <1>6 DEF Overflow
  <2>2. BufferSize # 0
    BY StreamAssumption
  <2>3. StillLive /\ c \notin {"close", "destroy"} =>
              /\ Undisturbed(t)
              /\ char \in {0, written'}
              /\ written' = wire + (IF unbuffered \/ char = 0 THEN 0 ELSE 1)
    BY <2>2, <1>3, <1>4, <1>6 DEF Undisturbed, u
  <2>4. c # "put" => char = 0
    OBVIOUS
  <2> QED
    BY <2>1, <2>3, <2>4, <1>2, <1>3, SendingEnds
<1>7. CASE unbuffered /\ char # 0
  <2>1. StartWrite(t, c, 0, 1, char)
    BY <1>7 DEF Overflow
  <2>2. StillLive =>
              /\ Undisturbed(t)
              /\ 0 <= 1 /\ char \in {0, written'}
              /\ pptr = 0 /\ written' = wire + 1 - 0
    BY <1>3, <1>4, <1>7 DEF Undisturbed, u
  <2>3. c # "put" => char = 0
    OBVIOUS
  <2> QED
    BY <2>1, <2>2, <2>3, <1>2, <1>3, <1>7, SendingStarts
<1>8. CASE ~unbuffered /\ pptr # 0
  <2>1. StartWrite(t, c, 0, pptr, char)
    BY <1>8 DEF Overflow
  <2>2. StillLive =>
              /\ Undisturbed(t)
              /\ 0 <= pptr /\ char \in {0, written'}
              /\ \A i \in (0 + 1)..pptr : memory[i] = wire + (i - 0)
              /\ written' = wire + (pptr - 0) + (IF char = 0 THEN 0 ELSE 1)
    BY <1>3, <1>4, <1>8 DEF Undisturbed, u
  <2>3. c # "put" => char = 0
    OBVIOUS
  <2> QED
    BY <2>1, <2>2, <2>3, <1>2, <1>3, <1>8, SendingStarts
<1> QED
  BY <1>5, <1>6, <1>7, <1>8 DEF StreamInv, StreamTypeOK

-----------------------------------------------------------------------------
(* The steps of the stream, and the start of a connection.                 *)
LEMMA InOverflowFacts ==
    ASSUME StreamInv, NEW t \in Users, InOverflow(t)
    PROVE  /\ socket # "none" /\ at[t] \in Places
           /\ at[t].call \in StreamCalls \ {"none"}
           /\ t = "watchdog" => at[t].call = "close"
           /\ at[t].call # "put" => at[t].char = 0
           /\ Live => Pending(t) /\ Undisturbed(t)
<1>1. /\ at[t] \in Places
      /\ at[t].call # "none"
      /\ t = "watchdog" => at[t].call = "close"
      /\ at[t].call # "put" => at[t].char = 0
  BY DEF StreamInv, StreamTypeOK, CallsOK
<1>2. socket # "none"
  BY DEF StreamInv, InOverflow, Place
<1>3. ASSUME Live PROVE Pending(t) /\ Undisturbed(t)
  <2>1. ~InOverflow(Other(t)) /\ Pending(t) /\ ReaderAlone(Other(t))
    BY <1>3, OtherUser DEF StreamInv, DataInv
  <2> QED
    BY <2>1, OtherUser DEF ReaderAlone, Undisturbed
<1> QED
  BY <1>1, <1>2, <1>3 DEF Places

LEMMA ResumeWriteKeepsStreamInv ==
    ASSUME StreamInv, NEW t \in Users, ResumeWrite(t)
    PROVE  StreamInv'
<1> DEFINE p == at[t]
<1>1. InOverflow(t)
  BY DEF ResumeWrite, InOverflow
<1>2. /\ p.call \in StreamCalls \ {"none"} /\ p.from \in Nat /\ p.to \in Nat
      /\ p.char \in Nat /\ socket # "none"
      /\ t = "watchdog" => p.call = "close"
      /\ p.call # "put" => p.char = 0
  BY <1>1, InOverflowFacts DEF Places
<1>3. /\ UNCHANGED <<half, unbuffered, sent>>
      /\ overlapped' = overlapped /\ written' = written
      /\ overlapped' \in BOOLEAN /\ written' \in Nat /\ wire \in Nat
  BY DEF ResumeWrite, StreamInv, StreamTypeOK
<1>4. StillLive => Pending(t) /\ Undisturbed(t)
  BY <1>1, <1>3, InOverflowFacts DEF StillLive, Live
<1> HIDE DEF p
<1>5. CASE p.from < p.to
  <2>1. StartWrite(t, p.call, p.from, p.to, p.char)
    BY <1>5 DEF ResumeWrite, p
  <2>2. StillLive =>
              /\ Undisturbed(t)
              /\ p.from <= p.to
              /\ p.char \in {0, written'}
              /\ IF unbuffered
                 THEN p.to = 1 /\ pptr = 0 /\ p.char # 0 /\ written' = wire + 1 - p.from
                 ELSE /\ \A i \in (p.from + 1)..p.to : memory[i] = wire + (i - p.from)
                      /\ written' = wire + (p.to - p.from)
                                       + (IF p.char = 0 THEN 0 ELSE 1)
    BY <1>3, <1>4 DEF Pending, p
  <2> QED
    BY <2>1, <2>2, <1>2, <1>3, SendingStarts
<1>6. CASE ~(p.from < p.to)
  <2>1. Sent(t, p.call, p.char)
    BY <1>6 DEF ResumeWrite, p
  <2>2. StillLive /\ p.call \notin {"close", "destroy"} =>
              /\ Undisturbed(t)
              /\ p.char \in {0, written'}
              /\ written' = wire + (IF unbuffered \/ p.char = 0 THEN 0 ELSE 1)
    BY <1>2, <1>3, <1>4, <1>6 DEF Pending, p
  <2> QED
    BY <2>1, <2>2, <1>2, <1>3, SendingEnds
<1> QED
  BY <1>5, <1>6

LEMMA ResumeFailedKeepsStreamInv ==
    ASSUME StreamInv, NEW t \in Users, ResumeFailed(t)
    PROVE  StreamInv'
<1> DEFINE c == at[t].call
<1>1. InOverflow(t) /\ at[t].step = "failed"
  BY DEF ResumeFailed, InOverflow
<1>2. c \in StreamCalls \ {"none"} /\ socket # "none" /\ (t = "watchdog" => c = "close")
  BY <1>1, InOverflowFacts
<1>3. ~Connected
  BY <1>1 DEF StreamInv, CallsOK
<1>4. /\ UNCHANGED <<half, unbuffered, sent, overlapped, pptr, memory, written>>
      /\ AfterOverflow(t, c, FALSE)
  BY DEF ResumeFailed
<1>5. /\ overlapped' \in BOOLEAN /\ pptr' \in 0..BufferSize
      /\ memory' \in [1..BufferSize -> Nat] /\ written' \in Nat
  BY <1>4 DEF StreamInv, StreamTypeOK
<1> HIDE DEF c
<1> QED
  BY <1>2, <1>3, <1>4, <1>5, EndOfCall DEF StillLive

LEMMA CallsKeepStreamInv ==
    ASSUME StreamInv, NEW t \in Users,
           \/ Close(t)
           \/ t = "servant" /\ (Flush(t) \/ (half /\ Underflow(t)) \/ Destroy)
    PROVE  StreamInv'
<1>1. CASE /\ Close(t)
           /\ socket = "closed" \/ bad
           /\ AfterOverflow(t, "close", TRUE)
           /\ UNCHANGED <<half, unbuffered, memory, pptr, avail, sent, overlapped>>
  <2>1. /\ socket # "none"
        /\ UNCHANGED <<half, unbuffered, sent, overlapped, pptr, memory, written>>
    BY <1>1 DEF Close, Out
  <2>2. /\ overlapped' \in BOOLEAN /\ pptr' \in 0..BufferSize
        /\ memory' \in [1..BufferSize -> Nat] /\ written' \in Nat
    BY <2>1 DEF StreamInv, StreamTypeOK
  <2>3. PICK c \in StreamCalls \ {"none"} : c = "close"
    BY DEF StreamCalls
  <2>4. AfterOverflow(t, c, TRUE)
    BY <1>1, <2>3
  <2> QED
    BY <2>1, <2>2, <2>3, <2>4, EndOfCall
<1>2. CASE Close(t) /\ Overflow(t, "close", 0)
  <2>1. Out(t) /\ written' = written
    BY <1>2 DEF Close
  <2> QED
    BY <2>1, <1>2, OverflowKeepsStreamInv DEF StreamCalls
<1>3. CASE t = "servant" /\ Flush(t)
  BY <1>3, OverflowKeepsStreamInv DEF Flush, StreamCalls
<1>4. CASE t = "servant" /\ half /\ Underflow(t)
  BY <1>4, OverflowKeepsStreamInv DEF Underflow, StreamCalls
<1>5. CASE t = "servant" /\ Destroy
  BY <1>5, OverflowKeepsStreamInv DEF Destroy, StreamCalls
<1> QED
  BY <1>1, <1>2, <1>3, <1>4, <1>5 DEF Close

LEMMA PutKeepsStreamInv ==
    ASSUME StreamInv, Put("servant")
    PROVE  StreamInv'
<1> DEFINE t == "servant"
           u == Other(t)
<1>1. t \in Users /\ u \in Users /\ u # t /\ \A v \in Users : v = t \/ v = u
  BY OtherUser DEF Users
<1>2. /\ Out(t) /\ written' = written + 1 /\ StreamTypeOK
      /\ written \in Nat /\ wire \in Nat /\ written' \in Nat
  BY DEF Put, StreamInv, StreamTypeOK
<1>3. CASE Overflow(t, "put", written') /\ (unbuffered \/ ~(pptr < BufferSize))
  <2>1. unbuffered \/ pptr = BufferSize
    BY <1>2, <1>3, StreamAssumption DEF StreamTypeOK
  <2> QED
    BY <2>1, <1>1, <1>2, <1>3, OverflowKeepsStreamInv DEF StreamCalls
<1>4. CASE /\ ~unbuffered /\ pptr < BufferSize
           /\ memory' = [memory EXCEPT ![pptr + 1] = written']
           /\ pptr' = pptr + 1
           /\ overlapped' = (overlapped \/ InOverflow(u))
           /\ UNCHANGED <<socket, half, unbuffered, avail, bad, at, sent>>
  <2> HIDE DEF t, u
  <2>1. pptr \in Nat /\ pptr' \in 0..BufferSize
    BY <1>2, <1>4, StreamAssumption DEF StreamTypeOK
  <2>2. pptr + 1 \in 1..BufferSize /\ memory \in [1..BufferSize -> Nat]
    BY <1>2, <1>4, <2>1, StreamAssumption DEF StreamTypeOK
  <2>3. memory' \in [1..BufferSize -> Nat] /\ overlapped' \in BOOLEAN
    BY <1>2, <1>4, <2>2 DEF StreamTypeOK
  <2>4. StreamTypeOK'
    BY <1>2, <1>4, <2>1, <2>3 DEF StreamTypeOK, sent
  <2>5. socket' # "none" /\ CallsOK' /\ (~overlapped' => ~garbled')
    BY <1>2, <1>4 DEF StreamInv, CallsOK, InOverflow, Connected, sent, Out
  <2>6. ASSUME Live' PROVE DataInv'
    <3>1. Live /\ ~InOverflow(u) /\ ~InOverflow(t) /\ at[t].step = "out"
      BY <1>2, <1>4, <2>6 DEF Live, Connected, InOverflow, Out
    <3>2. /\ ~InOverflow(t)' /\ ~InOverflow(u)' /\ at'[t].step = "out"
      BY <3>1, <1>4 DEF InOverflow
    <3>3. /\ written = wire + pptr
          /\ \A i \in 1..pptr : memory[i] = wire + i
      BY <3>1, <1>1 DEF StreamInv, DataInv, AreaKept
    <3>4. memory'[pptr + 1] = wire + (pptr + 1) /\ \A i \in 1..pptr : memory'[i] = memory[i]
      BY <3>3, <1>2, <1>4, <2>1, <2>2
    <3>5. written' = wire' + pptr' /\ \A i \in 1..(pptr') : memory'[i] = wire' + i
      BY <3>3, <3>4, <1>2, <1>4, <2>1 DEF sent
    <3>6. AreaKept'
      BY <3>5, <1>4 DEF AreaKept
    <3>7. at'[u].step # "reading"
      BY <1>1, <1>4 DEF StreamInv, CallsOK, Users, t
    <3> QED
      BY <3>2, <3>6, <3>7, <1>1 DEF DataInv, ReaderAlone
  <2> QED
    BY <2>4, <2>5, <2>6 DEF StreamInv
<1> QED
  BY <1>3, <1>4 DEF Put

(* A thread outside overflow goes elsewhere, not into overflow.            *)
LEMMA MoveKeepsStreamInv ==
    ASSUME StreamInv, socket # "none", NEW t \in Users, NEW place \in Places,
           Moves(t, place), bad' \in BOOLEAN,
           UNCHANGED <<socket, half, unbuffered, memory, pptr, written, sent,
                       overlapped>>,
           ~InOverflow(t), place.step \notin {"writing", "wrote", "failed"},
           place.step = "reading" => ~half,
           t = "watchdog" => place.step \in {"out", "gone"}
    PROVE  StreamInv'
<1> DEFINE u == Other(t)
<1>1. u \in Users /\ u # t /\ \A v \in Users : v = t \/ v = u
  BY OtherUser
<1>2. at' \in [Users -> Places] /\ at'[t] = place /\ at'[u] = at[u]
  BY MovesFacts DEF StreamInv, StreamTypeOK
<1>3. Other(u) = t
  BY OtherUser
<1> HIDE DEF u
<1>4. StreamTypeOK' /\ socket' # "none" /\ (~overlapped' => ~garbled')
  BY <1>2 DEF StreamInv, StreamTypeOK, sent
<1>5. \A v \in Users : InOverflow(v)' <=> InOverflow(v)
  BY <1>1, <1>2 DEF InOverflow
<1>6. CallsOK'
  BY <1>1, <1>2, <1>5 DEF StreamInv, CallsOK, Connected, InOverflow
<1>7. ASSUME Live' PROVE DataInv'
  <2>1. DataInv
    BY <1>7 DEF StreamInv, Live, Connected
  <2>2. AreaKept'
    BY <2>1, <1>5 DEF DataInv, AreaKept, sent
  <2>3. InOverflow(u) => Pending(u) /\ ~InOverflow(t)
    BY <2>1, <1>1, <1>3 DEF DataInv
  <2>4. InOverflow(u) => Pending(u)'
    BY <2>3, <1>2 DEF Pending, sent
  <2>5. ReaderAlone(u)
    BY <2>1, <1>1 DEF DataInv
  <2>6. ReaderAlone(t)' /\ ReaderAlone(u)'
    BY <2>5, <1>1, <1>2, <1>3, <1>5 DEF ReaderAlone
  <2> QED
    BY <2>2, <2>4, <2>6, <1>1, <1>3, <1>5 DEF DataInv
<1> QED
  BY <1>4, <1>6, <1>7 DEF StreamInv

LEMMA ReadingKeepsStreamInv ==
    ASSUME StreamInv, NEW t \in Users,
           \/ ReadCompletes(t) \/ ResumeRead(t)
           \/ t = "servant" /\ (ReadBuffered(t) \/ (~half /\ Underflow(t)))
           \/ t = "watchdog" /\ WatchdogEnds
    PROVE  StreamInv'
<1>1. /\ at[t] \in Places /\ at \in [Users -> Places] /\ bad \in BOOLEAN
      /\ StreamAssumption
  BY StreamAssumption DEF StreamInv, StreamTypeOK
<1>2. CASE ReadCompletes(t)
  <2>1. at[t].step = "reading" /\ t # "watchdog"
    BY <1>2 DEF ReadCompletes, StreamInv, CallsOK
  <2>2. socket # "none" /\ ~InOverflow(t)
    BY <2>1 DEF StreamInv, Place, InOverflow
  <2>3. PICK place \in Places : /\ place.step \in {"read", "eof"}
                                 /\ at' = [at EXCEPT ![t] = place]
    <3>1. CASE at' = [at EXCEPT ![t].step = "eof"]
      <4>1. [at[t] EXCEPT !.step = "eof"] \in Places
        BY <1>1 DEF Places, Steps
      <4> QED
        BY <3>1, <4>1, <1>1 DEF Places
    <3>2. ASSUME NEW n \in 1..Transfer, at' = [at EXCEPT ![t].step = "read", ![t].n = n]
          PROVE  \E place \in Places : /\ place.step \in {"read", "eof"}
                                        /\ at' = [at EXCEPT ![t] = place]
      <4> DEFINE place == [at[t] EXCEPT !.step = "read", !.n = n]
      <4> n \in Nat
        BY <1>1 DEF StreamAssumption
      <4>1. place \in Places /\ place.step = "read"
        BY <1>1 DEF Places, Steps
      <4>2. at' = [at EXCEPT ![t] = place]
        BY <3>2, <1>1
      <4> QED
        BY <4>1, <4>2
    <3> QED
      BY <3>1, <3>2, <1>2 DEF ReadCompletes
  <2> QED
    BY <2>1, <2>2, <2>3, <1>1, <1>2, MoveKeepsStreamInv DEF ReadCompletes, Moves
<1>3. CASE ResumeRead(t)
  <2>1. socket # "none" /\ ~InOverflow(t)
    BY <1>3 DEF ResumeRead, StreamInv, Place, InOverflow
  <2> QED
    BY <2>1, <1>1, <1>3, PlaceType, MoveKeepsStreamInv DEF ResumeRead, Place, Steps
<1>4. CASE t = "servant" /\ ReadBuffered(t)
  <2>1. socket # "none" /\ ~InOverflow(t) /\ Moves(t, at[t]) /\ at[t].step = "out"
    BY <1>1, <1>4 DEF ReadBuffered, Out, InOverflow, Moves
  <2> QED
    BY <2>1, <1>1, <1>4, MoveKeepsStreamInv DEF ReadBuffered
<1>5. CASE t = "servant" /\ ~half /\ Underflow(t)
  <2> DEFINE place == [Place(IF socket = "closed" THEN "eof" ELSE "reading")
                         EXCEPT !.call = "read"]
  <2>1. place \in Places /\ place.step \in {"reading", "eof"}
    BY DEF Place, Places, Steps, StreamCalls
  <2>2. /\ socket # "none" /\ ~InOverflow(t) /\ Moves(t, place) /\ bad' = bad
        /\ UNCHANGED <<socket, half, unbuffered, memory, pptr, written, sent,
                       overlapped>>
    BY <1>5 DEF Underflow, StartRead, Out, InOverflow
  <2> HIDE DEF place
  <2> QED
    BY <2>1, <2>2, <1>1, <1>5, MoveKeepsStreamInv
<1>6. CASE t = "watchdog" /\ WatchdogEnds
  <2>1. socket # "none" /\ ~InOverflow(t)
    BY <1>6 DEF WatchdogEnds, Out, InOverflow
  <2>2. Place("gone") \in Places /\ Place("gone").step = "gone"
    BY DEF Place, Places, Steps, StreamCalls
  <2> QED
    BY <2>1, <2>2, <1>1, <1>6, MoveKeepsStreamInv DEF WatchdogEnds
<1> QED
  BY <1>2, <1>3, <1>4, <1>5, <1>6

(* The kernel takes the next bytes of what is pending, and no others.      *)
LEMMA WriteCompletesFacts ==
    ASSUME StreamInv, NEW t \in Users, WriteCompletes(t), ~overlapped
    PROVE  \E k \in Nat : /\ k \in 1..(at[t].to - at[t].from)
                           /\ at' = [at EXCEPT ![t].step = "wrote", ![t].from = @ + k]
                           /\ wire' = wire + k /\ garbled' = garbled
<1> DEFINE p == at[t]
           inTurn(k) == \A i \in 1..k : IF unbuffered THEN p.char = wire + i
                                         ELSE memory[p.from + i] = wire + i
<1>1. /\ p.from \in Nat /\ p.to \in Nat /\ p.char \in Nat /\ wire \in Nat
      /\ written \in Nat /\ garbled \in BOOLEAN
  BY DEF StreamInv, StreamTypeOK, Places
<1>2. Pending(t)
  BY InOverflowFacts DEF WriteCompletes, InOverflow, Live, Connected
<1>3. PICK k \in 1..(p.to - p.from) :
             /\ at' = [at EXCEPT ![t].step = "wrote", ![t].from = @ + k]
             /\ wire' = IF inTurn(k) THEN wire + k ELSE wire
             /\ garbled' = (garbled \/ ~inTurn(k))
  BY DEF WriteCompletes
<1>4. k \in Nat /\ p.from + k <= p.to
  BY <1>1
<1>5. inTurn(k)
  <2>1. CASE unbuffered
    BY <2>1, <1>1, <1>2, <1>4 DEF Pending
  <2>2. CASE ~unbuffered
    <3>1. \A i \in (p.from + 1)..p.to : memory[i] = wire + (i - p.from)
      BY <2>2, <1>2 DEF Pending
    <3>2. \A i \in 1..k : p.from + i \in (p.from + 1)..p.to
      BY <1>1, <1>4
    <3> QED
      BY <2>2, <3>1, <3>2, <1>1
  <2> QED
    BY <2>1, <2>2
<1> QED
  BY <1>1, <1>3, <1>4, <1>5

LEMMA WritingKeepsStreamInv ==
    ASSUME StreamInv, NEW t \in Users, WriteCompletes(t) \/ WriteFails(t)
    PROVE  StreamInv'
<1> DEFINE u == Other(t)
           p == at[t]
<1>1. u \in Users /\ u # t /\ Other(u) = t /\ \A v \in Users : v = t \/ v = u
  BY OtherUser
<1>2. /\ p \in Places /\ wire \in Nat /\ written \in Nat /\ at \in [Users -> Places]
      /\ p.from \in Nat /\ p.to \in Nat
  BY DEF StreamInv, StreamTypeOK, Places
<1>3. InOverflow(t) /\ at[t].step = "writing"
  BY DEF WriteCompletes, WriteFails, InOverflow
<1>4. /\ UNCHANGED <<socket, half, unbuffered, memory, pptr, bad, written, overlapped>>
      /\ socket # "none"
  BY DEF WriteCompletes, WriteFails
<1> HIDE DEF u, p
<1>5. \E place \in Places :
         /\ at' = [at EXCEPT ![t] = place]
         /\ place.step \in {"wrote", "failed"}
         /\ place.step = "failed" => WriteFails(t)
         /\ place.call = p.call /\ place.char = p.char /\ place.to = p.to
  <2>1. CASE WriteFails(t)
    <3>1. [p EXCEPT !.step = "failed"] \in Places
      BY <1>2 DEF Places, Steps
    <3> QED
      BY <2>1, <3>1, <1>2 DEF WriteFails, p, Places
  <2>2. CASE WriteCompletes(t)
    <3>1. PICK k \in 1..(p.to - p.from) :
                 at' = [at EXCEPT ![t].step = "wrote", ![t].from = @ + k]
      BY <2>2 DEF WriteCompletes, p
    <3> DEFINE place == [p EXCEPT !.step = "wrote", !.from = @ + k]
    <3> p.from + k \in Nat
      BY <1>2
    <3>2. /\ place \in Places /\ place.step = "wrote" /\ place.call = p.call
          /\ place.char = p.char /\ place.to = p.to
      BY <1>2 DEF Places, Steps
    <3>3. at' = [at EXCEPT ![t] = place]
      BY <3>1, <1>2 DEF p
    <3> QED
      BY <3>2, <3>3
  <2> QED
    BY <2>1, <2>2
<1>6. /\ at' \in [Users -> Places] /\ at'[u] = at[u]
      /\ at'[t].step \in {"wrote", "failed"}
      /\ at'[t].step = "failed" => WriteFails(t)
      /\ at'[t].call = p.call /\ at'[t].char = p.char /\ at'[t].to = p.to
  BY <1>1, <1>2, <1>5
<1>7. garbled' \in BOOLEAN /\ wire' \in Nat
  <2>1. CASE WriteFails(t)
    BY <2>1 DEF WriteFails, StreamInv, StreamTypeOK, sent
  <2>2. CASE WriteCompletes(t)
    <3>1. PICK k \in 1..(p.to - p.from) : wire' \in {wire, wire + k}
      BY <2>2 DEF WriteCompletes, p
    <3>2. garbled' \in BOOLEAN
      BY <2>2 DEF WriteCompletes, StreamInv, StreamTypeOK
    <3> QED
      BY <3>1, <3>2, <1>2
  <2> QED
    BY <2>1, <2>2
<1>8. StreamTypeOK' /\ socket' # "none"
  BY <1>4, <1>6, <1>7 DEF StreamInv, StreamTypeOK
<1>9. ~overlapped' => ~garbled'
  <2>1. CASE WriteFails(t)
    BY <2>1 DEF WriteFails, StreamInv, sent
  <2>2. CASE WriteCompletes(t)
    BY <2>2, <1>4, WriteCompletesFacts DEF StreamInv
  <2> QED
    BY <2>1, <2>2
<1>10. \A v \in Users : InOverflow(v)' <=> InOverflow(v)
  BY <1>1, <1>3, <1>6 DEF InOverflow
<1>11. CallsOK'
  <2>1. Connected' => ~WriteFails(t)
    BY <1>4 DEF Connected, WriteFails
  <2> QED
    BY <2>1, <1>1, <1>3, <1>4, <1>6, <1>10 DEF StreamInv, CallsOK, Connected, p, InOverflow
<1>12. ASSUME Live' PROVE DataInv'
  <2>1. Live /\ ~overlapped /\ WriteCompletes(t)
    BY <1>4, <1>12 DEF Live, Connected, WriteFails
  <2>2. Pending(t) /\ Undisturbed(t)
    BY <2>1, <1>3, InOverflowFacts
  <2>3. PICK k \in Nat : /\ k \in 1..(p.to - p.from)
                         /\ at' = [at EXCEPT ![t].step = "wrote", ![t].from = @ + k]
                         /\ wire' = wire + k
    BY <2>1, WriteCompletesFacts DEF p
  <2>4. at'[t].from = p.from + k /\ p.from + k <= p.to
    BY <2>3, <1>2 DEF p
  <2>5. Pending(t)'
    <3>1. CASE unbuffered
      BY <3>1, <2>2, <2>3, <2>4, <1>2, <1>4, <1>6 DEF Pending, p
    <3>2. CASE ~unbuffered
      <4>1. \A i \in (p.from + 1)..p.to : memory[i] = wire + (i - p.from)
        BY <3>2, <2>2 DEF Pending, p
      <4>2. \A i \in (p.from + k + 1)..p.to : memory[i] = wire + k + (i - (p.from + k))
        BY <4>1, <2>4, <1>2
      <4>3. written = wire + k + (p.to - (p.from + k)) + (IF p.char = 0 THEN 0 ELSE 1)
        BY <3>2, <2>2, <2>4, <1>2 DEF Pending, p
      <4> QED
        BY <3>2, <4>2, <4>3, <2>2, <2>3, <2>4, <1>4, <1>6 DEF Pending, p
    <3> QED
      BY <3>1, <3>2
  <2>6. ~InOverflow(u) /\ ~(at[u].step = "reading" /\ half)
    BY <2>2 DEF Undisturbed, u
  <2>7. AreaKept' /\ ReaderAlone(t)' /\ ReaderAlone(u)'
    BY <2>6, <1>1, <1>3, <1>4, <1>6, <1>10 DEF AreaKept, ReaderAlone, u
  <2> QED
    BY <2>5, <2>6, <2>7, <1>1, <1>10 DEF DataInv, u
<1> QED
  BY <1>8, <1>9, <1>11, <1>12 DEF StreamInv

LEMMA InitStreamInv == Init => StreamInv
<1> SUFFICES ASSUME Init PROVE StreamInv
  OBVIOUS
<1>1. /\ socket = "none" /\ half \in BOOLEAN /\ unbuffered \in BOOLEAN
      /\ memory = [i \in 1..BufferSize |-> 0] /\ pptr = 0 /\ written = 0 /\ wire = 0
      /\ bad = FALSE /\ overlapped = FALSE /\ garbled = FALSE
      /\ at = [t \in Users |-> Place("out")]
  BY DEF Init, StreamInit
<1>2. Place("out") \in Places /\ Place("out").step = "out"
  BY DEF Place, Places, Steps, StreamCalls
<1>3. \A t \in Users : at[t] = Place("out") /\ at[t].step = "out" /\ ~InOverflow(t)
  BY <1>1, <1>2 DEF InOverflow
<1>4. StreamTypeOK
  <2>1. at \in [Users -> Places] /\ memory \in [1..BufferSize -> Nat]
    BY <1>1, <1>2
  <2>2. pptr \in 0..BufferSize
    BY <1>1, StreamAssumption
  <2> QED
    BY <1>1, <2>1, <2>2 DEF StreamTypeOK
<1>5. CallsOK
  BY <1>3 DEF CallsOK
<1>6. DataInv
  BY <1>1, <1>3 DEF DataInv, AreaKept, ReaderAlone
<1> QED
  BY <1>1, <1>3, <1>4, <1>5, <1>6 DEF StreamInv

LEMMA ServedElsewhere == StreamInv /\ UNCHANGED streamVars => StreamInv'
BY DEF StreamInv, StreamTypeOK, CallsOK, DataInv, AreaKept, Pending, ReaderAlone, Live,
       Connected, InOverflow, streamVars, sent

LEMMA ConnectKeepsStreamInv == StreamInv /\ Connect => StreamInv'
<1> SUFFICES ASSUME StreamInv, Connect PROVE StreamInv'
  OBVIOUS
<1>1. \A t \in Users : /\ at[t] = Place("out") /\ at'[t].step \in {"out", "gone"}
                        /\ at'[t] \in Places
  <2>1. at = [t \in Users |-> Place("out")]
    BY DEF Connect, StreamInv, StreamTypeOK
  <2>2. \A step \in {"out", "gone"} : Place(step) \in Places /\ Place(step).step = step
    BY DEF Place, Places, Steps, StreamCalls
  <2> QED
    BY <2>1, <2>2 DEF Connect, Moves
<1>2. \A t \in Users : ~InOverflow(t) /\ ~InOverflow(t)'
  BY <1>1 DEF InOverflow, Place
<1>3. StreamTypeOK' /\ CallsOK' /\ (~overlapped' => ~garbled')
  <2>1. at' \in [Users -> Places]
    BY <1>1 DEF Connect, Moves, StreamInv, StreamTypeOK
  <2>2. CallsOK'
    BY <1>1, <1>2 DEF CallsOK
  <2> QED
    BY <2>1, <2>2 DEF Connect, StreamInv, StreamTypeOK, sent
<1>4. ASSUME Live' PROVE DataInv'
  <2>1. AreaKept
    BY <1>4 DEF Connect, StreamInv, Live, Connected, DataInv
  <2> QED
    BY <2>1, <1>1, <1>2 DEF Connect, AreaKept, DataInv, ReaderAlone, sent
<1> QED
  BY <1>3, <1>4 DEF StreamInv, Connect

LEMMA PeerResetsKeepsStreamInv == StreamInv /\ PeerResets => StreamInv'
BY DEF PeerResets, StreamInv, StreamTypeOK, CallsOK, Live, Connected, InOverflow, sent

LEMMA NextStreamInv == StreamInv /\ [Next]_vars => StreamInv'
<1> SUFFICES ASSUME StreamInv, [Next]_vars PROVE StreamInv'
  OBVIOUS
<1>1. CASE UNCHANGED streamVars
  BY <1>1, ServedElsewhere
<1>2. CASE Connect
  BY <1>2, ConnectKeepsStreamInv
<1>3. CASE StreamNext
  <2> "servant" \in Users /\ "watchdog" \in Users
    BY DEF Users
  <2>1. ASSUME NEW t \in Users,
               \/ WriteCompletes(t) \/ WriteFails(t) \/ ReadCompletes(t) \/ Resumes(t)
               \/ Close(t)
        PROVE  StreamInv'
    BY <2>1, WritingKeepsStreamInv, ReadingKeepsStreamInv, ResumeWriteKeepsStreamInv,
       ResumeFailedKeepsStreamInv, CallsKeepStreamInv DEF Resumes
  <2>2. CASE Put("servant")
    BY <2>2, PutKeepsStreamInv
  <2>3. CASE Flush("servant") \/ Destroy
    BY <2>3, CallsKeepStreamInv
  <2>4. CASE ReadBuffered("servant")
    BY <2>4, ReadingKeepsStreamInv
  <2>5. CASE Underflow("servant")
    BY <2>5, ReadingKeepsStreamInv, CallsKeepStreamInv
  <2>6. CASE WatchdogEnds
    BY <2>6, ReadingKeepsStreamInv
  <2>7. CASE PeerResets
    BY <2>7, PeerResetsKeepsStreamInv
  <2> QED
    BY <1>3, <2>1, <2>2, <2>3, <2>4, <2>5, <2>6, <2>7 DEF StreamNext
<1>4. UNCHANGED streamVars \/ Connect \/ StreamNext
  BY DEF Next, vars, Listens, Start, Join, JoinReturns, StopTests, StopSets, Bind,
     BindFails, AcceptCompletes, Accepted, Refused, AcceptorEnds, WatchdogWaits,
     WatchdogCloses
<1> QED
  BY <1>1, <1>2, <1>3, <1>4

(* The invariant of the stream, in every state of the listener.            *)
THEOREM StreamInvariance == Spec => []StreamInv
BY InitStreamInv, NextStreamInv, PTL DEF Spec

-----------------------------------------------------------------------------
(* A call that closes a good socket has sent everything before.            *)
LEMMA OverflowClosesInOrder ==
    ASSUME StreamInv, NEW t \in Users, Out(t), NEW c, Overflow(t, c, 0),
           socket = "open", socket' = "closed", ~overlapped'
    PROVE  wire = written
<1>1. ~InOverflow(t) /\ ~InOverflow(Other(t)) /\ ~overlapped
  BY DEF Overflow, Out, InOverflow
<1>2. AreaKept
  BY <1>1 DEF StreamInv, Live, Connected, DataInv
<1>3. unbuffered \/ pptr = 0
  BY DEF Overflow, StartWrite
<1> QED
  BY <1>1, <1>2, <1>3, OtherUser DEF AreaKept, StreamInv, StreamTypeOK

LEMMA ResumeClosesInOrder ==
    ASSUME StreamInv, NEW t \in Users, ResumeWrite(t),
           socket = "open", socket' = "closed", ~overlapped'
    PROVE  wire = written
<1>1. InOverflow(t) /\ Live
  BY DEF ResumeWrite, InOverflow, Live, Connected
<1>2. /\ Pending(t)
      /\ at[t].call # "put" => at[t].char = 0
      /\ at[t].from \in Nat /\ at[t].to \in Nat /\ wire \in Nat /\ written \in Nat
  BY <1>1, InOverflowFacts DEF Places, StreamInv, StreamTypeOK
<1>3. ~(at[t].from < at[t].to) /\ AfterOverflow(t, at[t].call, TRUE)
  BY DEF ResumeWrite, StartWrite, Sent
<1>4. at[t].call # "put"
  BY <1>3 DEF AfterOverflow
<1> QED
  BY <1>2, <1>3, <1>4 DEF Pending

LEMMA StreamClosesInOrder ==
    ASSUME StreamInv, StreamNext, socket = "open", socket' = "closed",
           ~overlapped', ~bad'
    PROVE  wire' = written'
<1> "servant" \in Users
  BY DEF Users
<1>1. ASSUME NEW t \in Users, WriteCompletes(t) \/ WriteFails(t) \/ ReadCompletes(t)
                              \/ ResumeRead(t)
      PROVE  FALSE
  BY <1>1 DEF WriteCompletes, WriteFails, ReadCompletes, ResumeRead
<1>2. ASSUME NEW t \in Users, ResumeFailed(t) PROVE FALSE
  BY <1>2 DEF ResumeFailed, StreamInv, CallsOK, Connected
<1>3. ASSUME NEW t \in Users, ResumeWrite(t) PROVE wire' = written'
  <2>1. UNCHANGED <<wire, written>>
    BY <1>3 DEF ResumeWrite, sent
  <2> QED
    BY <2>1, <1>3, ResumeClosesInOrder
<1>4. ASSUME NEW t \in Users, Close(t) PROVE wire' = written'
  <2>1. CASE Overflow(t, "close", 0)
    <3>1. UNCHANGED <<wire, written>> /\ Out(t)
      BY <1>4, <2>1 DEF Close, Overflow, sent
    <3> QED
      BY <3>1, <2>1, OverflowClosesInOrder
  <2>2. CASE (socket = "closed" \/ bad) /\ AfterOverflow(t, "close", TRUE)
    BY <2>2 DEF AfterOverflow
  <2> QED
    BY <1>4, <2>1, <2>2 DEF Close
<1>5. CASE Destroy
  <2>1. UNCHANGED <<wire, written>> /\ Out("servant") /\ Overflow("servant", "destroy", 0)
    BY <1>5 DEF Destroy, Overflow, sent
  <2> QED
    BY <2>1, OverflowClosesInOrder
<1>6. ASSUME NEW c \in {"put", "flush", "read"}, NEW char, Overflow("servant", c, char)
      PROVE  FALSE
  BY <1>6 DEF Overflow, Sent, StartWrite, AfterOverflow, StartRead
<1>7. CASE \/ Put("servant") \/ Flush("servant") \/ Underflow("servant")
           \/ ReadBuffered("servant")
  BY <1>6, <1>7 DEF Put, Flush, Underflow, StartRead, ReadBuffered
<1>8. CASE WatchdogEnds \/ PeerResets
  BY <1>8 DEF WatchdogEnds, PeerResets
<1> QED
  BY <1>1, <1>2, <1>3, <1>4, <1>5, <1>7, <1>8 DEF StreamNext, Resumes

(* overflow's loop over async_write_some, the put area and the sync of close
   and of the destructor: however the writes are cut short, the peer gets the
   characters in order, each once, and all of them before a good stream is
   closed.                                                                 *)
THEOREM StreamWireInOrder == Spec => WireInOrder
<1>1. ASSUME StreamInv, StreamInv', [Next]_vars
      PROVE  [~overlapped' =>
               /\ ~garbled'
               /\ socket = "open" /\ socket' = "closed" /\ ~bad' => wire' = written'
             ]_streamVars
  <2>1. ASSUME ~overlapped', socket = "open", socket' = "closed", ~bad'
        PROVE  wire' = written'
    <3>1. StreamNext
      BY <1>1, <2>1 DEF Next, vars, streamVars, Listens, Start, Join, JoinReturns,
         StopTests, StopSets, Bind, BindFails, AcceptCompletes, Accepted, Refused,
         AcceptorEnds, WatchdogWaits, WatchdogCloses
    <3> QED
      BY <3>1, <1>1, <2>1, StreamClosesInOrder
  <2>2. ~overlapped' => ~garbled'
    BY <1>1 DEF StreamInv
  <2> QED
    BY <2>1, <2>2
<1> QED
  BY <1>1, StreamInvariance, PTL DEF Spec, WireInOrder

(* underflow's sync in half duplex mode: a thread that waits for the peer has
   sent it everything first.                                               *)
THEOREM StreamReadersFlush == Spec => []ReadersFlushFirst
<1>1. StreamInv => ReadersFlushFirst
  <2> SUFFICES ASSUME StreamInv, NEW t \in Users, at[t].step = "reading", half,
                      socket = "open", ~overlapped
               PROVE  pptr = 0 /\ wire = written
    BY DEF ReadersFlushFirst
  <2>1. AreaKept /\ ReaderAlone(t)
    BY DEF StreamInv, DataInv, Live, Connected
  <2>2. \A u \in Users : ~InOverflow(u)
    BY <2>1, OtherUser DEF ReaderAlone, InOverflow
  <2> QED
    BY <2>1, <2>2 DEF AreaKept, ReaderAlone, StreamInv, StreamTypeOK
<1> QED
  BY <1>1, StreamInvariance, PTL
=============================================================================
