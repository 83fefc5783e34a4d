---------------------------- MODULE ThreadProofs ----------------------------
(***************************************************************************)
(* Proofs about ThreadObject and ThreadExit, for every set of threads, any *)
(* number of workers and any number of exit functions.                     *)
(*                                                                         *)
(* The machinery of threads: a live thread will be run by exactly one      *)
(* place (ThreadsHaveOneActivation), join returns when its thread has      *)
(* stopped (JoinReturnsAtEnd), the contract of Suspension is kept          *)
(* (ThreadsKeepContract), and the account of each thread is settled once   *)
(* (ThreadsAreAccountedFor).  All of it rests on IInv.  OneActivation is   *)
(* not inductive: to know that a step leaves one place to each thread one  *)
(* must know whose entry it moves, on which strand, and in which state_ -  *)
(* activate_thread does not look at state_, so that an activation too many *)
(* would run a thread while it runs, or after its end.                     *)
(*                                                                         *)
(* The end of threads: every step of ThreadExit is one of ThreadObject     *)
(* (ExitKeepsThreads), and exceptions, exit functions and thread specific  *)
(* data come to what they should.                                          *)
(***************************************************************************)
EXTENDS ThreadExit, FiniteSetTheorems, TLAPS

Handlers == [kind : {"activate", "detach", "exit"}, thread : Threads]
Steps == [thread : Threads \cup {NoThread}, phase : Phases, temp : Seq(Threads)]
WaitKinds == {Nothing, Timer} \cup {Joining(f) : f \in Threads}

TypeOK == /\ state \in [Threads -> {"NEW", "READY", "RUNNING", "BLOCKED",
                                    "STOPPED"}]
          /\ strand \in [Threads -> Threads]
          /\ queue \in [Threads -> Seq(Handlers)]
          /\ exec \in [Threads -> Steps]
          /\ timers \subseteq Threads
          /\ waitFor \in [Threads -> WaitKinds]
          /\ joinQueue \in [Threads -> Seq(Threads)]
          /\ handle \in [Threads -> BOOLEAN]

(* What a worker is doing on a strand belongs to a thread of that strand,
   whose state_ goes with it.                                              *)
ExecSound ==
    \A s \in Threads :
       /\ exec[s].phase = "idle" => exec[s] = Idle
       /\ exec[s].phase # "idle" =>
             /\ exec[s].thread \in Threads
             /\ strand[exec[s].thread] = s
       /\ exec[s].phase # "notify" => exec[s].temp = <<>>
       /\ exec[s].phase \in {"user", "pausing"} => state[exec[s].thread] = "RUNNING"
       /\ exec[s].phase = "out" => state[exec[s].thread] \in {"READY", "BLOCKED"}
       /\ exec[s].phase \in {"stopped", "notify"} => state[exec[s].thread] = "STOPPED"

(* A handler waits on the strand of its thread.                            *)
QueuesSound ==
    \A s \in Threads : \A i \in 1..Len(queue[s]) :
       Created(queue[s][i].thread) /\ strand[queue[s][i].thread] = s

(* A handle refers to a thread that was made.                              *)
HandlesSound == \A t \in Threads : handle[t] => Created(t)

(* The places that Activations counts, one by one: t will be run by the i-th
   entry of what x has of kind k.                                          *)
SelfRuns(t) == \/ InPhase(t, "user")
               \/ InPhase(t, "out") /\ state[t] = "READY"
Posted(t, x, i) == i \in 1..Len(queue[x]) /\ queue[x][i] = Activate(t)
Joins(t, x, i) == i \in 1..Len(joinQueue[x]) /\ joinQueue[x][i] = t
Taken(t, x, i) == i \in 1..Len(exec[x].temp) /\ exec[x].temp[i] = t

Spot(t, k, x, i) ==
    \/ k = "self" /\ x = t /\ i = 0 /\ SelfRuns(t)
    \/ k = "timer" /\ x = t /\ i = 0 /\ t \in timers
    \/ k = "handler" /\ x \in Threads /\ Posted(t, x, i)
    \/ k = "joinQueue" /\ x \in Threads /\ ~Drained(x) /\ Joins(t, x, i)
    \/ k = "temp" /\ x \in Threads /\ Taken(t, x, i)

Once(t) == \A k, x, i, l, y, j :
              Spot(t, k, x, i) /\ Spot(t, l, y, j) => k = l /\ x = y /\ i = j
Some(t) == Live(t) <=> \E k, x, i : Spot(t, k, x, i)
OneSpot == \A t \in Threads : Once(t) /\ Some(t)

(* Who waits for a thread that has not stopped is on its join_queue_.      *)
JoinersQueued ==
    \A t, f \in Threads : waitFor[t] = Joining(f) /\ state[f] # "STOPPED"
                            => \E i : Spot(t, "joinQueue", f, i)

IInv == /\ TypeOK /\ ExecSound /\ QueuesSound /\ HandlesSound
        /\ OneSpot /\ JoinersQueued

-----------------------------------------------------------------------------
(* Sequences.                                                              *)
LEMMA AppendFacts ==
    ASSUME NEW S, NEW q \in Seq(S), NEW h \in S
    PROVE  /\ Append(q, h) \in Seq(S)
           /\ Len(q) \in Nat
           /\ Len(Append(q, h)) = Len(q) + 1
           /\ \A i \in 1..Len(q) : Append(q, h)[i] = q[i]
           /\ Append(q, h)[Len(q) + 1] = h
BY SMT

LEMMA TailFacts ==
    ASSUME NEW S, NEW q \in Seq(S), q # <<>>
    PROVE  /\ Head(q) \in S /\ Head(q) = q[1]
           /\ Tail(q) \in Seq(S)
           /\ Len(q) \in Nat \ {0}
           /\ Len(Tail(q)) = Len(q) - 1
           /\ \A i \in 1..Len(Tail(q)) : Tail(q)[i] = q[i + 1]
BY SMT

-----------------------------------------------------------------------------
(* How the places of a thread may change in a step.                        *)

Same(t) == \A k, x, i : Spot(t, k, x, i)' <=> Spot(t, k, x, i)

(* The first entry of what y has of kind l is taken away.                  *)
Shifted(t, l, y) ==
    \A k, x, i : Spot(t, k, x, i)' <=>
                    IF k = l /\ x = y THEN i \in Nat \ {0} /\ Spot(t, k, x, i + 1)
                                      ELSE Spot(t, k, x, i)

(* t has one place, and no other.                                          *)
Only(t, l, y, j) == \A k, x, i : Spot(t, k, x, i) <=> k = l /\ x = y /\ i = j

LEMMA SpotNat ==
    ASSUME TypeOK, NEW t \in Threads, NEW k, NEW x, NEW i, Spot(t, k, x, i)
    PROVE  i \in Nat /\ (k \in {"handler", "joinQueue", "temp"} => i # 0)
<1>1. \A y \in Threads : /\ Len(queue[y]) \in Nat
                         /\ Len(joinQueue[y]) \in Nat
                         /\ Len(exec[y].temp) \in Nat
  BY DEF TypeOK, Steps
<1> QED BY <1>1 DEF Spot, Posted, Joins, Taken

LEMMA OnceIsOnly ==
    ASSUME NEW t \in Threads, Once(t), NEW k, NEW x, NEW i, Spot(t, k, x, i)
    PROVE  Only(t, k, x, i)
BY DEF Once, Only

LEMMA SameKeeps ==
    ASSUME NEW t \in Threads, Once(t), Some(t), Same(t), Live(t)' <=> Live(t)
    PROVE  Once(t)' /\ Some(t)'
BY DEF Once, Some, Same

LEMMA MoveKeeps ==
    ASSUME NEW t \in Threads, NEW k, NEW x, NEW i, Only(t, k, x, i)', Live(t)'
    PROVE  Once(t)' /\ Some(t)'
BY DEF Once, Some, Only

LEMMA ShiftKeeps ==
    ASSUME TypeOK, NEW t \in Threads, Once(t), Some(t), Live(t)' <=> Live(t),
           NEW l \in {"handler", "temp"}, NEW y, Shifted(t, l, y), ~Spot(t, l, y, 1)
    PROVE  Once(t)' /\ Some(t)'
<1>1. Once(t)'
  <2> SUFFICES ASSUME NEW k, NEW x, NEW i, NEW m, NEW z, NEW j,
                      Spot(t, k, x, i)', Spot(t, m, z, j)'
               PROVE  k = m /\ x = z /\ i = j
    BY DEF Once
  <2>1. PICK i0 : Spot(t, k, x, i0) /\ i0 = (IF k = l /\ x = y THEN i + 1 ELSE i)
    BY DEF Shifted
  <2>2. PICK j0 : Spot(t, m, z, j0) /\ j0 = (IF m = l /\ z = y THEN j + 1 ELSE j)
    BY DEF Shifted
  <2>3. k = m /\ x = z /\ i0 = j0
    BY <2>1, <2>2 DEF Once
  <2>4. k = l /\ x = y => i \in Nat /\ j \in Nat
    BY <2>3 DEF Shifted
  <2> QED BY <2>1, <2>2, <2>3, <2>4
<1>2. ASSUME NEW k, NEW x, NEW i, Spot(t, k, x, i) PROVE \E j : Spot(t, k, x, j)'
  <2>1. CASE k = l /\ x = y
    <3>1. i \in Nat /\ i # 0 /\ i # 1
      BY <1>2, <2>1, SpotNat
    <3>2. i - 1 \in Nat \ {0} /\ (i - 1) + 1 = i
      BY <3>1
    <3> QED BY <1>2, <2>1, <3>2 DEF Shifted
  <2>2. CASE ~(k = l /\ x = y)
    BY <1>2, <2>2 DEF Shifted
  <2> QED BY <2>1, <2>2
<1>3. Some(t)'
  BY <1>2 DEF Some, Shifted
<1> QED BY <1>1, <1>3

(* Each place in turn.                                                     *)
LEMMA SameFrom ==
    ASSUME NEW t \in Threads, SelfRuns(t)' <=> SelfRuns(t),
           t \in timers' <=> t \in timers,
           \A x \in Threads : \A i : /\ Posted(t, x, i)' <=> Posted(t, x, i)
                                     /\ Joins(t, x, i)' <=> Joins(t, x, i)
                                     /\ Taken(t, x, i)' <=> Taken(t, x, i),
           \A x \in Threads : Drained(x)' <=> Drained(x)
    PROVE  Same(t)
BY DEF Same, Spot

LEMMA NoOther ==
    ASSUME NEW t \in Threads, NEW l, \A k, x, i : Spot(t, k, x, i) => k = l
    PROVE  /\ l # "self" => ~SelfRuns(t)
           /\ l # "timer" => t \notin timers
           /\ \A x \in Threads : \A i :
                 /\ l # "handler" => ~Posted(t, x, i)
                 /\ l # "joinQueue" /\ ~Drained(x) => ~Joins(t, x, i)
                 /\ l # "temp" => ~Taken(t, x, i)
<1>1. l # "self" => ~SelfRuns(t)
  BY DEF Spot
<1>2. l # "timer" => t \notin timers
  BY DEF Spot
<1>3. ASSUME NEW x \in Threads, NEW i
      PROVE  /\ l # "handler" => ~Posted(t, x, i)
             /\ l # "joinQueue" /\ ~Drained(x) => ~Joins(t, x, i)
             /\ l # "temp" => ~Taken(t, x, i)
  BY DEF Spot
<1> QED BY <1>1, <1>2, <1>3

LEMMA HandlerOnly ==
    ASSUME NEW t \in Threads, NEW s \in Threads, NEW m,
           ~SelfRuns(t)', t \notin timers',
           \A x \in Threads : \A i : Posted(t, x, i)' <=> x = s /\ i = m,
           \A x \in Threads : \A i : /\ ~Drained(x)' => ~Joins(t, x, i)'
                                     /\ ~Taken(t, x, i)'
    PROVE  Only(t, "handler", s, m)'
<1>1. ASSUME NEW k, NEW x, NEW i, Spot(t, k, x, i)'
      PROVE  k = "handler" /\ x = s /\ i = m
  BY <1>1 DEF Spot
<1>2. Spot(t, "handler", s, m)'
  BY DEF Spot
<1> QED BY <1>1, <1>2 DEF Only

-----------------------------------------------------------------------------
(* What the coroutine on a worker does.                                    *)

(* A thread on a worker has no place but itself.                           *)
LEMMA ExecutingFacts ==
    ASSUME IInv, NEW t \in Threads, Executing(t)
    PROVE  /\ strand[t] \in Threads
           /\ exec[strand[t]].phase # "idle"
           /\ InPhase(t, "user") => Only(t, "self", t, 0)
<1>1. strand[t] \in Threads
  BY DEF IInv, TypeOK
<1>2. exec[strand[t]].phase # "idle"
  BY <1>1, ThreadsAssumption DEF IInv, ExecSound, Executing, Idle
<1>3. ASSUME InPhase(t, "user") PROVE Only(t, "self", t, 0)
  BY <1>3, OnceIsOnly DEF IInv, OneSpot, Spot, SelfRuns
<1> QED BY <1>1, <1>2, <1>3

LEMMA PhaseFacts ==
    ASSUME TypeOK, NEW s \in Threads, NEW p \in Phases,
           exec' = [exec EXCEPT ![s].phase = p]
    PROVE  /\ exec' \in [Threads -> Steps]
           /\ \A r \in Threads :
                 /\ exec'[r].thread = exec[r].thread
                 /\ exec'[r].temp = exec[r].temp
                 /\ exec'[r].phase = IF r = s THEN p ELSE exec[r].phase
           /\ \A r \in Threads \ {s} : exec'[r] = exec[r]
BY DEF TypeOK, Steps

(* It goes to another phase, with the state that goes with it.  This
   concerns nothing but its own place.                                     *)
LEMMA PhaseStep ==
    ASSUME IInv, NEW t \in Threads, InPhase(t, "user") \/ InPhase(t, "pausing"),
           NEW p, NEW v,
           \/ p = "pausing" /\ v = "RUNNING"
           \/ p = "out" /\ v \in {"READY", "BLOCKED"}
           \/ p = "stopped" /\ v = "STOPPED",
           exec' = [exec EXCEPT ![strand[t]].phase = p],
           state' = [state EXCEPT ![t] = v],
           UNCHANGED <<strand, queue, handle>>
    PROVE  /\ exec' \in [Threads -> Steps]
           /\ state' \in [Threads -> {"NEW", "READY", "RUNNING", "BLOCKED",
                                      "STOPPED"}]
           /\ ExecSound' /\ QueuesSound' /\ HandlesSound'
           /\ \A u \in Threads : \A ph :
                 InPhase(u, ph)' <=> IF u = t THEN ph = p ELSE InPhase(u, ph)
           /\ Live(t) /\ (Live(t)' <=> p # "stopped")
           /\ SelfRuns(t)' <=> p = "out" /\ v = "READY"
           /\ \A u \in Threads :
                 /\ u # t => (SelfRuns(u)' <=> SelfRuns(u)) /\ (Live(u)' <=> Live(u))
                 /\ Drained(u)' <=> Drained(u)
                 /\ state'[u] # "STOPPED" => state[u] # "STOPPED"
           /\ \A u, x \in Threads : \A i :
                 (Taken(u, x, i)' <=> Taken(u, x, i))
                 /\ (Posted(u, x, i)' <=> Posted(u, x, i))
<1> DEFINE s == strand[t]
<1>1. /\ s \in Threads /\ exec[s].thread = t /\ exec[s].phase \in {"user", "pausing"}
      /\ exec[s].temp = <<>> /\ state[t] = "RUNNING"
  BY DEF InPhase, Executing, IInv, TypeOK, ExecSound
<1>2. /\ exec' \in [Threads -> Steps]
      /\ \A r \in Threads : /\ exec'[r].thread = exec[r].thread
                            /\ exec'[r].temp = exec[r].temp
                            /\ exec'[r].phase = IF r = s THEN p ELSE exec[r].phase
      /\ \A r \in Threads \ {s} : exec'[r] = exec[r]
  <2>1. p \in Phases
    BY DEF Phases
  <2> QED BY <1>1, <2>1, PhaseFacts DEF IInv
<1>3. /\ state' \in [Threads -> {"NEW", "READY", "RUNNING", "BLOCKED", "STOPPED"}]
      /\ state'[t] = v /\ \A u \in Threads \ {t} : state'[u] = state[u]
  BY DEF IInv, TypeOK
<1>4. \A u \in Threads \ {t} : strand[u] = s => ~Executing(u) /\ ~Executing(u)'
  BY <1>1, <1>2 DEF Executing
<1>5. ExecSound'
  <2>1. ASSUME NEW r \in Threads, r # s, exec[r].phase # "idle"
        PROVE  exec[r].thread # t
    BY <1>1, <2>1 DEF IInv, ExecSound
  <2> QED BY <1>1, <1>2, <1>3, <2>1 DEF IInv, ExecSound
<1>6. QueuesSound' /\ HandlesSound'
  BY <1>1, <1>3 DEF IInv, QueuesSound, HandlesSound, Created
<1>7. Live(t) /\ (Live(t)' <=> p # "stopped")
  BY <1>1, <1>3 DEF Live
<1>8. Executing(t)' /\ exec'[strand'[t]].phase = p
  BY <1>1, <1>2, <1>3 DEF Executing, Created
<1>9. SelfRuns(t)' <=> p = "out" /\ v = "READY"
  BY <1>3, <1>8 DEF SelfRuns, InPhase
<1>10. ASSUME NEW u \in Threads, u # t
       PROVE  /\ SelfRuns(u)' <=> SelfRuns(u)
              /\ Live(u)' <=> Live(u)
              /\ Drained(u)' <=> Drained(u)
  <2>1. strand[u] \in Threads
    BY DEF IInv, TypeOK
  <2>2. \A ph : InPhase(u, ph)' <=> InPhase(u, ph)
    BY <1>2, <1>3, <1>4, <1>10, <2>1 DEF InPhase, Executing, Created
  <2> QED BY <1>3, <1>10, <2>2 DEF SelfRuns, Live, Drained
<1>11. ~Drained(t) /\ ~Drained(t)'
  BY <1>1, <1>3, <1>8 DEF Drained, InPhase
<1>12. \A u, x \in Threads : \A i : (Taken(u, x, i)' <=> Taken(u, x, i))
                                 /\ (Posted(u, x, i)' <=> Posted(u, x, i))
  BY <1>2 DEF Taken, Posted
<1>13. ASSUME NEW u \in Threads, NEW ph
       PROVE  InPhase(u, ph)' <=> IF u = t THEN ph = p ELSE InPhase(u, ph)
  <2>1. CASE u = t
    BY <1>8, <2>1 DEF InPhase
  <2>2. CASE u # t
    <3>1. strand[u] \in Threads
      BY DEF IInv, TypeOK
    <3> QED BY <1>2, <1>3, <1>4, <2>2, <3>1 DEF InPhase, Executing, Created
  <2> QED BY <2>1, <2>2
<1> QED BY <1>1, <1>2, <1>3, <1>5, <1>6, <1>7, <1>9, <1>10, <1>11, <1>12, <1>13

(* It pauses with its activation to come, or yields.                       *)
LEMMA SwitchesIInv ==
    ASSUME IInv, NEW t \in Threads, NEW hint, SwitchOut(t) \/ Yield(t, hint)
    PROVE  IInv'
<1>1. PICK v \in {"READY", "BLOCKED"} :
         /\ InPhase(t, "user") \/ InPhase(t, "pausing")
         /\ InPhase(t, "user") <=> v = "READY"
         /\ exec' = [exec EXCEPT ![strand[t]].phase = "out"]
         /\ state' = [state EXCEPT ![t] = v]
         /\ UNCHANGED <<strand, queue, timers, waitFor, joinQueue, handle>>
  BY DEF SwitchOut, Yield, Running, InPhase
<1>2. /\ exec' \in [Threads -> Steps]
      /\ state' \in [Threads -> {"NEW", "READY", "RUNNING", "BLOCKED", "STOPPED"}]
      /\ ExecSound' /\ QueuesSound' /\ HandlesSound'
      /\ Live(t) /\ Live(t)'
      /\ SelfRuns(t)' <=> v = "READY"
      /\ \A u \in Threads :
            /\ u # t => (SelfRuns(u)' <=> SelfRuns(u)) /\ (Live(u)' <=> Live(u))
            /\ Drained(u)' <=> Drained(u)
            /\ state'[u] # "STOPPED" => state[u] # "STOPPED"
      /\ \A u, x \in Threads : \A i : (Taken(u, x, i)' <=> Taken(u, x, i))
                                   /\ (Posted(u, x, i)' <=> Posted(u, x, i))
  BY <1>1, PhaseStep
<1>3. TypeOK'
  BY <1>1, <1>2 DEF IInv, TypeOK
<1>4. SelfRuns(t) <=> v = "READY"
  BY <1>1 DEF SelfRuns, InPhase
<1>5. \A u, x \in Threads : \A i : Joins(u, x, i)' <=> Joins(u, x, i)
  BY <1>1 DEF Joins
<1>6. \A u \in Threads : Same(u)
  BY <1>1, <1>2, <1>4, <1>5 DEF Same, Spot
<1>7. OneSpot'
  BY <1>2, <1>6, SameKeeps DEF IInv, OneSpot
<1>8. JoinersQueued'
  BY <1>1, <1>2, <1>6 DEF IInv, JoinersQueued, Same
<1> QED BY <1>2, <1>3, <1>7, <1>8 DEF IInv

(* It stops: nothing will run it any more.                                 *)
LEMMA FinishIInv ==
    ASSUME IInv, NEW t \in Threads, Finish(t)
    PROVE  IInv'
<1>1. /\ InPhase(t, "user") /\ waitFor[t] = Nothing
      /\ exec' = [exec EXCEPT ![strand[t]].phase = "stopped"]
      /\ state' = [state EXCEPT ![t] = "STOPPED"]
      /\ UNCHANGED <<strand, queue, timers, waitFor, joinQueue, handle>>
  BY DEF Finish, Running
<1>2. /\ exec' \in [Threads -> Steps]
      /\ state' \in [Threads -> {"NEW", "READY", "RUNNING", "BLOCKED", "STOPPED"}]
      /\ ExecSound' /\ QueuesSound' /\ HandlesSound'
      /\ ~Live(t)' /\ ~SelfRuns(t)'
      /\ \A u \in Threads :
            /\ u # t => (SelfRuns(u)' <=> SelfRuns(u)) /\ (Live(u)' <=> Live(u))
            /\ Drained(u)' <=> Drained(u)
            /\ state'[u] # "STOPPED" => state[u] # "STOPPED"
      /\ \A u, x \in Threads : \A i : (Taken(u, x, i)' <=> Taken(u, x, i))
                                   /\ (Posted(u, x, i)' <=> Posted(u, x, i))
  BY <1>1, PhaseStep
<1>3. TypeOK'
  BY <1>1, <1>2 DEF IInv, TypeOK
<1>4. Only(t, "self", t, 0)
  BY <1>1, ExecutingFacts DEF InPhase
<1>5. \A u, x \in Threads : \A i : Joins(u, x, i)' <=> Joins(u, x, i)
  BY <1>1 DEF Joins
<1>6. \A u \in Threads \ {t} : Same(u)
  BY <1>1, <1>2, <1>5 DEF Same, Spot
<1>7. \A k, x, i : ~Spot(t, k, x, i)'
  BY <1>1, <1>2, <1>4, <1>5 DEF Only, Spot
<1>8. OneSpot'
  <2>1. Once(t)' /\ Some(t)'
    BY <1>2, <1>7 DEF Once, Some
  <2> QED BY <1>2, <1>6, <2>1, SameKeeps DEF IInv, OneSpot
<1>9. JoinersQueued'
  <2> SUFFICES ASSUME NEW u \in Threads, NEW f \in Threads,
                      waitFor[u] = Joining(f), state[f] # "STOPPED"
               PROVE  \E i : Spot(u, "joinQueue", f, i)'
    BY <1>1, <1>2 DEF JoinersQueued
  <2>1. u # t
    BY <1>1 DEF Nothing, Joining
  <2> QED BY <1>6, <2>1 DEF IInv, JoinersQueued, Same
<1> QED BY <1>2, <1>3, <1>8, <1>9 DEF IInv

(* It registers what will wake it, a timer or the end of another thread.   *)
LEMMA RegistersIInv ==
    ASSUME IInv, NEW t \in Threads, NEW f \in Threads, Sleep(t) \/ JoinWait(t, f)
    PROVE  IInv'
<1>1. /\ InPhase(t, "user") /\ waitFor[t] = Nothing
      /\ exec' = [exec EXCEPT ![strand[t]].phase = "pausing"]
      /\ UNCHANGED <<state, strand, queue, handle>>
      /\ waitFor' \in [Threads -> WaitKinds] /\ timers' \subseteq Threads
      /\ joinQueue' \in [Threads -> Seq(Threads)]
      /\ \A u \in Threads \ {t} : waitFor'[u] = waitFor[u]
                                 /\ (u \in timers' <=> u \in timers)
      /\ \A u, x \in Threads : \A i :
            u # t => (Joins(u, x, i)' <=> Joins(u, x, i))
  <2>1. CASE Sleep(t)
    BY <2>1 DEF Sleep, Running, Register, Joins, IInv, TypeOK, WaitKinds
  <2>2. CASE JoinWait(t, f)
    <3>1. /\ joinQueue' = [joinQueue EXCEPT ![f] = Append(@, t)]
          /\ joinQueue[f] \in Seq(Threads)
      BY <2>2 DEF JoinWait, IInv, TypeOK
    <3>2. /\ Append(joinQueue[f], t) \in Seq(Threads)
          /\ Len(joinQueue[f]) \in Nat
          /\ Len(Append(joinQueue[f], t)) = Len(joinQueue[f]) + 1
          /\ \A i \in 1..Len(joinQueue[f]) : Append(joinQueue[f], t)[i] = joinQueue[f][i]
          /\ Append(joinQueue[f], t)[Len(joinQueue[f]) + 1] = t
      BY <3>1, AppendFacts
    <3>3. ASSUME NEW u \in Threads, NEW x \in Threads, NEW i, u # t
          PROVE  Joins(u, x, i)' <=> Joins(u, x, i)
      BY <3>1, <3>2, <3>3 DEF Joins, IInv, TypeOK
    <3>4. joinQueue' \in [Threads -> Seq(Threads)]
      BY <3>1, <3>2 DEF IInv, TypeOK
    <3> QED BY <2>2, <3>3, <3>4 DEF JoinWait, Running, Register, IInv, TypeOK, WaitKinds
  <2> QED BY <2>1, <2>2
<1>2. /\ InPhase(t, "user")
      /\ exec' = [exec EXCEPT ![strand[t]].phase = "pausing"]
      /\ state' = [state EXCEPT ![t] = "RUNNING"]
      /\ UNCHANGED <<strand, queue, handle>>
  BY <1>1 DEF IInv, TypeOK, ExecSound, InPhase, Executing
<1>3. /\ exec' \in [Threads -> Steps]
      /\ state' \in [Threads -> {"NEW", "READY", "RUNNING", "BLOCKED", "STOPPED"}]
      /\ ExecSound' /\ QueuesSound' /\ HandlesSound'
      /\ Live(t)' /\ ~SelfRuns(t)'
      /\ \A u \in Threads :
            /\ u # t => (SelfRuns(u)' <=> SelfRuns(u)) /\ (Live(u)' <=> Live(u))
            /\ Drained(u)' <=> Drained(u)
      /\ \A u, x \in Threads : \A i : (Taken(u, x, i)' <=> Taken(u, x, i))
                                   /\ (Posted(u, x, i)' <=> Posted(u, x, i))
  <2>1. ExecSound'
    BY <1>2, PhaseStep
  <2>6. QueuesSound' /\ HandlesSound'
    BY <1>2, PhaseStep
  <2>7. Live(t)'
    BY <1>2 DEF Live, IInv, TypeOK
  <2>8. ~SelfRuns(t)'
    BY <1>2, PhaseStep
  <2>4. exec' \in [Threads -> Steps]
    BY <1>2, PhaseStep
  <2>5. state' \in [Threads -> {"NEW", "READY", "RUNNING", "BLOCKED", "STOPPED"}]
    BY <1>1 DEF IInv, TypeOK
  <2>2. \A u \in Threads :
            /\ u # t => (SelfRuns(u)' <=> SelfRuns(u)) /\ (Live(u)' <=> Live(u))
            /\ Drained(u)' <=> Drained(u)
    BY <1>2, PhaseStep
  <2>3. \A u, x \in Threads : \A i : (Taken(u, x, i)' <=> Taken(u, x, i))
                                   /\ (Posted(u, x, i)' <=> Posted(u, x, i))
    BY <1>2, PhaseStep
  <2> QED BY <2>1, <2>2, <2>3, <2>4, <2>5, <2>6, <2>7, <2>8
<1>4. TypeOK'
  BY <1>1, <1>3 DEF IInv, TypeOK
<1>5. Only(t, "self", t, 0)
  BY <1>1, ExecutingFacts DEF InPhase
<1>6. \A u \in Threads \ {t} : Same(u)
  BY <1>1, <1>3 DEF Same, Spot
<1>7. /\ Once(t)' /\ Some(t)'
      /\ \A g \in Threads : waitFor'[t] = Joining(g)
                              => \E i : Spot(t, "joinQueue", g, i)'
  <2>1. CASE Sleep(t)
    <3>1. Only(t, "timer", t, 0)'
      BY <1>3, <1>5, <2>1 DEF Only, Spot, Sleep, Joins
    <3>2. waitFor'[t] = Timer
      BY <2>1 DEF Sleep, Register, IInv, TypeOK
    <3> QED BY <1>3, <3>1, <3>2, MoveKeeps DEF Timer, Joining
  <2>2. CASE JoinWait(t, f)
    <3> PICK n : n = Len(joinQueue[f])
      OBVIOUS
    <3>1. /\ joinQueue' = [joinQueue EXCEPT ![f] = Append(@, t)]
          /\ joinQueue[f] \in Seq(Threads) /\ UNCHANGED timers /\ ~Drained(f)
      BY <2>2 DEF JoinWait, IInv, TypeOK, Drained
    <3>2. /\ n \in Nat /\ Len(Append(joinQueue[f], t)) = n + 1
          /\ \A i \in 1..n : Append(joinQueue[f], t)[i] = joinQueue[f][i]
          /\ Append(joinQueue[f], t)[n + 1] = t
      BY <3>1, AppendFacts
    <3>3. \A x \in Threads : \A i :
             Joins(t, x, i)' <=> Joins(t, x, i) \/ (x = f /\ i = n + 1)
      BY <3>1, <3>2 DEF Joins, IInv, TypeOK
    <3>4. Only(t, "joinQueue", f, n + 1)'
      <4>1. /\ t \notin timers /\ ~SelfRuns(t)' /\ ~Drained(f)'
            /\ \A x \in Threads : \A i : ~Posted(t, x, i)' /\ ~Taken(t, x, i)'
        <5>1. t \notin timers
          BY <1>5 DEF Only, Spot
        <5>2. \A x \in Threads : \A i : ~Spot(t, "handler", x, i) /\ ~Spot(t, "temp", x, i)
          BY <1>5 DEF Only
        <5> QED BY <1>3, <3>1, <5>1, <5>2 DEF Spot
      <4>2. \A x \in Threads : \A i : ~Drained(x) => ~Joins(t, x, i)
        <5>1. \A x \in Threads : \A i : ~Spot(t, "joinQueue", x, i)
          BY <1>5 DEF Only
        <5> QED BY <5>1 DEF Spot
      <4>3. Joins(t, f, n + 1)'
        BY <3>3
      <4>4. Spot(t, "joinQueue", f, n + 1)'
        BY <4>1, <4>3 DEF Spot
      <4>5. ASSUME NEW k, NEW x, NEW i, Spot(t, k, x, i)'
            PROVE  k = "joinQueue" /\ x = f /\ i = n + 1
        <5>1. k = "joinQueue" /\ x \in Threads /\ ~Drained(x)' /\ Joins(t, x, i)'
          BY <3>1, <4>1, <4>5 DEF Spot
        <5>2. ~Drained(x)
          BY <1>3, <5>1
        <5> QED BY <3>3, <4>2, <5>1, <5>2
      <4> QED BY <4>4, <4>5 DEF Only
    <3>5. waitFor'[t] = Joining(f)
      BY <2>2 DEF JoinWait, Register, IInv, TypeOK
    <3>6. Once(t)' /\ Some(t)'
      BY <1>3, <3>4, MoveKeeps
    <3>7. Spot(t, "joinQueue", f, n + 1)'
      BY <3>4 DEF Only
    <3> QED BY <3>5, <3>6, <3>7 DEF Joining
  <2> QED BY <2>1, <2>2
<1>8. OneSpot'
  BY <1>3, <1>6, <1>7, SameKeeps DEF IInv, OneSpot
<1>9. JoinersQueued'
  <2> SUFFICES ASSUME NEW u \in Threads, NEW g \in Threads,
                      waitFor'[u] = Joining(g), state[g] # "STOPPED"
               PROVE  \E i : Spot(u, "joinQueue", g, i)'
    BY <1>1 DEF JoinersQueued
  <2>1. CASE u = t
    BY <1>7, <2>1
  <2>2. CASE u # t
    BY <1>1, <1>6, <2>2 DEF IInv, JoinersQueued, Same
  <2> QED BY <2>1, <2>2
<1> QED BY <1>3, <1>4, <1>8, <1>9 DEF IInv

-----------------------------------------------------------------------------
(* Handlers: posting one, taking one, and what a worker does with it.      *)

LEMMA PostFacts ==
    ASSUME TypeOK, NEW s \in Threads, NEW h \in Handlers, Post(s, h),
           NEW n, n = Len(queue[s]) + 1
    PROVE  /\ queue' \in [Threads -> Seq(Handlers)]
           /\ \A u, x \in Threads : \A i :
                 Posted(u, x, i)' <=> \/ Posted(u, x, i)
                                      \/ x = s /\ i = n /\ h = Activate(u)
           /\ \A x \in Threads : \A i \in 1..Len(queue'[x]) :
                 \/ i \in 1..Len(queue[x]) /\ queue'[x][i] = queue[x][i]
                 \/ x = s /\ queue'[x][i] = h
<1>1. /\ queue' = [queue EXCEPT ![s] = Append(@, h)]
      /\ queue[s] \in Seq(Handlers)
  BY DEF Post, TypeOK
<1>2. /\ Append(queue[s], h) \in Seq(Handlers)
      /\ Len(queue[s]) \in Nat
      /\ Len(Append(queue[s], h)) = n
      /\ \A i \in 1..Len(queue[s]) : Append(queue[s], h)[i] = queue[s][i]
      /\ Append(queue[s], h)[n] = h
  BY <1>1, AppendFacts
<1>3. /\ queue' \in [Threads -> Seq(Handlers)]
      /\ queue'[s] = Append(queue[s], h)
      /\ \A x \in Threads \ {s} : queue'[x] = queue[x]
  BY <1>1, <1>2 DEF TypeOK
<1>4. /\ \A i : i \in 1..n <=> i \in 1..Len(queue[s]) \/ i = n
      /\ n \notin 1..Len(queue[s])
  BY <1>2
<1>5. ASSUME NEW u \in Threads, NEW x \in Threads, NEW i
      PROVE  Posted(u, x, i)' <=> \/ Posted(u, x, i)
                                  \/ x = s /\ i = n /\ h = Activate(u)
  <2>1. CASE x = s
    BY <1>2, <1>3, <1>4, <2>1 DEF Posted
  <2>2. CASE x # s
    BY <1>3, <2>2 DEF Posted
  <2> QED BY <2>1, <2>2
<1>6. ASSUME NEW x \in Threads, NEW i \in 1..Len(queue'[x])
      PROVE  \/ i \in 1..Len(queue[x]) /\ queue'[x][i] = queue[x][i]
             \/ x = s /\ queue'[x][i] = h
  <2>1. CASE x = s
    BY <1>2, <1>3, <1>4, <1>6, <2>1
  <2>2. CASE x # s
    BY <1>3, <1>6, <2>2
  <2> QED BY <2>1, <2>2
<1> QED BY <1>3, <1>5, <1>6

LEMMA DispatchFacts ==
    ASSUME TypeOK, NEW s \in Threads, NEW kind, Dispatch(s, kind)
    PROVE  /\ queue' \in [Threads -> Seq(Handlers)]
           /\ Head(queue[s]) \in Handlers /\ Head(queue[s]).kind = kind
           /\ 1 \in 1..Len(queue[s]) /\ Head(queue[s]) = queue[s][1]
           /\ \A u, x \in Threads : \A i :
                 Posted(u, x, i)' <=> IF x = s THEN i \in Nat \ {0} /\ Posted(u, s, i + 1)
                                               ELSE Posted(u, x, i)
           /\ \A x \in Threads : \A i \in 1..Len(queue'[x]) :
                 \E j \in 1..Len(queue[x]) : queue'[x][i] = queue[x][j]
<1>1. /\ queue' = [queue EXCEPT ![s] = Tail(@)] /\ Head(queue[s]).kind = kind
      /\ queue[s] \in Seq(Handlers) /\ queue[s] # <<>>
  BY DEF Dispatch, TypeOK
<1>2. /\ Head(queue[s]) \in Handlers /\ Head(queue[s]) = queue[s][1]
      /\ Tail(queue[s]) \in Seq(Handlers)
      /\ Len(queue[s]) \in Nat \ {0}
      /\ Len(Tail(queue[s])) = Len(queue[s]) - 1
      /\ \A i \in 1..Len(Tail(queue[s])) : Tail(queue[s])[i] = queue[s][i + 1]
  BY <1>1, TailFacts
<1>3. /\ queue' \in [Threads -> Seq(Handlers)]
      /\ queue'[s] = Tail(queue[s])
      /\ \A x \in Threads \ {s} : queue'[x] = queue[x]
  BY <1>1, <1>2 DEF TypeOK
<1>4. \A i : i \in 1..Len(Tail(queue[s]))
                <=> i \in Nat \ {0} /\ i + 1 \in 1..Len(queue[s])
  BY <1>2
<1>5. ASSUME NEW u \in Threads, NEW x \in Threads, NEW i
      PROVE  Posted(u, x, i)' <=> IF x = s THEN i \in Nat \ {0} /\ Posted(u, s, i + 1)
                                           ELSE Posted(u, x, i)
  <2>1. CASE x = s
    BY <1>2, <1>3, <1>4, <2>1 DEF Posted
  <2>2. CASE x # s
    BY <1>3, <2>2 DEF Posted
  <2> QED BY <2>1, <2>2
<1>6. ASSUME NEW x \in Threads, NEW i \in 1..Len(queue'[x])
      PROVE  \E j \in 1..Len(queue[x]) : queue'[x][i] = queue[x][j]
  <2>1. CASE x = s
    <3>1. i + 1 \in 1..Len(queue[s]) /\ queue'[x][i] = queue[s][i + 1]
      BY <1>2, <1>3, <1>4, <1>6, <2>1
    <3> QED BY <2>1, <3>1
  <2>2. CASE x # s
    BY <1>3, <1>6, <2>2
  <2> QED BY <2>1, <2>2
<1>7. 1 \in 1..Len(queue[s])
  BY <1>2
<1> QED BY <1>1, <1>2, <1>3, <1>5, <1>6, <1>7

(* What a strand executes concerns the thread it executes only.            *)
LEMMA StrandFacts ==
    ASSUME TypeOK, NEW s \in Threads, NEW e \in Steps,
           exec' = [exec EXCEPT ![s] = e], UNCHANGED strand
    PROVE  /\ exec' \in [Threads -> Steps]
           /\ exec'[s] = e
           /\ \A r \in Threads \ {s} : exec'[r] = exec[r]
           /\ \A u \in Threads : \A ph :
                 /\ u # exec[s].thread /\ u # e.thread
                 /\ state'[u] = state[u]
                 => (InPhase(u, ph)' <=> InPhase(u, ph))
<1>1. /\ exec' \in [Threads -> Steps]
      /\ exec'[s] = e
      /\ \A r \in Threads \ {s} : exec'[r] = exec[r]
  BY DEF TypeOK
<1>2. ASSUME NEW u \in Threads, NEW ph, u # exec[s].thread, u # e.thread,
             state'[u] = state[u]
      PROVE  InPhase(u, ph)' <=> InPhase(u, ph)
  <2>1. strand[u] \in Threads
    BY DEF TypeOK
  <2> QED BY <1>1, <1>2, <2>1 DEF InPhase, Executing, Created
<1> QED BY <1>1, <1>2

(* All threads but one keep their places, or see those of one queue move up
   behind an entry that was not theirs; that one gets one new place.       *)
LEMMA PlacesKept ==
    ASSUME IInv, NEW t, NEW l \in {"handler", "temp"}, NEW y, UNCHANGED waitFor,
           \A u \in Threads \ {t} : /\ Same(u) \/ (Shifted(u, l, y) /\ ~Spot(u, l, y, 1))
                                    /\ Live(u)' <=> Live(u),
           \A f \in Threads : state'[f] # "STOPPED" => state[f] # "STOPPED",
           t \in Threads => /\ Live(t)'
                            /\ \E k, x, i : Only(t, k, x, i)'
                            /\ \A f \in Threads : \A i : ~Spot(t, "joinQueue", f, i)
    PROVE  OneSpot' /\ JoinersQueued'
<1>1. OneSpot'
  <2> SUFFICES ASSUME NEW u \in Threads
               PROVE  Once(u)' /\ Some(u)'
    BY DEF OneSpot
  <2>1. TypeOK /\ Once(u) /\ Some(u)
    BY DEF IInv, OneSpot
  <2>2. CASE u = t
    BY <2>2, MoveKeeps
  <2>3. CASE u # t /\ Same(u)
    BY <2>1, <2>3, SameKeeps
  <2>4. CASE u # t /\ Shifted(u, l, y) /\ ~Spot(u, l, y, 1)
    BY <2>1, <2>4, ShiftKeeps
  <2> QED BY <2>2, <2>3, <2>4
<1>2. JoinersQueued'
  <2> SUFFICES ASSUME NEW u \in Threads, NEW f \in Threads,
                      waitFor[u] = Joining(f), state'[f] # "STOPPED"
               PROVE  \E i : Spot(u, "joinQueue", f, i)'
    BY DEF JoinersQueued
  <2>1. PICK i : Spot(u, "joinQueue", f, i)
    BY DEF IInv, JoinersQueued
  <2>2. u # t
    BY <2>1
  <2>3. Spot(u, "joinQueue", f, i)'
    BY <2>1, <2>2 DEF Same, Shifted
  <2> QED BY <2>3
<1> QED BY <1>1, <1>2

-----------------------------------------------------------------------------
(* Steps that touch no worker.                                             *)

(* pause() returns, or a handle goes.                                      *)
LEMMA LocalIInv ==
    ASSUME IInv, NEW t \in Threads, PauseReturns(t) \/ DropHandle(t)
    PROVE  IInv'
<1>1. /\ UNCHANGED <<state, strand, queue, exec, timers, joinQueue>>
      /\ waitFor' = waitFor \/ waitFor' = [waitFor EXCEPT ![t] = Nothing]
      /\ handle' = handle \/ handle' = [handle EXCEPT ![t] = FALSE]
  BY DEF PauseReturns, DropHandle
<1>2. /\ waitFor' \in [Threads -> WaitKinds]
      /\ \A u \in Threads : waitFor'[u] \in {waitFor[u], Nothing}
  BY <1>1 DEF IInv, TypeOK, WaitKinds
<1>3. /\ handle' \in [Threads -> BOOLEAN]
      /\ \A u \in Threads : handle'[u] => handle[u]
  BY <1>1 DEF IInv, TypeOK
<1>4. TypeOK'
  BY <1>1, <1>2, <1>3 DEF IInv, TypeOK
<1>5. HandlesSound'
  BY <1>1, <1>3 DEF IInv, HandlesSound, Created
<1>6. ExecSound' /\ QueuesSound'
  BY <1>1 DEF IInv, ExecSound, QueuesSound, Created
<1>7. \A u \in Threads : Same(u) /\ (Live(u)' <=> Live(u))
  BY <1>1 DEF Same, Spot, SelfRuns, InPhase, Executing, Created, Posted, Joins,
              Taken, Drained, Live
<1>8. OneSpot'
  BY <1>7, SameKeeps DEF IInv, OneSpot
<1>9. JoinersQueued'
  <2> SUFFICES ASSUME NEW u \in Threads, NEW f \in Threads,
                      waitFor'[u] = Joining(f), state[f] # "STOPPED"
               PROVE  \E i : Spot(u, "joinQueue", f, i)'
    BY <1>1 DEF JoinersQueued
  <2>1. waitFor[u] = Joining(f)
    BY <1>2 DEF Nothing, Joining
  <2> QED BY <1>7, <2>1 DEF IInv, JoinersQueued, Same
<1> QED BY <1>4, <1>5, <1>6, <1>8, <1>9 DEF IInv

(* The handler of detach() runs nothing.                                   *)
LEMMA DetachIInv ==
    ASSUME IInv, NEW f \in Threads, Detach(f)
    PROVE  IInv'
<1> DEFINE h == [kind |-> "detach", thread |-> f]
<1>1. PICK s \in Threads : s = strand[f]
  BY DEF IInv, TypeOK
<1>2. PICK n : n = Len(queue[s]) + 1
  OBVIOUS
<1>3. /\ UNCHANGED <<state, strand, exec, timers, waitFor, joinQueue>>
      /\ handle[f] /\ handle' = [handle EXCEPT ![f] = FALSE]
      /\ Post(s, h) /\ h \in Handlers /\ Created(f)
  BY <1>1 DEF Detach, Handlers, IInv, HandlesSound
<1>4. \A u : h # Activate(u)
  BY DEF Activate
<1>5. /\ queue' \in [Threads -> Seq(Handlers)]
      /\ \A u, x \in Threads : \A i : Posted(u, x, i)' <=> Posted(u, x, i)
      /\ \A x \in Threads : \A i \in 1..Len(queue'[x]) :
            \/ i \in 1..Len(queue[x]) /\ queue'[x][i] = queue[x][i]
            \/ x = s /\ queue'[x][i] = h
  BY <1>2, <1>3, <1>4, PostFacts DEF IInv
<1>6. TypeOK'
  BY <1>3, <1>5 DEF IInv, TypeOK
<1>7. ExecSound' /\ HandlesSound'
  BY <1>3 DEF IInv, ExecSound, HandlesSound, Created, TypeOK
<1>8. QueuesSound'
  <2> SUFFICES ASSUME NEW x \in Threads, NEW i \in 1..Len(queue'[x])
               PROVE  /\ state[queue'[x][i].thread] # "NEW"
                      /\ strand[queue'[x][i].thread] = x
    BY <1>3 DEF QueuesSound, Created
  <2> QED BY <1>1, <1>3, <1>5 DEF IInv, QueuesSound, Created
<1>9. \A u \in Threads : Same(u) /\ (Live(u)' <=> Live(u))
  BY <1>3, <1>5 DEF Same, Spot, SelfRuns, InPhase, Executing, Created, Joins,
                    Taken, Drained, Live
<1>10. OneSpot'
  BY <1>9, SameKeeps DEF IInv, OneSpot
<1>11. JoinersQueued'
  BY <1>3, <1>9 DEF IInv, JoinersQueued, Same
<1> QED BY <1>6, <1>7, <1>8, <1>10, <1>11 DEF IInv

(* A new thread has its first activation and nothing else.                 *)
LEMMA MakeThreadIInv ==
    ASSUME IInv, NEW u \in Threads, NEW s \in Threads, MakeThread(u, s)
    PROVE  IInv'
<1> DEFINE h == Activate(u)
<1>1. PICK n : n = Len(queue[s]) + 1
  OBVIOUS
<1>2. /\ UNCHANGED <<exec, timers, waitFor, joinQueue>>
      /\ state[u] = "NEW" /\ state' = [state EXCEPT ![u] = "READY"]
      /\ strand' = [strand EXCEPT ![u] = s]
      /\ handle' = [handle EXCEPT ![u] = TRUE]
      /\ Post(s, h) /\ h \in Handlers
  BY DEF MakeThread, Handlers, Activate
<1>3. /\ state'[u] = "READY" /\ \A v \in Threads \ {u} : state'[v] = state[v]
      /\ strand'[u] = s /\ \A v \in Threads \ {u} : strand'[v] = strand[v]
      /\ \A v \in Threads \ {u} : handle'[v] = handle[v]
  BY <1>2 DEF IInv, TypeOK
<1>4. /\ queue' \in [Threads -> Seq(Handlers)]
      /\ \A v, x \in Threads : \A i :
            Posted(v, x, i)' <=> \/ Posted(v, x, i)
                                 \/ x = s /\ i = n /\ h = Activate(v)
      /\ \A x \in Threads : \A i \in 1..Len(queue'[x]) :
            \/ i \in 1..Len(queue[x]) /\ queue'[x][i] = queue[x][i]
            \/ x = s /\ queue'[x][i] = h
  BY <1>1, <1>2, PostFacts DEF IInv
<1>5. \A v : h = Activate(v) <=> u = v
  BY DEF Activate
<1>6. TypeOK'
  BY <1>2, <1>4 DEF IInv, TypeOK
<1>7. \A r \in Threads : exec[r].thread # u
  <2> TAKE r \in Threads
  <2>1. exec[r] \in Steps
    BY DEF IInv, TypeOK
  <2>2. CASE exec[r].phase = "idle"
    BY <2>2, ThreadsAssumption DEF IInv, ExecSound, Idle
  <2>3. CASE exec[r].phase # "idle"
    BY <1>2, <2>1, <2>3 DEF IInv, ExecSound, Steps, Phases
  <2> QED BY <2>2, <2>3
<1>8. ExecSound'
  BY <1>2, <1>3, <1>7 DEF IInv, ExecSound
<1>9. QueuesSound'
  <2> SUFFICES ASSUME NEW x \in Threads, NEW i \in 1..Len(queue'[x])
               PROVE  /\ state'[queue'[x][i].thread] # "NEW"
                      /\ strand'[queue'[x][i].thread] = x
    BY DEF QueuesSound, Created
  <2>1. CASE x = s /\ queue'[x][i] = h
    BY <1>3, <2>1 DEF Activate
  <2>2. CASE i \in 1..Len(queue[x]) /\ queue'[x][i] = queue[x][i]
    <3>1. queue[x][i] \in Handlers /\ queue[x] \in Seq(Handlers)
      BY <2>2 DEF IInv, TypeOK
    <3>2. queue[x][i].thread \in Threads
      BY <3>1 DEF Handlers
    <3> QED BY <1>2, <1>3, <2>2, <3>2 DEF IInv, QueuesSound, Created
  <2> QED BY <1>4, <2>1, <2>2
<1>10. HandlesSound'
  BY <1>3 DEF IInv, HandlesSound, Created
<1>11. /\ \A ph : ~InPhase(u, ph)'
       /\ \A v \in Threads : /\ \A ph : InPhase(v, ph)' <=> InPhase(v, ph)
                             /\ Drained(v)' <=> Drained(v)
  <2>1. \A ph : ~InPhase(u, ph) /\ ~InPhase(u, ph)'
    <3>1. s \in Threads /\ strand[u] \in Threads
      BY DEF IInv, TypeOK
    <3> QED BY <1>2, <1>3, <1>7, <3>1 DEF InPhase, Executing
  <2>2. \A v \in Threads \ {u} : \A ph : InPhase(v, ph)' <=> InPhase(v, ph)
    BY <1>2, <1>3 DEF InPhase, Executing, Created
  <2> QED BY <1>2, <1>3, <2>1, <2>2 DEF Drained
<1>12. /\ \A v, x \in Threads : \A i : /\ Joins(v, x, i)' <=> Joins(v, x, i)
                                       /\ Taken(v, x, i)' <=> Taken(v, x, i)
       /\ timers' = timers
  BY <1>2 DEF Joins, Taken
<1>13. ASSUME NEW v \in Threads \ {u} PROVE Same(v) /\ (Live(v)' <=> Live(v))
  <2>1. (SelfRuns(v)' <=> SelfRuns(v)) /\ (Live(v)' <=> Live(v))
    BY <1>3, <1>11 DEF SelfRuns, Live
  <2>2. \A x \in Threads : \A i : Posted(v, x, i)' <=> Posted(v, x, i)
    BY <1>4, <1>5
  <2>3. v \in Threads
    OBVIOUS
  <2>4. Same(v)
    BY <1>11, <1>12, <2>1, <2>2, <2>3, SameFrom
  <2> QED BY <2>1, <2>4
<1>14. Live(u)' /\ \A k, x, i : ~Spot(u, k, x, i)
  BY <1>2, <1>3 DEF Live, IInv, OneSpot, Some
<1>15. Only(u, "handler", s, n)'
  <2>1. /\ u \notin timers
        /\ \A x \in Threads : \A i : /\ ~Posted(u, x, i) /\ ~Taken(u, x, i)
                                     /\ ~Drained(x) => ~Joins(u, x, i)
    BY <1>14, NoOther
  <2>2. ~SelfRuns(u)'
    BY <1>11 DEF SelfRuns
  <2>5. \A v, x \in Threads : \A i :
            Posted(v, x, i)' <=> \/ Posted(v, x, i)
                                 \/ x = s /\ i = n /\ h = Activate(v)
    BY <1>4
  <2>6. \A x \in Threads : \A i : ~Posted(u, x, i)
    BY <2>1
  <2>3. \A x \in Threads : \A i : Posted(u, x, i)' <=> x = s /\ i = n
    BY <2>5, <2>6
  <2>4. \A x \in Threads : \A i : /\ ~Drained(x)' => ~Joins(u, x, i)'
                                  /\ ~Taken(u, x, i)'
    BY <1>11, <1>12, <2>1
  <2> QED BY <1>12, <2>1, <2>2, <2>3, <2>4, HandlerOnly
<1>16. \A f \in Threads : state'[f] # "STOPPED" => state[f] # "STOPPED"
  BY <1>2, <1>3
<1>17. OneSpot' /\ JoinersQueued'
  BY <1>2, <1>13, <1>14, <1>15, <1>16, PlacesKept
<1> QED BY <1>6, <1>8, <1>9, <1>10, <1>17 DEF IInv

-----------------------------------------------------------------------------
(* Handlers leave their strand: the timer's, detach and exit.              *)

LEMMA HandlerShifted ==
    ASSUME NEW t \in Threads, NEW s \in Threads,
           SelfRuns(t)' <=> SelfRuns(t), t \in timers' <=> t \in timers,
           \A x \in Threads : \A i :
              Posted(t, x, i)' <=> IF x = s THEN i \in Nat \ {0} /\ Posted(t, s, i + 1)
                                            ELSE Posted(t, x, i),
           \A x \in Threads : \A i : /\ Joins(t, x, i)' <=> Joins(t, x, i)
                                     /\ Taken(t, x, i)' <=> Taken(t, x, i),
           \A x \in Threads : Drained(x)' <=> Drained(x)
    PROVE  Shifted(t, "handler", s)
BY DEF Shifted, Spot

LEMMA TakenShifted ==
    ASSUME NEW t \in Threads, NEW s \in Threads,
           SelfRuns(t)' <=> SelfRuns(t), t \in timers' <=> t \in timers,
           \A x \in Threads : \A i :
              Taken(t, x, i)' <=> IF x = s THEN i \in Nat \ {0} /\ Taken(t, s, i + 1)
                                           ELSE Taken(t, x, i),
           \A x \in Threads : \A i : /\ Joins(t, x, i)' <=> Joins(t, x, i)
                                     /\ Posted(t, x, i)' <=> Posted(t, x, i),
           \A x \in Threads : Drained(x)' <=> Drained(x)
    PROVE  Shifted(t, "temp", s)
BY DEF Shifted, Spot

LEMMA PostSound ==
    ASSUME IInv, NEW s \in Threads, NEW h \in Handlers, Post(s, h),
           Created(h.thread), strand[h.thread] = s, UNCHANGED <<state, strand>>
    PROVE  QueuesSound'
<1> PICK n : n = Len(queue[s]) + 1
  OBVIOUS
<1> SUFFICES ASSUME NEW x \in Threads, NEW i \in 1..Len(queue'[x])
             PROVE  /\ state[queue'[x][i].thread] # "NEW"
                    /\ strand[queue'[x][i].thread] = x
  BY DEF QueuesSound, Created
<1>1. \/ i \in 1..Len(queue[x]) /\ queue'[x][i] = queue[x][i]
      \/ x = s /\ queue'[x][i] = h
  BY PostFacts DEF IInv
<1> QED BY <1>1 DEF IInv, QueuesSound, Created

LEMMA DispatchSound ==
    ASSUME IInv, NEW s \in Threads, NEW kind, Dispatch(s, kind), UNCHANGED strand,
           \A u \in Threads : Created(u) => state'[u] # "NEW"
    PROVE  QueuesSound'
<1> SUFFICES ASSUME NEW x \in Threads, NEW i \in 1..Len(queue'[x])
             PROVE  /\ state'[queue'[x][i].thread] # "NEW"
                    /\ strand[queue'[x][i].thread] = x
  BY DEF QueuesSound, Created
<1>1. PICK j \in 1..Len(queue[x]) : queue'[x][i] = queue[x][j]
  BY DispatchFacts DEF IInv
<1>2. queue[x][j].thread \in Threads
  <2>1. queue[x] \in Seq(Handlers)
    BY DEF IInv, TypeOK
  <2>2. queue[x][j] \in Handlers
    BY <1>1, <2>1
  <2> QED BY <2>2 DEF Handlers
<1> QED BY <1>1, <1>2 DEF IInv, QueuesSound

(* detach and exit run nothing.                                            *)
LEMMA OtherHandlersIInv ==
    ASSUME IInv, NEW s \in Threads, RunDetach(s) \/ RunExit(s)
    PROVE  IInv'
<1>1. PICK kind \in {"detach", "exit"} :
         /\ Dispatch(s, kind)
         /\ UNCHANGED <<state, strand, exec, timers, waitFor, joinQueue, handle>>
  BY DEF RunDetach, RunExit
<1>2. /\ queue' \in [Threads -> Seq(Handlers)]
      /\ Head(queue[s]).kind = kind
      /\ Head(queue[s]) = queue[s][1]
      /\ \A u, x \in Threads : \A i :
            Posted(u, x, i)' <=> IF x = s THEN i \in Nat \ {0} /\ Posted(u, s, i + 1)
                                          ELSE Posted(u, x, i)
  BY <1>1, DispatchFacts DEF IInv
<1>3. TypeOK'
  BY <1>1, <1>2 DEF IInv, TypeOK
<1>4. ExecSound' /\ HandlesSound'
  BY <1>1 DEF IInv, ExecSound, HandlesSound, Created
<1>5. QueuesSound'
  BY <1>1, DispatchSound DEF Created
<1>6. ASSUME NEW u \in Threads
      PROVE  Shifted(u, "handler", s) /\ ~Spot(u, "handler", s, 1)
             /\ (Live(u)' <=> Live(u))
  <2>1. /\ SelfRuns(u)' <=> SelfRuns(u)
        /\ Live(u)' <=> Live(u)
        /\ \A x \in Threads : Drained(x)' <=> Drained(x)
    BY <1>1 DEF SelfRuns, InPhase, Executing, Created, Live, Drained
  <2>2. \A x \in Threads : \A i : /\ Joins(u, x, i)' <=> Joins(u, x, i)
                                  /\ Taken(u, x, i)' <=> Taken(u, x, i)
    BY <1>1 DEF Joins, Taken
  <2>3. Shifted(u, "handler", s)
    BY <1>1, <1>2, <2>1, <2>2, HandlerShifted
  <2>4. ~Spot(u, "handler", s, 1)
    BY <1>1, <1>2 DEF Spot, Posted, Activate
  <2> QED BY <2>1, <2>3, <2>4
<1>7. OneSpot' /\ JoinersQueued'
  BY <1>1, <1>6, ThreadsAssumption, PlacesKept
<1> QED BY <1>3, <1>4, <1>5, <1>7 DEF IInv

(* An expired timer leaves a handler.                                      *)
LEMMA TimerIInv ==
    ASSUME IInv, NEW t \in Threads, TimerFires(t)
    PROVE  IInv'
<1>1. PICK s \in Threads : s = strand[t]
  BY DEF IInv, TypeOK
<1>2. PICK n : n = Len(queue[s]) + 1
  OBVIOUS
<1> DEFINE h == Activate(t)
<1>3. /\ t \in timers /\ timers' = timers \ {t}
      /\ Post(s, h) /\ h \in Handlers /\ h.thread = t
      /\ UNCHANGED <<state, strand, exec, waitFor, joinQueue, handle>>
  BY <1>1 DEF TimerFires, Resume, Activate, Handlers
<1>4. /\ queue' \in [Threads -> Seq(Handlers)]
      /\ \A u, x \in Threads : \A i :
            Posted(u, x, i)' <=> \/ Posted(u, x, i)
                                 \/ x = s /\ i = n /\ h = Activate(u)
  BY <1>2, <1>3, PostFacts DEF IInv
<1>5. Only(t, "timer", t, 0) /\ Live(t)
  <2>1. Spot(t, "timer", t, 0)
    BY <1>3 DEF Spot
  <2> QED BY <2>1, OnceIsOnly DEF IInv, OneSpot, Some
<1>6. TypeOK'
  BY <1>3, <1>4 DEF IInv, TypeOK
<1>7. ExecSound' /\ HandlesSound'
  BY <1>3 DEF IInv, ExecSound, HandlesSound, Created
<1>8. QueuesSound'
  BY <1>1, <1>3, <1>5, PostSound DEF Created, Live
<1>9. /\ \A u \in Threads : /\ SelfRuns(u)' <=> SelfRuns(u)
                            /\ Live(u)' <=> Live(u)
                            /\ Drained(u)' <=> Drained(u)
      /\ \A u, x \in Threads : \A i : /\ Joins(u, x, i)' <=> Joins(u, x, i)
                                      /\ Taken(u, x, i)' <=> Taken(u, x, i)
  BY <1>3 DEF SelfRuns, InPhase, Executing, Created, Live, Drained, Joins, Taken
<1>10. ASSUME NEW u \in Threads, u # t PROVE Same(u)
  <2>1. \A x \in Threads : \A i : Posted(u, x, i)' <=> Posted(u, x, i)
    BY <1>4, <1>10 DEF Activate
  <2>2. u \in timers' <=> u \in timers
    BY <1>3, <1>10
  <2> QED BY <1>9, <2>1, <2>2, SameFrom
<1>11. Only(t, "handler", s, n)'
  <2>1. /\ ~SelfRuns(t)
        /\ \A x \in Threads : \A i : /\ ~Posted(t, x, i) /\ ~Taken(t, x, i)
                                     /\ ~Drained(x) => ~Joins(t, x, i)
    BY <1>5, NoOther DEF Only
  <2>2. \A x \in Threads : \A i : Posted(t, x, i)' <=> x = s /\ i = n
    BY <1>4, <2>1
  <2>3. \A x \in Threads : \A i : /\ ~Drained(x)' => ~Joins(t, x, i)'
                                  /\ ~Taken(t, x, i)'
    BY <1>9, <2>1
  <2>4. ~SelfRuns(t)' /\ t \notin timers'
    BY <1>3, <1>9, <2>1
  <2> QED BY <2>2, <2>3, <2>4, HandlerOnly
<1>12. \A f \in Threads : \A i : ~Spot(t, "joinQueue", f, i)
  BY <1>5 DEF Only
<1>13. OneSpot' /\ JoinersQueued'
  BY <1>3, <1>5, <1>9, <1>10, <1>11, <1>12, PlacesKept
<1> QED BY <1>6, <1>7, <1>8, <1>13 DEF IInv

-----------------------------------------------------------------------------
(* A worker takes an activation, and the tail of one_step.                 *)

LEMMA RunActivateIInv ==
    ASSUME IInv, NEW s \in Threads, RunActivate(s)
    PROVE  IInv'
<1>1. PICK t : t = Head(queue[s]).thread
  OBVIOUS
<1> DEFINE e == [thread |-> t, phase |-> "user", temp |-> <<>>]
<1>2. /\ Dispatch(s, "activate") /\ exec[s] = Idle
      /\ state' = [state EXCEPT ![t] = "RUNNING"]
      /\ exec' = [exec EXCEPT ![s] = e]
      /\ UNCHANGED <<strand, timers, waitFor, joinQueue, handle>>
  BY <1>1 DEF RunActivate, Dispatch
<1>3. /\ queue' \in [Threads -> Seq(Handlers)]
      /\ Head(queue[s]) \in Handlers /\ Head(queue[s]).kind = "activate"
      /\ 1 \in 1..Len(queue[s]) /\ Head(queue[s]) = queue[s][1]
      /\ \A u, x \in Threads : \A i :
            Posted(u, x, i)' <=> IF x = s THEN i \in Nat \ {0} /\ Posted(u, s, i + 1)
                                          ELSE Posted(u, x, i)
  BY <1>2, DispatchFacts DEF IInv
<1>4. /\ t \in Threads /\ queue[s][1] = Activate(t)
      /\ Created(t) /\ strand[t] = s
  <2>1. t \in Threads /\ queue[s][1] = Activate(t)
    BY <1>1, <1>3 DEF Handlers, Activate
  <2> QED BY <1>1, <1>3, <2>1 DEF IInv, QueuesSound
<1>5. Only(t, "handler", s, 1) /\ Live(t)
  <2>1. Spot(t, "handler", s, 1)
    BY <1>3, <1>4 DEF Spot, Posted
  <2> QED BY <1>4, <2>1, OnceIsOnly DEF IInv, OneSpot, Some
<1>6. e \in Steps
  BY <1>4 DEF Steps, Phases
<1>7. /\ exec' \in [Threads -> Steps]
      /\ exec'[s] = e
      /\ \A r \in Threads \ {s} : exec'[r] = exec[r]
      /\ \A u \in Threads : \A ph :
            /\ u # exec[s].thread /\ u # e.thread
            /\ state'[u] = state[u]
            => (InPhase(u, ph)' <=> InPhase(u, ph))
  BY <1>2, <1>6, StrandFacts DEF IInv
<1>8. /\ state' \in [Threads -> {"NEW", "READY", "RUNNING", "BLOCKED", "STOPPED"}]
      /\ state'[t] = "RUNNING" /\ \A u \in Threads \ {t} : state'[u] = state[u]
  BY <1>2, <1>4 DEF IInv, TypeOK
<1>9. TypeOK'
  BY <1>2, <1>3, <1>7, <1>8 DEF IInv, TypeOK
<1>10. ExecSound'
  <2>1. ASSUME NEW r \in Threads, r # s, exec[r].phase # "idle"
        PROVE  exec[r].thread # t
    BY <1>4, <2>1 DEF IInv, ExecSound
  <2> QED BY <1>2, <1>4, <1>7, <1>8, <2>1 DEF IInv, ExecSound
<1>11. QueuesSound'
  <2>1. \A u \in Threads : Created(u) => state'[u] # "NEW"
    BY <1>8 DEF Created
  <2> QED BY <1>2, <2>1, DispatchSound
<1>12. HandlesSound'
  BY <1>2, <1>8 DEF IInv, HandlesSound, Created
<1>13. \A u \in Threads \ {t} : \A ph : InPhase(u, ph)' <=> InPhase(u, ph)
  BY <1>2, <1>7, <1>8, ThreadsAssumption DEF Idle
<1>14. \A ph : InPhase(t, ph)' <=> ph = "user"
  BY <1>2, <1>4, <1>7, <1>8 DEF InPhase, Executing, Created
<1>15. \A x \in Threads : Drained(x)' <=> Drained(x)
  BY <1>5, <1>8, <1>13 DEF Drained, Live
<1>16. \A u, x \in Threads : \A i : /\ Joins(u, x, i)' <=> Joins(u, x, i)
                                    /\ Taken(u, x, i)' <=> Taken(u, x, i)
  <2>1. \A x \in Threads : exec'[x].temp = exec[x].temp
    BY <1>2, <1>7 DEF Idle
  <2> QED BY <1>2, <2>1 DEF Joins, Taken
<1>17. ASSUME NEW u \in Threads, u # t
       PROVE  Shifted(u, "handler", s) /\ ~Spot(u, "handler", s, 1)
              /\ (Live(u)' <=> Live(u))
  <2>1. (SelfRuns(u)' <=> SelfRuns(u)) /\ (Live(u)' <=> Live(u))
    BY <1>8, <1>13, <1>17 DEF SelfRuns, Live
  <2>2. Shifted(u, "handler", s)
    BY <1>2, <1>3, <1>15, <1>16, <2>1, HandlerShifted
  <2>3. ~Spot(u, "handler", s, 1)
    BY <1>4, <1>17 DEF Spot, Posted, Activate
  <2> QED BY <2>1, <2>2, <2>3
<1>18. Only(t, "self", t, 0)'
  <2>1. /\ t \notin timers
        /\ \A x \in Threads : \A i : /\ ~Taken(t, x, i)
                                     /\ ~Drained(x) => ~Joins(t, x, i)
    BY <1>4, <1>5, NoOther DEF Only
  <2>2. \A x \in Threads : \A i : ~Posted(t, x, i)'
    <3>1. \A x \in Threads : \A i : Posted(t, x, i) => x = s /\ i = 1
      BY <1>5 DEF Only, Spot
    <3>2. \A i \in Nat \ {0} : i + 1 # 1
      OBVIOUS
    <3> QED BY <1>3, <1>4, <3>1, <3>2
  <2>3. SelfRuns(t)'
    BY <1>14 DEF SelfRuns
  <2> QED BY <1>2, <1>4, <1>15, <1>16, <2>1, <2>2, <2>3 DEF Only, Spot
<1>19. \A f \in Threads : \A i : ~Spot(t, "joinQueue", f, i)
  BY <1>5 DEF Only
<1>20. Live(t)' /\ \A f \in Threads : state'[f] # "STOPPED" => state[f] # "STOPPED"
  BY <1>4, <1>5, <1>8 DEF Live
<1>21. OneSpot' /\ JoinersQueued'
  BY <1>2, <1>17, <1>18, <1>19, <1>20, PlacesKept
<1> QED BY <1>9, <1>10, <1>11, <1>12, <1>21 DEF IInv

(* The worker leaves the strand.                                           *)
GoesIdle(s) == exec' = [exec EXCEPT ![s] = Idle]

LEMMA IdleFacts ==
    ASSUME IInv, NEW s \in Threads, NEW t, t = exec[s].thread,
           exec[s].phase # "idle", exec[s].temp = <<>>, GoesIdle(s), UNCHANGED <<state, strand>>
    PROVE  /\ t \in Threads /\ strand[t] = s /\ Created(t)
           /\ exec' \in [Threads -> Steps] /\ ExecSound'
           /\ \A ph : ~InPhase(t, ph)' /\ (InPhase(t, ph) <=> ph = exec[s].phase)
           /\ \A u \in Threads \ {t} : \A ph : InPhase(u, ph)' <=> InPhase(u, ph)
           /\ \A u, x \in Threads : \A i : Taken(u, x, i)' <=> Taken(u, x, i)
<1>1. t \in Threads /\ strand[t] = s
  BY DEF IInv, ExecSound
<1>2. Idle \in Steps
  BY DEF Idle, Steps, Phases
<1>3. /\ exec' \in [Threads -> Steps]
      /\ exec'[s] = Idle
      /\ \A r \in Threads \ {s} : exec'[r] = exec[r]
      /\ \A u \in Threads : \A ph :
            /\ u # exec[s].thread /\ u # Idle.thread
            /\ state'[u] = state[u]
            => (InPhase(u, ph)' <=> InPhase(u, ph))
  BY <1>2, StrandFacts DEF IInv, GoesIdle
<1>4. Created(t)
  <2>1. exec[s] \in Steps
    BY DEF IInv, TypeOK
  <2> QED BY <2>1 DEF IInv, ExecSound, Steps, Phases, Created
<1>5. ExecSound'
  BY <1>3 DEF IInv, ExecSound, Idle
<1>6. \A ph : ~InPhase(t, ph)' /\ (InPhase(t, ph) <=> ph = exec[s].phase)
  BY <1>1, <1>3, <1>4, ThreadsAssumption DEF InPhase, Executing, Idle
<1>7. \A u \in Threads \ {t} : \A ph : InPhase(u, ph)' <=> InPhase(u, ph)
  BY <1>3, ThreadsAssumption DEF Idle
<1>8. \A x \in Threads : exec'[x].temp = exec[x].temp
  BY <1>3 DEF Idle
<1>9. \A u, x \in Threads : \A i : Taken(u, x, i)' <=> Taken(u, x, i)
  BY <1>8 DEF Taken
<1> QED BY <1>1, <1>3, <1>4, <1>5, <1>6, <1>7, <1>9

(* A thread that paused has its place already; one that stopped has none.  *)
LEMMA LeavesIInv ==
    ASSUME IInv, NEW s \in Threads, LeaveBlocked(s) \/ PostExit(s)
    PROVE  IInv'
<1>1. PICK t : t = exec[s].thread
  OBVIOUS
<1> DEFINE h == [kind |-> "exit", thread |-> t]
<1>2. /\ exec[s].phase # "idle" /\ exec[s].temp = <<>>
      /\ exec[s].phase # "stopped" /\ exec[s].phase # "user"
      /\ exec[s].phase = "out" => state[t] = "BLOCKED"
      /\ GoesIdle(s)
      /\ UNCHANGED <<state, strand, timers, waitFor, joinQueue, handle>>
      /\ queue' = queue \/ Post(s, h)
  BY <1>1 DEF LeaveBlocked, PostExit, GoesIdle, IInv, ExecSound
<1>3. /\ t \in Threads /\ strand[t] = s /\ Created(t)
      /\ exec' \in [Threads -> Steps] /\ ExecSound'
      /\ \A ph : ~InPhase(t, ph)' /\ (InPhase(t, ph) <=> ph = exec[s].phase)
      /\ \A u \in Threads \ {t} : \A ph : InPhase(u, ph)' <=> InPhase(u, ph)
      /\ \A u, x \in Threads : \A i : Taken(u, x, i)' <=> Taken(u, x, i)
  BY <1>1, <1>2, IdleFacts
<1>4. /\ queue' \in [Threads -> Seq(Handlers)] /\ QueuesSound'
      /\ \A u, x \in Threads : \A i : Posted(u, x, i)' <=> Posted(u, x, i)
  <2>1. CASE queue' = queue
    BY <1>2, <2>1 DEF IInv, TypeOK, QueuesSound, Created, Posted
  <2>2. CASE Post(s, h)
    <3>1. h \in Handlers /\ h.thread = t /\ \A u : h # Activate(u)
      BY <1>3 DEF Handlers, Activate
    <3>2. PICK n : n = Len(queue[s]) + 1
      OBVIOUS
    <3>3. /\ queue' \in [Threads -> Seq(Handlers)]
          /\ \A u, x \in Threads : \A i : Posted(u, x, i)' <=> Posted(u, x, i)
      BY <2>2, <3>1, <3>2, PostFacts DEF IInv
    <3>4. QueuesSound'
      BY <1>2, <1>3, <2>2, <3>1, PostSound
    <3> QED BY <3>3, <3>4
  <2> QED BY <1>2, <2>1, <2>2
<1>5. TypeOK'
  BY <1>2, <1>3, <1>4 DEF IInv, TypeOK
<1>6. HandlesSound'
  BY <1>2 DEF IInv, HandlesSound, Created
<1>7. ASSUME NEW u \in Threads
      PROVE  /\ SelfRuns(u)' <=> SelfRuns(u)
             /\ Drained(u)' <=> Drained(u)
             /\ Live(u)' <=> Live(u)
  <2>1. CASE u = t
    BY <1>2, <1>3, <2>1 DEF SelfRuns, Drained, Live
  <2>2. CASE u # t
    BY <1>2, <1>3, <2>2 DEF SelfRuns, Drained, Live
  <2> QED BY <2>1, <2>2
<1>8. \A u, x \in Threads : \A i : Joins(u, x, i)' <=> Joins(u, x, i)
  BY <1>2 DEF Joins
<1>9. \A u \in Threads : Same(u)
  BY <1>2, <1>3, <1>4, <1>7, <1>8, SameFrom
<1>10. OneSpot'
  BY <1>7, <1>9, SameKeeps DEF IInv, OneSpot
<1>11. JoinersQueued'
  BY <1>2, <1>9 DEF IInv, JoinersQueued, Same
<1> QED BY <1>3, <1>4, <1>5, <1>6, <1>10, <1>11 DEF IInv

(* A thread that yielded is posted again.                                  *)
LEMMA RepostReadyIInv ==
    ASSUME IInv, NEW s \in Threads, RepostReady(s)
    PROVE  IInv'
<1>1. PICK t : t = exec[s].thread
  OBVIOUS
<1>2. PICK n : n = Len(queue[s]) + 1
  OBVIOUS
<1> DEFINE h == Activate(t)
<1>3. /\ exec[s].phase = "out" /\ exec[s].phase # "idle"
      /\ exec[s].temp = <<>> /\ state[t] = "READY"
      /\ GoesIdle(s)
      /\ UNCHANGED <<state, strand, timers, waitFor, joinQueue, handle>>
      /\ Resume(t)
  BY <1>1 DEF RepostReady, GoesIdle, IInv, ExecSound
<1>4. /\ t \in Threads /\ strand[t] = s /\ Created(t)
      /\ exec' \in [Threads -> Steps] /\ ExecSound'
      /\ \A ph : ~InPhase(t, ph)' /\ (InPhase(t, ph) <=> ph = exec[s].phase)
      /\ \A u \in Threads \ {t} : \A ph : InPhase(u, ph)' <=> InPhase(u, ph)
      /\ \A u, x \in Threads : \A i : Taken(u, x, i)' <=> Taken(u, x, i)
  BY <1>1, <1>3, IdleFacts
<1>5. Post(s, h) /\ h \in Handlers /\ h.thread = t
  BY <1>3, <1>4 DEF Resume, Activate, Handlers
<1>6. /\ queue' \in [Threads -> Seq(Handlers)]
      /\ \A u, x \in Threads : \A i :
            Posted(u, x, i)' <=> \/ Posted(u, x, i)
                                 \/ x = s /\ i = n /\ h = Activate(u)
  BY <1>2, <1>5, PostFacts DEF IInv
<1>7. QueuesSound'
  BY <1>3, <1>4, <1>5, PostSound
<1>8. TypeOK' /\ HandlesSound'
  BY <1>3, <1>4, <1>6 DEF IInv, TypeOK, HandlesSound, Created
<1>9. Only(t, "self", t, 0)
  <2>1. SelfRuns(t)
    BY <1>3, <1>4 DEF SelfRuns
  <2> QED BY <1>4, <2>1, OnceIsOnly DEF IInv, OneSpot, Spot
<1>10. \A u \in Threads : Drained(u)' <=> Drained(u)
  BY <1>3, <1>4 DEF Drained
<1>11. \A u, x \in Threads : \A i : Joins(u, x, i)' <=> Joins(u, x, i)
  BY <1>3 DEF Joins
<1>12. ASSUME NEW u \in Threads, u # t PROVE Same(u) /\ (Live(u)' <=> Live(u))
  <2>1. (SelfRuns(u)' <=> SelfRuns(u)) /\ (Live(u)' <=> Live(u))
    BY <1>3, <1>4, <1>12 DEF SelfRuns, Live
  <2>2. \A x \in Threads : \A i : Posted(u, x, i)' <=> Posted(u, x, i)
    BY <1>6, <1>12 DEF Activate
  <2>3. Same(u)
    BY <1>3, <1>4, <1>10, <1>11, <2>1, <2>2, SameFrom
  <2> QED BY <2>1, <2>3
<1>13. Only(t, "handler", s, n)'
  <2>1. /\ t \notin timers
        /\ \A x \in Threads : \A i : /\ ~Posted(t, x, i) /\ ~Taken(t, x, i)
                                     /\ ~Drained(x) => ~Joins(t, x, i)
    BY <1>4, <1>9, NoOther DEF Only
  <2>2. \A x \in Threads : \A i : Posted(t, x, i)' <=> x = s /\ i = n
    BY <1>4, <1>6, <2>1
  <2>3. \A x \in Threads : \A i : /\ ~Drained(x)' => ~Joins(t, x, i)'
                                  /\ ~Taken(t, x, i)'
    BY <1>4, <1>10, <1>11, <2>1
  <2>4. ~SelfRuns(t)' /\ t \notin timers'
    BY <1>3, <1>4, <2>1 DEF SelfRuns
  <2> QED BY <1>4, <2>2, <2>3, <2>4, HandlerOnly
<1>14. \A f \in Threads : \A i : ~Spot(t, "joinQueue", f, i)
  BY <1>9 DEF Only
<1>15. Live(t)' /\ \A f \in Threads : state'[f] # "STOPPED" => state[f] # "STOPPED"
  BY <1>3 DEF Live
<1>16. OneSpot' /\ JoinersQueued'
  BY <1>3, <1>12, <1>13, <1>14, <1>15, PlacesKept
<1> QED BY <1>4, <1>7, <1>8, <1>16 DEF IInv

(* The joiners of a thread that stopped are taken from its join_queue_.    *)
LEMMA DrainIInv ==
    ASSUME IInv, NEW s \in Threads, DrainJoinQueue(s)
    PROVE  IInv'
<1>1. PICK t : t = exec[s].thread
  OBVIOUS
<1> DEFINE e == [thread |-> t, phase |-> "notify", temp |-> joinQueue[t]]
<1>2. /\ exec[s].phase = "stopped" /\ exec[s].temp = <<>>
      /\ exec' = [exec EXCEPT ![s] = e]
      /\ joinQueue' = [joinQueue EXCEPT ![t] = <<>>]
      /\ UNCHANGED <<state, strand, queue, timers, waitFor, handle>>
  BY <1>1 DEF DrainJoinQueue, IInv, ExecSound
<1>3. /\ t \in Threads /\ strand[t] = s /\ state[t] = "STOPPED"
      /\ joinQueue[t] \in Seq(Threads)
  BY <1>1, <1>2 DEF IInv, ExecSound, TypeOK
<1>4. e \in Steps
  BY <1>3 DEF Steps, Phases
<1>5. /\ exec' \in [Threads -> Steps]
      /\ exec'[s] = e
      /\ \A r \in Threads \ {s} : exec'[r] = exec[r]
      /\ \A u \in Threads : \A ph :
            /\ u # exec[s].thread /\ u # e.thread
            /\ state'[u] = state[u]
            => (InPhase(u, ph)' <=> InPhase(u, ph))
  BY <1>2, <1>4, StrandFacts DEF IInv
<1>6. /\ joinQueue' \in [Threads -> Seq(Threads)]
      /\ joinQueue'[t] = <<>>
      /\ \A x \in Threads \ {t} : joinQueue'[x] = joinQueue[x]
  BY <1>2, <1>3 DEF IInv, TypeOK
<1>7. TypeOK'
  BY <1>2, <1>5, <1>6 DEF IInv, TypeOK
<1>8. ExecSound'
  BY <1>2, <1>3, <1>5 DEF IInv, ExecSound
<1>9. QueuesSound' /\ HandlesSound'
  BY <1>2 DEF IInv, QueuesSound, HandlesSound, Created
<1>10. \A u \in Threads \ {t} : \A ph : InPhase(u, ph)' <=> InPhase(u, ph)
  BY <1>1, <1>2, <1>5
<1>11. \A ph : /\ InPhase(t, ph) <=> ph = "stopped"
               /\ InPhase(t, ph)' <=> ph = "notify"
  BY <1>1, <1>2, <1>3, <1>5 DEF InPhase, Executing, Created
<1>12. /\ \A u \in Threads : /\ SelfRuns(u)' <=> SelfRuns(u)
                             /\ Live(u)' <=> Live(u)
       /\ \A u \in Threads \ {t} : Drained(u)' <=> Drained(u)
       /\ ~Drained(t) /\ Drained(t)'
  <2>1. ASSUME NEW u \in Threads
        PROVE  (SelfRuns(u)' <=> SelfRuns(u)) /\ (Live(u)' <=> Live(u))
    <3>1. CASE u = t
      BY <1>2, <1>11, <3>1 DEF SelfRuns, Live
    <3>2. CASE u # t
      BY <1>2, <1>10, <3>2 DEF SelfRuns, Live
    <3> QED BY <3>1, <3>2
  <2> QED BY <1>2, <1>3, <1>10, <1>11, <2>1 DEF Drained
<1>13. /\ \A u, x \in Threads : \A i :
             /\ x # t => (Joins(u, x, i)' <=> Joins(u, x, i))
             /\ x # s => (Taken(u, x, i)' <=> Taken(u, x, i))
             /\ Posted(u, x, i)' <=> Posted(u, x, i)
       /\ \A u \in Threads : \A i : /\ ~Taken(u, s, i)
                                    /\ Taken(u, s, i)' <=> Joins(u, t, i)
  BY <1>2, <1>3, <1>5, <1>6 DEF Joins, Taken, Posted
(* What was the i-th entry of join_queue_ is the i-th to be activated.     *)
<1>14. ASSUME NEW u \in Threads, NEW k, NEW x, NEW i
       PROVE  Spot(u, k, x, i)' <=> \/ /\ k = "temp" /\ x = s
                                       /\ Spot(u, "joinQueue", t, i)
                                    \/ /\ ~(k = "temp" /\ x = s)
                                       /\ ~(k = "joinQueue" /\ x = t)
                                       /\ Spot(u, k, x, i)
  BY <1>2, <1>3, <1>12, <1>13 DEF Spot
<1>15. ASSUME NEW u \in Threads PROVE Once(u)' /\ Some(u)'
  <2>1. Once(u) /\ Some(u)
    BY DEF IInv, OneSpot
  <2>2. \A i : ~Spot(u, "temp", s, i)
    BY <1>13 DEF Spot
  <2>3. Once(u)'
    <3> SUFFICES ASSUME NEW k, NEW x, NEW i, NEW m, NEW z, NEW j,
                        Spot(u, k, x, i)', Spot(u, m, z, j)'
                 PROVE  k = m /\ x = z /\ i = j
      BY DEF Once
    <3>1. CASE k = "temp" /\ x = s
      BY <1>14, <2>1, <3>1 DEF Once
    <3>2. CASE m = "temp" /\ z = s
      BY <1>14, <2>1, <3>2 DEF Once
    <3>3. CASE ~(k = "temp" /\ x = s) /\ ~(m = "temp" /\ z = s)
      BY <1>14, <2>1, <3>3 DEF Once
    <3> QED BY <3>1, <3>2, <3>3
  <2>4. ASSUME NEW k, NEW x, NEW i, Spot(u, k, x, i)
        PROVE  \E l, y, j : Spot(u, l, y, j)'
    <3>1. CASE k = "joinQueue" /\ x = t
      BY <1>14, <2>4, <3>1
    <3>2. CASE ~(k = "joinQueue" /\ x = t)
      <4>1. ~(k = "temp" /\ x = s)
        BY <2>2, <2>4
      <4> QED BY <1>14, <2>4, <3>2, <4>1
    <3> QED BY <3>1, <3>2
  <2>5. ASSUME NEW k, NEW x, NEW i, Spot(u, k, x, i)'
        PROVE  \E l, y, j : Spot(u, l, y, j)
    BY <1>14, <2>5
  <2>6. Some(u)'
    BY <1>12, <2>1, <2>4, <2>5 DEF Some
  <2> QED BY <2>3, <2>6
<1>16. JoinersQueued'
  <2> SUFFICES ASSUME NEW u \in Threads, NEW f \in Threads,
                      waitFor[u] = Joining(f), state[f] # "STOPPED"
               PROVE  \E i : Spot(u, "joinQueue", f, i)'
    BY <1>2 DEF JoinersQueued
  <2>1. PICK i : Spot(u, "joinQueue", f, i)
    BY DEF IInv, JoinersQueued
  <2>2. f # t
    BY <1>3
  <2>3. Spot(u, "joinQueue", f, i)'
    BY <1>14, <2>1, <2>2
  <2> QED BY <2>3
<1>17. OneSpot'
  BY <1>15 DEF OneSpot
<1> QED BY <1>7, <1>8, <1>9, <1>16, <1>17 DEF IInv

(* The first of them is activated.                                         *)
LEMMA ActivateJoinerIInv ==
    ASSUME IInv, NEW s \in Threads, ActivateJoiner(s)
    PROVE  IInv'
<1>1. PICK t : t = Head(exec[s].temp)
  OBVIOUS
<1>2. PICK g : g = exec[s].thread
  OBVIOUS
<1> DEFINE h == Activate(t)
           e == [exec[s] EXCEPT !.temp = Tail(@)]
<1>3. /\ exec[s].phase = "notify" /\ exec[s].temp # <<>>
      /\ exec' = [exec EXCEPT ![s] = e]
      /\ Resume(t)
      /\ UNCHANGED <<state, strand, timers, waitFor, joinQueue, handle>>
  BY <1>1 DEF ActivateJoiner, IInv, TypeOK
<1>4. exec[s] \in Steps /\ exec[s].temp \in Seq(Threads)
  BY DEF IInv, TypeOK, Steps
<1>5. /\ t \in Threads /\ t = exec[s].temp[1]
      /\ Tail(exec[s].temp) \in Seq(Threads)
      /\ Len(exec[s].temp) \in Nat \ {0}
      /\ Len(Tail(exec[s].temp)) = Len(exec[s].temp) - 1
      /\ \A i \in 1..Len(Tail(exec[s].temp)) :
            Tail(exec[s].temp)[i] = exec[s].temp[i + 1]
  BY <1>1, <1>3, <1>4, TailFacts
<1>6. /\ e \in Steps /\ e.thread = g /\ e.phase = "notify"
      /\ e.temp = Tail(exec[s].temp)
  BY <1>2, <1>3, <1>4, <1>5 DEF Steps
<1>7. g \in Threads /\ strand[g] = s /\ state[g] = "STOPPED"
  BY <1>2, <1>3 DEF IInv, ExecSound
<1>8. /\ exec' \in [Threads -> Steps]
      /\ exec'[s] = e
      /\ \A r \in Threads \ {s} : exec'[r] = exec[r]
  BY <1>3, <1>6 DEF IInv, TypeOK
<1>9. \A u \in Threads : \A ph : InPhase(u, ph)' <=> InPhase(u, ph)
  <2> TAKE u \in Threads
  <2>1. /\ exec'[strand[u]].thread = exec[strand[u]].thread
        /\ exec'[strand[u]].phase = exec[strand[u]].phase
    <3>1. strand[u] \in Threads
      BY DEF IInv, TypeOK
    <3> QED BY <1>2, <1>3, <1>6, <1>8, <3>1
  <2> QED BY <1>3, <2>1 DEF InPhase, Executing, Created
<1>10. /\ \A u \in Threads : /\ SelfRuns(u)' <=> SelfRuns(u)
                             /\ Live(u)' <=> Live(u)
                             /\ Drained(u)' <=> Drained(u)
       /\ \A u, x \in Threads : \A i : Joins(u, x, i)' <=> Joins(u, x, i)
  BY <1>3, <1>9 DEF SelfRuns, Live, Drained, Joins
<1>11. \A u, x \in Threads : \A i :
          Taken(u, x, i)' <=> IF x = s THEN i \in Nat \ {0} /\ Taken(u, s, i + 1)
                                       ELSE Taken(u, x, i)
  <2> TAKE u \in Threads, x \in Threads
  <2> TAKE i
  <2>1. CASE x = s
    <3>1. i \in 1..Len(Tail(exec[s].temp))
             <=> i \in Nat \ {0} /\ i + 1 \in 1..Len(exec[s].temp)
      BY <1>5
    <3> QED BY <1>5, <1>6, <1>8, <2>1, <3>1 DEF Taken
  <2>2. CASE x # s
    BY <1>8, <2>2 DEF Taken
  <2> QED BY <2>1, <2>2
<1>12. Only(t, "temp", s, 1) /\ Live(t)
  <2>1. Spot(t, "temp", s, 1)
    BY <1>5 DEF Spot, Taken
  <2> QED BY <1>5, <2>1, OnceIsOnly DEF IInv, OneSpot, Some
<1>13. PICK p \in Threads : p = strand[t]
  BY <1>5 DEF IInv, TypeOK
<1>14. PICK n : n = Len(queue[p]) + 1
  OBVIOUS
<1>15. Post(p, h) /\ h \in Handlers /\ h.thread = t /\ Created(t)
  BY <1>3, <1>5, <1>12, <1>13 DEF Resume, Activate, Handlers, Live, Created
<1>16. /\ queue' \in [Threads -> Seq(Handlers)]
       /\ \A u, x \in Threads : \A i :
             Posted(u, x, i)' <=> \/ Posted(u, x, i)
                                  \/ x = p /\ i = n /\ h = Activate(u)
  BY <1>14, <1>15, PostFacts DEF IInv
<1>17. QueuesSound'
  BY <1>3, <1>13, <1>15, PostSound
<1>18. TypeOK' /\ HandlesSound'
  BY <1>3, <1>8, <1>16 DEF IInv, TypeOK, HandlesSound, Created
<1>19. ExecSound'
  BY <1>2, <1>3, <1>6, <1>7, <1>8 DEF IInv, ExecSound
<1>20. ASSUME NEW u \in Threads, u # t
       PROVE  Shifted(u, "temp", s) /\ ~Spot(u, "temp", s, 1)
  <2>1. \A x \in Threads : \A i : Posted(u, x, i)' <=> Posted(u, x, i)
    BY <1>16, <1>20 DEF Activate
  <2>2. Shifted(u, "temp", s)
    BY <1>3, <1>10, <1>11, <2>1, TakenShifted
  <2>3. ~Spot(u, "temp", s, 1)
    BY <1>5, <1>20 DEF Spot, Taken
  <2> QED BY <2>2, <2>3
<1>21. Only(t, "handler", p, n)'
  <2>1. /\ t \notin timers /\ ~SelfRuns(t)
        /\ \A x \in Threads : \A i : /\ ~Posted(t, x, i)
                                     /\ ~Drained(x) => ~Joins(t, x, i)
    BY <1>5, <1>12, NoOther DEF Only
  <2>2. \A x \in Threads : \A i : Posted(t, x, i)' <=> x = p /\ i = n
    BY <1>5, <1>16, <2>1
  <2>3. \A x \in Threads : \A i : ~Taken(t, x, i)'
    <3>1. \A x \in Threads : \A i : Taken(t, x, i) => x = s /\ i = 1
      BY <1>12 DEF Only, Spot
    <3>2. \A i \in Nat \ {0} : i + 1 # 1
      OBVIOUS
    <3> QED BY <1>5, <1>11, <3>1, <3>2
  <2>4. \A x \in Threads : \A i : /\ ~Drained(x)' => ~Joins(t, x, i)'
                                  /\ ~Taken(t, x, i)'
    BY <1>5, <1>10, <2>1, <2>3
  <2>5. ~SelfRuns(t)' /\ t \notin timers'
    BY <1>3, <1>5, <1>10, <2>1
  <2> QED BY <1>5, <2>2, <2>4, <2>5, HandlerOnly
<1>22. \A f \in Threads : \A i : ~Spot(t, "joinQueue", f, i)
  BY <1>12 DEF Only
<1>23. Live(t)' /\ \A f \in Threads : state'[f] # "STOPPED" => state[f] # "STOPPED"
  BY <1>3, <1>5, <1>10, <1>12
<1>24. OneSpot' /\ JoinersQueued'
  BY <1>3, <1>10, <1>20, <1>21, <1>22, <1>23, PlacesKept
<1> QED BY <1>17, <1>18, <1>19, <1>24 DEF IInv

-----------------------------------------------------------------------------
(* The invariant holds, and says what OneActivation counts.                *)

LEMMA InitIInv ==
    ASSUME Init PROVE IInv
<1>1. TypeOK
  BY DEF Init, TypeOK, Idle, Steps, Phases, WaitKinds
<1>2. ExecSound /\ QueuesSound /\ HandlesSound
  BY DEF Init, ExecSound, QueuesSound, HandlesSound, Idle
<1>3. ASSUME NEW t \in Threads PROVE ~Live(t) /\ \A k, x, i : ~Spot(t, k, x, i)
  BY DEF Init, Live, Spot, SelfRuns, InPhase, Executing, Created, Posted,
         Joins, Taken, Idle
<1>4. OneSpot
  BY <1>3 DEF OneSpot, Once, Some
<1>5. JoinersQueued
  BY DEF Init, JoinersQueued, Nothing, Joining
<1> QED BY <1>1, <1>2, <1>4, <1>5 DEF IInv

LEMMA NextIInv ==
    ASSUME IInv, [Next]_vars PROVE IInv'
<1>1. ASSUME NEW u \in Threads, StartFromOutside(u) PROVE IInv'
  BY <1>1, MakeThreadIInv DEF StartFromOutside
<1>2. ASSUME NEW t \in Threads, NEW u \in Threads,
             StartNormal(t, u) \/ StartSticky(t, u)
      PROVE  IInv'
  <2>1. strand[t] \in Threads
    BY DEF IInv, TypeOK
  <2>2. PICK s \in Threads : MakeThread(u, s)
    BY <1>2, <2>1 DEF StartNormal, StartSticky
  <2> QED BY <2>2, MakeThreadIInv
<1>3. ASSUME NEW f \in Threads, Detach(f) \/ DropHandle(f) PROVE IInv'
  BY <1>3, DetachIInv, LocalIInv
<1>4. ASSUME NEW t \in Threads, SwitchingCall(t) PROVE IInv'
  <2>1. CASE \E f \in Threads : JoinWait(t, f)
    BY <2>1, RegistersIInv
  <2>2. CASE Sleep(t)
    BY <2>2, RegistersIInv
  <2>3. CASE \E hint : Yield(t, hint)
    BY <2>3, SwitchesIInv
  <2>4. CASE Finish(t)
    BY <2>4, FinishIInv
  <2> QED BY <1>4, <2>1, <2>2, <2>3, <2>4 DEF SwitchingCall
<1>5. ASSUME NEW t \in Threads, Coroutine(t) PROVE IInv'
  BY <1>5, SwitchesIInv, LocalIInv DEF Coroutine
<1>6. ASSUME NEW s \in Threads, Take(s) PROVE IInv'
  BY <1>6, RunActivateIInv, OtherHandlersIInv DEF Take
<1>7. ASSUME NEW s \in Threads, FinishStep(s) PROVE IInv'
  BY <1>7, RepostReadyIInv, LeavesIInv, DrainIInv, ActivateJoinerIInv
     DEF FinishStep
<1>8. ASSUME NEW t \in Threads, TimerFires(t) PROVE IInv'
  BY <1>8, TimerIInv
<1>9. CASE UNCHANGED vars
  <2>1. UNCHANGED <<state, strand, queue, exec, timers, waitFor, joinQueue, handle>>
    BY <1>9 DEF vars
  <2>2. TypeOK' /\ ExecSound' /\ QueuesSound' /\ HandlesSound'
    BY <2>1 DEF IInv, TypeOK, ExecSound, QueuesSound, HandlesSound, Created
  <2>3. \A u \in Threads : Same(u) /\ (Live(u)' <=> Live(u))
    BY <2>1 DEF Same, Spot, SelfRuns, InPhase, Executing, Created, Posted,
                Joins, Taken, Drained, Live
  <2>4. OneSpot' /\ JoinersQueued'
    BY <2>1, <2>3, SameKeeps DEF IInv, OneSpot, JoinersQueued, Same
  <2> QED BY <2>2, <2>4 DEF IInv
<1> QED BY <1>1, <1>2, <1>3, <1>4, <1>5, <1>6, <1>7, <1>8, <1>9 DEF Next

LEMMA Invariance == Spec => []IInv
<1>1. Init => IInv
  BY InitIInv
<1>2. IInv /\ [Next]_vars => IInv'
  BY NextIInv
<1> QED BY <1>1, <1>2, PTL DEF Spec

LEMMA SpotsAreActivations ==
    ASSUME TypeOK, NEW t \in Threads
    PROVE  /\ \A k, x, i : Spot(t, k, x, i) => <<k, x, i>> \in Activations(t)
           /\ \A p \in Activations(t) :
                 \E k, x, i : p = <<k, x, i>> /\ Spot(t, k, x, i)
<1>1. \A x \in Threads : /\ DOMAIN queue[x] = 1..Len(queue[x])
                         /\ DOMAIN joinQueue[x] = 1..Len(joinQueue[x])
                         /\ DOMAIN exec[x].temp = 1..Len(exec[x].temp)
  BY DEF TypeOK, Steps
<1> DEFINE A == {p \in {<<"self", t, 0>>} : \/ InPhase(t, "user")
                                            \/ InPhase(t, "out") /\ state[t] = "READY"}
           B == {p \in {<<"timer", t, 0>>} : t \in timers}
           C == UNION {{"handler"} \X {x} \X Positions(queue[x], Activate(t)) :
                         x \in Threads}
           D == UNION {{"joinQueue"} \X {x} \X Positions(joinQueue[x], t) :
                         x \in {u \in Threads : ~Drained(u)}}
           E == UNION {{"temp"} \X {x} \X Positions(exec[x].temp, t) : x \in Threads}
<1>2. Activations(t) = A \cup B \cup C \cup D \cup E
  BY DEF Activations
<1>3. \A x, i : <<"handler", x, i>> \in C <=> x \in Threads /\ Posted(t, x, i)
  BY <1>1 DEF Positions, Posted
<1>4. \A x, i : <<"joinQueue", x, i>> \in D <=> x \in Threads /\ ~Drained(x) /\ Joins(t, x, i)
  BY <1>1 DEF Positions, Joins
<1>5. \A x, i : <<"temp", x, i>> \in E <=> x \in Threads /\ Taken(t, x, i)
  BY <1>1 DEF Positions, Taken
<1>6. ASSUME NEW k, NEW x, NEW i, Spot(t, k, x, i)
      PROVE  <<k, x, i>> \in Activations(t)
  <2>1. CASE k = "self" /\ x = t /\ i = 0 /\ SelfRuns(t)
    BY <1>2, <2>1 DEF SelfRuns
  <2>2. CASE k = "timer" /\ x = t /\ i = 0 /\ t \in timers
    BY <1>2, <2>2
  <2>3. CASE k = "handler" /\ x \in Threads /\ Posted(t, x, i)
    BY <1>2, <1>3, <2>3
  <2>4. CASE k = "joinQueue" /\ x \in Threads /\ ~Drained(x) /\ Joins(t, x, i)
    BY <1>2, <1>4, <2>4
  <2>5. CASE k = "temp" /\ x \in Threads /\ Taken(t, x, i)
    BY <1>2, <1>5, <2>5
  <2> QED BY <1>6, <2>1, <2>2, <2>3, <2>4, <2>5 DEF Spot
<1>7. ASSUME NEW p \in Activations(t)
      PROVE  \E k, x, i : p = <<k, x, i>> /\ Spot(t, k, x, i)
  <2>1. CASE p \in A
    <3>1. p = <<"self", t, 0>> /\ Spot(t, "self", t, 0)
      BY <2>1 DEF Spot, SelfRuns
    <3> QED BY <3>1
  <2>2. CASE p \in B
    <3>1. p = <<"timer", t, 0>> /\ Spot(t, "timer", t, 0)
      BY <2>2 DEF Spot
    <3> QED BY <3>1
  <2>3. CASE p \in C
    <3>1. PICK x, i : x \in Threads /\ p = <<"handler", x, i>>
      BY <2>3
    <3>2. Spot(t, "handler", x, i)
      BY <1>3, <2>3, <3>1 DEF Spot
    <3> QED BY <3>1, <3>2
  <2>4. CASE p \in D
    <3>1. PICK x, i : x \in Threads /\ p = <<"joinQueue", x, i>>
      BY <2>4
    <3>2. Spot(t, "joinQueue", x, i)
      BY <1>4, <2>4, <3>1 DEF Spot
    <3> QED BY <3>1, <3>2
  <2>5. CASE p \in E
    <3>1. PICK x, i : x \in Threads /\ p = <<"temp", x, i>>
      BY <2>5
    <3>2. Spot(t, "temp", x, i)
      BY <1>5, <2>5, <3>1 DEF Spot
    <3> QED BY <3>1, <3>2
  <2> QED BY <1>2, <2>1, <2>2, <2>3, <2>4, <2>5
<1> QED BY <1>6, <1>7

LEMMA IInvOneActivation ==
    ASSUME IInv PROVE OneActivation
<1> SUFFICES ASSUME NEW t \in Threads
             PROVE  Cardinality(Activations(t)) = (IF Live(t) THEN 1 ELSE 0)
  BY DEF OneActivation
<1>1. /\ \A k, x, i : Spot(t, k, x, i) => <<k, x, i>> \in Activations(t)
      /\ \A p \in Activations(t) :
            \E k, x, i : p = <<k, x, i>> /\ Spot(t, k, x, i)
  BY SpotsAreActivations DEF IInv
<1>2. Once(t) /\ Some(t)
  BY DEF IInv, OneSpot
<1>3. CASE Live(t)
  <2>1. PICK k, x, i : Spot(t, k, x, i)
    BY <1>2, <1>3 DEF Some
  <2>2. Activations(t) = {<<k, x, i>>}
    BY <1>1, <1>2, <2>1 DEF Once
  <2> QED BY <1>3, <2>2, FS_Singleton
<1>4. CASE ~Live(t)
  <2>1. Activations(t) = {}
    BY <1>1, <1>2, <1>4 DEF Some
  <2> QED BY <1>4, <2>1, FS_EmptySet
<1> QED BY <1>3, <1>4

(* No wake-up of a green thread is lost and none is given twice, and none
   reaches a thread that has stopped.                                      *)
THEOREM ThreadsHaveOneActivation == Spec => []OneActivation
<1>1. IInv => OneActivation
  BY IInvOneActivation
<1> QED BY <1>1, Invariance, PTL

(* A thread that waits in join for a thread that has not stopped is on its
   join_queue_ and so, having no other place, not on a worker: pause() in
   join does not return.                                                   *)
LEMMA JoinStep ==
    ASSUME IInv, [Next]_vars
    PROVE  [\A t, f \in Threads :
              waitFor[t] = Joining(f) /\ waitFor'[t] = Nothing
                 => state[f] = "STOPPED"]_vars
<1> SUFFICES ASSUME Next, NEW t \in Threads, NEW f \in Threads,
                    waitFor[t] = Joining(f), waitFor'[t] = Nothing
             PROVE  state[f] = "STOPPED"
  OBVIOUS
<1>1. waitFor \in [Threads -> WaitKinds]
  BY DEF IInv, TypeOK
<1>2. InPhase(t, "user")
  <2>1. ~UNCHANGED waitFor
    BY DEF Nothing, Joining
  <2>2. ASSUME NEW u \in Threads, SwitchingCall(u) PROVE FALSE
    <3>1. PICK w : w # Nothing /\ Register(u, w)
      BY <2>1, <2>2 DEF SwitchingCall, JoinWait, Sleep, Yield, Finish, Joining,
                        Timer, Nothing
    <3> QED BY <1>1, <3>1 DEF Register, Nothing, Joining
  <2>3. PICK u \in Threads : PauseReturns(u)
    <3>1. CASE \E u, v \in Threads : StartFromOutside(u) \/ StartNormal(v, u) \/ StartSticky(v, u)
      BY <2>1, <3>1 DEF StartFromOutside, StartNormal, StartSticky, MakeThread
    <3>2. CASE \E g \in Threads : Detach(g) \/ DropHandle(g)
      BY <2>1, <3>2 DEF Detach, DropHandle
    <3>3. CASE \E s \in Threads : Take(s)
      BY <2>1, <3>3 DEF Take, RunActivate, RunDetach, RunExit
    <3>4. CASE \E s \in Threads : FinishStep(s)
      BY <2>1, <3>4 DEF FinishStep, RepostReady, LeaveBlocked, DrainJoinQueue,
                        ActivateJoiner, PostExit
    <3>5. CASE \E u \in Threads : TimerFires(u) \/ Coroutine(u)
      BY <2>1, <3>5 DEF TimerFires, Coroutine, SwitchOut
    <3> QED BY <2>2, <3>1, <3>2, <3>3, <3>4, <3>5 DEF Next
  <2>4. u = t
    BY <1>1, <2>1, <2>3 DEF PauseReturns, Nothing, Joining
  <2> QED BY <2>3, <2>4 DEF PauseReturns
<1>3. Only(t, "self", t, 0)
  BY <1>2, ExecutingFacts DEF InPhase
<1>4. ASSUME state[f] # "STOPPED" PROVE FALSE
  <2>1. PICK i : Spot(t, "joinQueue", f, i)
    BY <1>4 DEF IInv, JoinersQueued
  <2> QED BY <1>3, <2>1 DEF Only
<1> QED BY <1>4

(* join() lets its caller go on only when the joined thread has stopped:
   nothing else activates a thread that waits there.                       *)
THEOREM JoinReturnsAtEnd == Spec => JoinWaitsForEnd
<1>1. IInv /\ [Next]_vars =>
         [\A t, f \in Threads :
            waitFor[t] = Joining(f) /\ waitFor'[t] = Nothing
               => state[f] = "STOPPED"]_vars
  BY JoinStep
<1> QED BY <1>1, Invariance, PTL DEF Spec, JoinWaitsForEnd

-----------------------------------------------------------------------------
(* The contract of the thread layer.                                       *)

(* What Suspension sees of t.                                              *)
LEMMA CtxIs ==
    ASSUME NEW t \in Threads
    PROVE  /\ ctx[t] = IF state[t] = "NEW" THEN "absent"
                       ELSE IF state[t] = "STOPPED" THEN "ended"
                       ELSE IF InPhase(t, "user") THEN "running"
                       ELSE IF InPhase(t, "pausing") THEN "parking"
                       ELSE "parked"
           /\ ctx'[t] = IF state'[t] = "NEW" THEN "absent"
                        ELSE IF state'[t] = "STOPPED" THEN "ended"
                        ELSE IF InPhase(t, "user")' THEN "running"
                        ELSE IF InPhase(t, "pausing")' THEN "parking"
                        ELSE "parked"
BY DEF ctx

(* An activation waits for t on its strand, so anywhere.                   *)
Woken(t) == \E x \in Threads : \E i : Posted(t, x, i)

LEMMA WakeIs ==
    ASSUME IInv, IInv', NEW t \in Threads
    PROVE  /\ wake[t] <=> Woken(t)
           /\ wake'[t] <=> Woken(t)'
           /\ wake[t] \in BOOLEAN /\ wake'[t] \in BOOLEAN
<1>1. /\ strand[t] \in Threads /\ strand'[t] \in Threads
      /\ DOMAIN queue[strand[t]] = 1..Len(queue[strand[t]])
      /\ DOMAIN queue'[strand'[t]] = 1..Len(queue'[strand'[t]])
  BY DEF IInv, TypeOK
<1>2. \A x \in Threads : \A i : Posted(t, x, i) => x = strand[t]
  BY DEF IInv, QueuesSound, Posted, Activate
<1>3. \A x \in Threads : \A i : Posted(t, x, i)' => x = strand'[t]
  BY DEF IInv, QueuesSound, Posted, Activate
<1>4. /\ wake[t] <=> \E i \in DOMAIN queue[strand[t]] :
                        queue[strand[t]][i] = Activate(t)
      /\ wake[t] \in BOOLEAN
  BY DEF wake, Positions
<1>5. /\ wake'[t] <=> \E i \in DOMAIN queue'[strand'[t]] :
                         queue'[strand'[t]][i] = Activate(t)
      /\ wake'[t] \in BOOLEAN
  BY DEF wake, Positions
<1>6. wake[t] <=> Woken(t)
  BY <1>1, <1>2, <1>4 DEF Posted, Woken
<1>7. wake'[t] <=> Woken(t)'
  BY <1>1, <1>3, <1>5 DEF Posted, Woken
<1> QED BY <1>4, <1>5, <1>6, <1>7

(* A step that concerns t is one of the contract's.                        *)
LEMMA StepOf ==
    ASSUME NEW t \in Threads,
           \A u \in Threads \ {t} : ctx'[u] = ctx[u] /\ wake'[u] = wake[u],
           wake'[t] \in BOOLEAN,
           \/ ctx'[t] = ctx[t] /\ wake'[t] = wake[t]
           \/ ctx[t] = "absent" /\ ctx'[t] = "parked" /\ wake'[t]
           \/ ctx[t] \in {"parked", "parking"} /\ ~wake[t]
              /\ ctx'[t] = ctx[t] /\ wake'[t]
           \/ ctx[t] = "parked" /\ wake[t] /\ ctx'[t] = "running" /\ ~wake'[t]
           \/ ctx[t] = "running" /\ ctx'[t] = "parking" /\ wake'[t] = wake[t]
           \/ ctx[t] \in {"running", "parking"} /\ ctx'[t] = "parked"
              /\ wake'[t] = wake[t]
           \/ ctx[t] = "running" /\ ~wake[t] /\ ctx'[t] = "ended"
              /\ wake'[t] = wake[t]
    PROVE  [Contract!Next]_<<ctx, wake>>
<1>1. /\ ctx = [u \in Threads |-> ctx[u]] /\ ctx' = [u \in Threads |-> ctx'[u]]
      /\ wake = [u \in Threads |-> wake[u]] /\ wake' = [u \in Threads |-> wake'[u]]
  BY DEF ctx, wake
<1> HIDE DEF ctx, wake
<1>2. ctx' = [ctx EXCEPT ![t] = ctx'[t]] /\ wake' = [wake EXCEPT ![t] = wake'[t]]
  BY <1>1
<1>3. ctx'[t] = ctx[t] => ctx' = ctx
  BY <1>1
<1>4. wake'[t] = wake[t] => wake' = wake
  BY <1>1
<1>5. wake'[t] => wake' = [wake EXCEPT ![t] = TRUE]
  BY <1>2
<1>6. ~wake'[t] => wake' = [wake EXCEPT ![t] = FALSE]
  BY <1>2
<1>7. CASE ctx'[t] = ctx[t] /\ wake'[t] = wake[t]
  BY <1>3, <1>4, <1>7
<1>8. CASE ctx[t] = "absent" /\ ctx'[t] = "parked" /\ wake'[t]
  <2>1. Contract!Create(t)
    BY <1>2, <1>5, <1>8 DEF Contract!Create
  <2> QED BY <2>1 DEF Contract!Next
<1>9. CASE ctx[t] \in {"parked", "parking"} /\ ~wake[t] /\ ctx'[t] = ctx[t] /\ wake'[t]
  <2>1. Contract!Wake(t)
    BY <1>3, <1>5, <1>9 DEF Contract!Wake
  <2> QED BY <2>1 DEF Contract!Next
<1>10. CASE ctx[t] = "parked" /\ wake[t] /\ ctx'[t] = "running" /\ ~wake'[t]
  <2>1. Contract!Run(t)
    BY <1>2, <1>6, <1>10 DEF Contract!Run
  <2> QED BY <2>1 DEF Contract!Next
<1>11. CASE ctx[t] = "running" /\ ctx'[t] = "parking" /\ wake'[t] = wake[t]
  <2>1. Contract!Announce(t)
    BY <1>2, <1>4, <1>11 DEF Contract!Announce
  <2> QED BY <2>1 DEF Contract!Next
<1>12. CASE ctx[t] \in {"running", "parking"} /\ ctx'[t] = "parked" /\ wake'[t] = wake[t]
  <2>1. Contract!Park(t)
    BY <1>2, <1>4, <1>12 DEF Contract!Park
  <2> QED BY <2>1 DEF Contract!Next
<1>13. CASE ctx[t] = "running" /\ ~wake[t] /\ ctx'[t] = "ended" /\ wake'[t] = wake[t]
  <2>1. Contract!End(t)
    BY <1>2, <1>4, <1>13 DEF Contract!End
  <2> QED BY <2>1 DEF Contract!Next
<1> QED BY <1>7, <1>8, <1>9, <1>10, <1>11, <1>12, <1>13

(* Nothing that it sees changes.                                           *)
LEMMA SameView ==
    ASSUME IInv, IInv', NEW u \in Threads, state'[u] = state[u],
           \A ph \in {"user", "pausing"} : InPhase(u, ph)' <=> InPhase(u, ph),
           Woken(u)' <=> Woken(u)
    PROVE  ctx'[u] = ctx[u] /\ wake'[u] = wake[u]
<1>1. wake'[u] = wake[u]
  BY WakeIs
<1>2. (InPhase(u, "user")' <=> InPhase(u, "user"))
      /\ (InPhase(u, "pausing")' <=> InPhase(u, "pausing"))
  OBVIOUS
<1>3. ctx'[u] = ctx[u]
  BY <1>2, CtxIs
<1> QED BY <1>1, <1>3

(* The coroutine on a worker registers, switches out or ends.              *)
LEMMA CallsRefine ==
    ASSUME IInv, IInv', NEW t \in Threads, SwitchingCall(t) \/ SwitchOut(t)
    PROVE  [Contract!Next]_<<ctx, wake>>
<1>1. PICK p, v :
         /\ \/ InPhase(t, "user") /\ p = "pausing" /\ v = "RUNNING"
            \/ (InPhase(t, "user") \/ InPhase(t, "pausing"))
               /\ p = "out" /\ v \in {"READY", "BLOCKED"}
            \/ InPhase(t, "user") /\ p = "stopped" /\ v = "STOPPED"
         /\ exec' = [exec EXCEPT ![strand[t]].phase = p]
         /\ state' = [state EXCEPT ![t] = v]
         /\ UNCHANGED <<strand, queue, handle>>
  <2>1. CASE Sleep(t) \/ \E f \in Threads : JoinWait(t, f)
    <3>1. /\ InPhase(t, "user")
          /\ exec' = [exec EXCEPT ![strand[t]].phase = "pausing"]
          /\ UNCHANGED <<state, strand, queue, handle>>
      BY <2>1 DEF Sleep, JoinWait, Running, Register
    <3>2. state' = [state EXCEPT ![t] = "RUNNING"]
      BY <3>1 DEF IInv, TypeOK, ExecSound, InPhase, Executing
    <3> QED BY <3>1, <3>2
  <2>2. CASE \E hint : Yield(t, hint)
    BY <2>2 DEF Yield, Running
  <2>3. CASE SwitchOut(t)
    BY <2>3 DEF SwitchOut
  <2>4. CASE Finish(t)
    BY <2>4 DEF Finish, Running
  <2> QED BY <2>1, <2>2, <2>3, <2>4 DEF SwitchingCall
<1>2. \A u \in Threads : \A ph :
         InPhase(u, ph)' <=> IF u = t THEN ph = p ELSE InPhase(u, ph)
  BY <1>1, PhaseStep
<1>3. state[t] = "RUNNING" /\ state'[t] = v
      /\ \A u \in Threads \ {t} : state'[u] = state[u]
  BY <1>1 DEF IInv, TypeOK, ExecSound, InPhase, Executing
<1>4. \A u \in Threads : Woken(u)' <=> Woken(u)
  BY <1>1 DEF Woken, Posted
<1>5. \A u \in Threads \ {t} : ctx'[u] = ctx[u] /\ wake'[u] = wake[u]
  BY <1>2, <1>3, <1>4, SameView
<1>6. wake'[t] = wake[t] /\ wake'[t] \in BOOLEAN
  BY <1>4, WakeIs
<1>7. InPhase(t, "user") => ~wake[t]
  <2>1. ASSUME InPhase(t, "user") PROVE ~Woken(t)
    <3>1. Only(t, "self", t, 0)
      BY <2>1, ExecutingFacts DEF InPhase
    <3>2. \A x \in Threads : \A i : ~Posted(t, x, i)
      BY <3>1, NoOther DEF Only
    <3> QED BY <3>2 DEF Woken
  <2> QED BY <2>1, WakeIs
<1>8. ctx[t] = IF InPhase(t, "user") THEN "running" ELSE "parking"
  BY <1>1, <1>3, CtxIs
<1>9. ctx'[t] = IF p = "pausing" THEN "parking"
                ELSE IF p = "out" THEN "parked" ELSE "ended"
  <2>1. /\ InPhase(t, "user")' <=> p = "user"
        /\ InPhase(t, "pausing")' <=> p = "pausing"
    BY <1>2
  <2> QED BY <1>1, <1>3, <2>1, CtxIs
<1> QED BY <1>1, <1>5, <1>6, <1>7, <1>8, <1>9, StepOf

(* A new thread is parked and woken.                                       *)
LEMMA MakeThreadRefines ==
    ASSUME IInv, IInv', NEW u \in Threads, NEW s \in Threads, MakeThread(u, s)
    PROVE  [Contract!Next]_<<ctx, wake>>
<1>1. PICK n : n = Len(queue[s]) + 1
  OBVIOUS
<1>2. /\ Post(s, Activate(u)) /\ Activate(u) \in Handlers
      /\ state[u] = "NEW" /\ state'[u] = "READY" /\ exec' = exec
      /\ \A v \in Threads \ {u} : state'[v] = state[v] /\ strand'[v] = strand[v]
  BY DEF MakeThread, Activate, Handlers, IInv, TypeOK
<1>3. \A v, x \in Threads : \A i :
         Posted(v, x, i)' <=> Posted(v, x, i) \/ (x = s /\ i = n /\ Activate(u) = Activate(v))
  BY <1>1, <1>2, PostFacts DEF IInv
<1>4. Woken(u)' /\ \A v \in Threads \ {u} : Woken(v)' <=> Woken(v)
  BY <1>3 DEF Woken, Activate
<1>5. \A v \in Threads \ {u} : \A ph : InPhase(v, ph)' <=> InPhase(v, ph)
  BY <1>2 DEF InPhase, Executing, Created
<1>6. \A v \in Threads \ {u} : ctx'[v] = ctx[v] /\ wake'[v] = wake[v]
  BY <1>2, <1>4, <1>5, SameView
<1>7. ctx[u] = "absent" /\ wake'[u] /\ wake'[u] \in BOOLEAN
  BY <1>2, <1>4, CtxIs, WakeIs
<1>8. ctx'[u] = "parked"
  <2>1. ~InPhase(u, "user")' /\ ~InPhase(u, "pausing")'
    BY <1>2 DEF IInv, ExecSound, InPhase, Executing, TypeOK
  <2> QED BY <1>2, <2>1, CtxIs
<1> QED BY <1>6, <1>7, <1>8, StepOf

(* A joiner, or the sleeper whose timer fires, or a thread that yielded,
   is woken.                                                               *)
LEMMA ResumeRefines ==
    ASSUME IInv, IInv', NEW t \in Threads, Resume(t), Live(t),
           UNCHANGED <<state, strand>>,
           \A u \in Threads : \A ph \in {"user", "pausing"} :
              InPhase(u, ph)' <=> InPhase(u, ph),
           NEW k \in {"timer", "temp", "self"}, NEW x, NEW i, Spot(t, k, x, i),
           ~InPhase(t, "user")
    PROVE  [Contract!Next]_<<ctx, wake>>
<1>1. PICK s \in Threads : s = strand[t]
  BY DEF IInv, TypeOK
<1>2. PICK n : n = Len(queue[s]) + 1
  OBVIOUS
<1>3. Post(s, Activate(t)) /\ Activate(t) \in Handlers
  BY <1>1 DEF Resume, Activate, Handlers
<1>4. \A v, y \in Threads : \A j :
         Posted(v, y, j)' <=> Posted(v, y, j) \/ (y = s /\ j = n /\ Activate(t) = Activate(v))
  BY <1>2, <1>3, PostFacts DEF IInv
<1>5. Woken(t)' /\ \A v \in Threads \ {t} : Woken(v)' <=> Woken(v)
  BY <1>4 DEF Woken, Activate
<1>6. \A v \in Threads \ {t} : ctx'[v] = ctx[v] /\ wake'[v] = wake[v]
  BY <1>5, SameView
<1>7. ~Woken(t)
  <2>1. Only(t, k, x, i)
    BY OnceIsOnly DEF IInv, OneSpot
  <2>2. \A y \in Threads : \A j : ~Posted(t, y, j)
    BY <2>1, NoOther DEF Only
  <2> QED BY <2>2 DEF Woken
<1>8. ctx[t] \in {"parked", "parking"} /\ ctx'[t] = ctx[t]
  <2>1. /\ InPhase(t, "user")' <=> InPhase(t, "user")
        /\ InPhase(t, "pausing")' <=> InPhase(t, "pausing")
    OBVIOUS
  <2> QED BY <2>1, CtxIs DEF Live
<1>9. ~wake[t] /\ wake'[t] /\ wake'[t] \in BOOLEAN
  BY <1>5, <1>7, WakeIs
<1> QED BY <1>6, <1>8, <1>9, StepOf

(* A handler that is not an activation of u leaves the strand.             *)
LEMMA DispatchWakes ==
    ASSUME IInv, NEW s \in Threads, NEW kind, Dispatch(s, kind),
           NEW u \in Threads, ~Posted(u, s, 1)
    PROVE  Woken(u)' <=> Woken(u)
<1>1. \A x \in Threads : \A i :
         Posted(u, x, i)' <=> IF x = s THEN i \in Nat \ {0} /\ Posted(u, s, i + 1)
                                       ELSE Posted(u, x, i)
  BY DispatchFacts DEF IInv
<1>2. ASSUME NEW x \in Threads, NEW i, Posted(u, x, i)
      PROVE  \E j : Posted(u, x, j)'
  <2>1. i \in Nat \ {0}
    BY <1>2, SpotNat DEF IInv, Spot
  <2>2. CASE x = s
    <3>1. i - 1 \in Nat \ {0} /\ (i - 1) + 1 = i
      BY <1>2, <2>1, <2>2
    <3>2. Posted(u, x, i - 1)'
      BY <1>1, <1>2, <2>2, <3>1
    <3> QED BY <3>2
  <2>3. CASE x # s
    BY <1>1, <1>2, <2>3
  <2> QED BY <2>2, <2>3
<1>3. ASSUME NEW x \in Threads, NEW i, Posted(u, x, i)'
      PROVE  \E j : Posted(u, x, j)
  BY <1>1, <1>3
<1> QED BY <1>2, <1>3 DEF Woken

(* activate_thread runs a woken thread that is parked.                     *)
LEMMA ActivateRefines ==
    ASSUME IInv, IInv', NEW s \in Threads, RunActivate(s)
    PROVE  [Contract!Next]_<<ctx, wake>>
<1>1. PICK t : t = Head(queue[s]).thread
  OBVIOUS
<1> DEFINE e == [thread |-> t, phase |-> "user", temp |-> <<>>]
<1>2. /\ Dispatch(s, "activate") /\ exec[s] = Idle
      /\ state' = [state EXCEPT ![t] = "RUNNING"]
      /\ exec' = [exec EXCEPT ![s] = e]
      /\ UNCHANGED strand
  BY <1>1 DEF RunActivate, Dispatch
<1>3. /\ Head(queue[s]) \in Handlers /\ Head(queue[s]).kind = "activate"
      /\ 1 \in 1..Len(queue[s]) /\ Head(queue[s]) = queue[s][1]
      /\ \A u, x \in Threads : \A i :
            Posted(u, x, i)' <=> IF x = s THEN i \in Nat \ {0} /\ Posted(u, s, i + 1)
                                          ELSE Posted(u, x, i)
  BY <1>2, DispatchFacts DEF IInv
<1>4. /\ t \in Threads /\ queue[s][1] = Activate(t)
      /\ Created(t) /\ strand[t] = s
  <2>1. t \in Threads /\ queue[s][1] = Activate(t)
    BY <1>1, <1>3 DEF Handlers, Activate
  <2> QED BY <1>1, <1>3, <2>1 DEF IInv, QueuesSound
<1>5. Spot(t, "handler", s, 1) /\ Only(t, "handler", s, 1) /\ Live(t)
  <2>1. Spot(t, "handler", s, 1)
    BY <1>3, <1>4 DEF Spot, Posted
  <2> QED BY <1>4, <2>1, OnceIsOnly DEF IInv, OneSpot, Some
<1>6. e \in Steps
  BY <1>4 DEF Steps, Phases
<1>7. /\ exec'[s] = e
      /\ \A u \in Threads : \A ph :
            /\ u # exec[s].thread /\ u # e.thread
            /\ state'[u] = state[u]
            => (InPhase(u, ph)' <=> InPhase(u, ph))
  BY <1>2, <1>6, StrandFacts DEF IInv
<1>8. state'[t] = "RUNNING" /\ \A u \in Threads \ {t} : state'[u] = state[u]
  BY <1>2, <1>4 DEF IInv, TypeOK
<1>9. InPhase(t, "user")' /\ ~InPhase(t, "user") /\ ~InPhase(t, "pausing")
  BY <1>2, <1>4, <1>7, <1>8, ThreadsAssumption DEF InPhase, Executing, Created, Idle
<1>10. \A u \in Threads \ {t} : \A ph : InPhase(u, ph)' <=> InPhase(u, ph)
  BY <1>2, <1>7, <1>8, ThreadsAssumption DEF Idle
<1>11. ASSUME NEW u \in Threads, u # t PROVE Woken(u)' <=> Woken(u)
  <2>1. ~Posted(u, s, 1)
    BY <1>4, <1>11 DEF Posted, Activate
  <2> QED BY <1>2, <1>11, <2>1, DispatchWakes
<1>12. \A u \in Threads \ {t} : ctx'[u] = ctx[u] /\ wake'[u] = wake[u]
  BY <1>8, <1>10, <1>11, SameView
<1>13. wake[t]
  <2>1. Woken(t)
    BY <1>5 DEF Spot, Woken
  <2> QED BY <1>4, <2>1, WakeIs
<1>14. ~wake'[t] /\ wake'[t] \in BOOLEAN
  <2>1. \A x \in Threads : \A i : Posted(t, x, i) => x = s /\ i = 1
    BY <1>5 DEF Only, Spot
  <2>2. \A i \in Nat \ {0} : i + 1 # 1
    OBVIOUS
  <2>3. \A x \in Threads : \A i : ~Posted(t, x, i)'
    BY <1>3, <1>4, <2>1, <2>2
  <2>4. ~Woken(t)'
    BY <2>3 DEF Woken
  <2> QED BY <1>4, <2>4, WakeIs
<1>15. ctx[t] = "parked" /\ ctx'[t] = "running"
  BY <1>4, <1>5, <1>8, <1>9, CtxIs DEF Live
<1> QED BY <1>4, <1>12, <1>13, <1>14, <1>15, StepOf

(* Everything else is of no concern to the contract.                       *)
LEMMA StutterRefines ==
    ASSUME IInv, IInv', UNCHANGED <<state, strand>>,
           \A u \in Threads : \A ph \in {"user", "pausing"} :
              InPhase(u, ph)' <=> InPhase(u, ph),
           \A u \in Threads : Woken(u)' <=> Woken(u)
    PROVE  [Contract!Next]_<<ctx, wake>>
<1>1. \A u \in Threads : ctx'[u] = ctx[u] /\ wake'[u] = wake[u]
  BY SameView
<1>2. /\ ctx = [u \in Threads |-> ctx[u]] /\ ctx' = [u \in Threads |-> ctx'[u]]
      /\ wake = [u \in Threads |-> wake[u]] /\ wake' = [u \in Threads |-> wake'[u]]
  BY DEF ctx, wake
<1> HIDE DEF ctx, wake
<1> QED BY <1>1, <1>2

(* A handler other than an activation comes or goes.                       *)
LEMMA OtherHandlersRefine ==
    ASSUME IInv, IInv', UNCHANGED <<state, strand, exec>>,
           NEW s \in Threads, NEW h \in Handlers, h.kind # "activate",
           \/ Post(s, h)
           \/ Dispatch(s, "detach") \/ Dispatch(s, "exit") \/ UNCHANGED queue
    PROVE  [Contract!Next]_<<ctx, wake>>
<1>1. \A u \in Threads : \A ph : InPhase(u, ph)' <=> InPhase(u, ph)
  BY DEF InPhase, Executing, Created
<1>2. \A u \in Threads : Woken(u)' <=> Woken(u)
  <2>1. CASE Post(s, h)
    <3>1. PICK n : n = Len(queue[s]) + 1
      OBVIOUS
    <3>2. \A u : h # Activate(u)
      BY DEF Activate
    <3>3. \A u, x \in Threads : \A i : Posted(u, x, i)' <=> Posted(u, x, i)
      BY <2>1, <3>1, <3>2, PostFacts DEF IInv
    <3> QED BY <3>3 DEF Woken
  <2>2. ASSUME NEW kind \in {"detach", "exit"}, Dispatch(s, kind), NEW u \in Threads
        PROVE  Woken(u)' <=> Woken(u)
    <3>1. Head(queue[s]).kind = kind /\ Head(queue[s]) = queue[s][1]
      BY <2>2, DispatchFacts DEF IInv
    <3>2. ~Posted(u, s, 1)
      BY <3>1 DEF Posted, Activate
    <3> QED BY <2>2, <3>2, DispatchWakes
  <2>3. CASE UNCHANGED queue
    BY <2>3 DEF Woken, Posted
  <2> QED BY <2>1, <2>2, <2>3
<1> QED BY <1>1, <1>2, StutterRefines

(* The tail of one_step.                                                   *)
LEMMA FinishRefines ==
    ASSUME IInv, IInv', NEW s \in Threads, FinishStep(s)
    PROVE  [Contract!Next]_<<ctx, wake>>
<1>1. PICK t : t = exec[s].thread
  OBVIOUS
<1>2. /\ exec[s].phase \notin {"idle", "user", "pausing"}
      /\ UNCHANGED <<state, strand>>
  BY DEF FinishStep, RepostReady, LeaveBlocked, DrainJoinQueue, ActivateJoiner,
         PostExit
<1>3. t \in Threads /\ strand[t] = s
  BY <1>1, <1>2 DEF IInv, ExecSound
<1>4. /\ \A r \in Threads \ {s} : exec'[r] = exec[r]
      /\ \/ exec'[s] = Idle
         \/ exec'[s].thread = t /\ exec'[s].phase = "notify"
  <2>1. CASE RepostReady(s) \/ LeaveBlocked(s) \/ PostExit(s)
    BY <2>1 DEF RepostReady, LeaveBlocked, PostExit, IInv, TypeOK
  <2>2. CASE DrainJoinQueue(s)
    BY <1>1, <2>2 DEF DrainJoinQueue, IInv, TypeOK
  <2>3. CASE ActivateJoiner(s)
    <3>1. exec[s] \in Steps
      BY DEF IInv, TypeOK
    <3> QED BY <1>1, <2>3, <3>1 DEF ActivateJoiner, IInv, TypeOK, Steps
  <2> QED BY <2>1, <2>2, <2>3 DEF FinishStep
<1>5. ASSUME NEW u \in Threads, NEW ph \in {"user", "pausing"}
      PROVE  InPhase(u, ph)' <=> InPhase(u, ph)
  <2>1. strand[u] \in Threads
    BY DEF IInv, TypeOK
  <2>2. CASE strand[u] = s
    BY <1>2, <1>4, <2>2 DEF InPhase, Idle
  <2>3. CASE strand[u] # s
    BY <1>2, <1>4, <2>1, <2>3 DEF InPhase, Executing, Created
  <2> QED BY <2>2, <2>3
<1>6. CASE LeaveBlocked(s) \/ DrainJoinQueue(s)
  <2>1. \A u \in Threads : Woken(u)' <=> Woken(u)
    BY <1>6 DEF LeaveBlocked, DrainJoinQueue, Woken, Posted
  <2> QED BY <1>2, <1>5, <2>1, StutterRefines
<1>7. CASE PostExit(s)
  <2> DEFINE h == [kind |-> "exit", thread |-> t]
  <2>1. Post(s, h) /\ h \in Handlers /\ \A u : h # Activate(u)
    BY <1>1, <1>3, <1>7 DEF PostExit, Handlers, Activate
  <2>2. PICK n : n = Len(queue[s]) + 1
    OBVIOUS
  <2>3. \A u, x \in Threads : \A i : Posted(u, x, i)' <=> Posted(u, x, i)
    BY <2>1, <2>2, PostFacts DEF IInv
  <2>4. \A u \in Threads : Woken(u)' <=> Woken(u)
    BY <2>3 DEF Woken
  <2> QED BY <1>2, <1>5, <2>4, StutterRefines
<1>8. CASE RepostReady(s)
  <2>1. /\ exec[s].phase = "out" /\ state[t] = "READY" /\ Resume(t)
    BY <1>1, <1>8 DEF RepostReady
  <2>2. InPhase(t, "out") /\ ~InPhase(t, "user") /\ Live(t)
    BY <1>1, <1>3, <2>1 DEF InPhase, Executing, Created, Live
  <2>3. Spot(t, "self", t, 0)
    BY <2>1, <2>2 DEF Spot, SelfRuns
  <2> QED BY <1>2, <1>3, <1>5, <2>1, <2>2, <2>3, ResumeRefines
<1>9. CASE ActivateJoiner(s)
  <2>1. PICK u : u = Head(exec[s].temp)
    OBVIOUS
  <2>2. exec[s].temp # <<>> /\ Resume(u) /\ exec[s].temp \in Seq(Threads)
    BY <1>9, <2>1 DEF ActivateJoiner, IInv, TypeOK, Steps
  <2>3. u \in Threads /\ u = exec[s].temp[1] /\ 1 \in 1..Len(exec[s].temp)
    BY <2>1, <2>2, TailFacts
  <2>4. Spot(u, "temp", s, 1)
    BY <2>3 DEF Spot, Taken
  <2>5. Live(u) /\ Only(u, "temp", s, 1)
    BY <2>3, <2>4, OnceIsOnly DEF IInv, OneSpot, Some
  <2>6. ~InPhase(u, "user")
    BY <2>3, <2>5, NoOther DEF Only, SelfRuns
  <2> QED BY <1>2, <1>5, <2>2, <2>3, <2>4, <2>5, <2>6, ResumeRefines
<1> QED BY <1>6, <1>7, <1>8, <1>9 DEF FinishStep

LEMMA StepRefines ==
    ASSUME IInv, IInv', [Next]_vars
    PROVE  [Contract!Next]_<<ctx, wake>>
<1>1. ASSUME NEW t \in Threads, NEW u \in Threads,
             StartFromOutside(u) \/ StartNormal(t, u) \/ StartSticky(t, u)
      PROVE  [Contract!Next]_<<ctx, wake>>
  <2>1. strand[t] \in Threads
    BY DEF IInv, TypeOK
  <2>2. PICK s \in Threads : MakeThread(u, s)
    BY <1>1, <2>1 DEF StartFromOutside, StartNormal, StartSticky
  <2> QED BY <2>2, MakeThreadRefines
<1>2. ASSUME NEW f \in Threads, Detach(f)
      PROVE  [Contract!Next]_<<ctx, wake>>
  <2> DEFINE h == [kind |-> "detach", thread |-> f]
  <2>1. PICK s \in Threads : s = strand[f]
    BY DEF IInv, TypeOK
  <2>2. Post(s, h) /\ h \in Handlers /\ h.kind # "activate"
        /\ UNCHANGED <<state, strand, exec>>
    BY <1>2, <2>1 DEF Detach, Handlers
  <2> QED BY <2>2, OtherHandlersRefine
<1>3. ASSUME NEW t \in Threads, SwitchingCall(t) \/ SwitchOut(t)
      PROVE  [Contract!Next]_<<ctx, wake>>
  BY <1>3, CallsRefine
<1>4. ASSUME NEW t \in Threads, DropHandle(t) \/ PauseReturns(t)
      PROVE  [Contract!Next]_<<ctx, wake>>
  <2>1. UNCHANGED <<state, strand, exec, queue>>
    BY <1>4 DEF DropHandle, PauseReturns
  <2>2. [kind |-> "exit", thread |-> t] \in Handlers
    BY DEF Handlers
  <2> QED BY <2>1, <2>2, OtherHandlersRefine
<1>5. ASSUME NEW s \in Threads, Take(s)
      PROVE  [Contract!Next]_<<ctx, wake>>
  <2>1. CASE RunActivate(s)
    BY <2>1, ActivateRefines
  <2>2. CASE RunDetach(s) \/ RunExit(s)
    <3>1. UNCHANGED <<state, strand, exec>>
          /\ (Dispatch(s, "detach") \/ Dispatch(s, "exit"))
      BY <2>2 DEF RunDetach, RunExit
    <3>2. [kind |-> "exit", thread |-> s] \in Handlers
      BY DEF Handlers
    <3> QED BY <3>1, <3>2, OtherHandlersRefine
  <2> QED BY <1>5, <2>1, <2>2 DEF Take
<1>6. ASSUME NEW s \in Threads, FinishStep(s)
      PROVE  [Contract!Next]_<<ctx, wake>>
  BY <1>6, FinishRefines
<1>7. ASSUME NEW t \in Threads, TimerFires(t)
      PROVE  [Contract!Next]_<<ctx, wake>>
  <2>1. t \in timers /\ Resume(t) /\ UNCHANGED <<state, strand, exec>>
    BY <1>7 DEF TimerFires
  <2>2. \A u \in Threads : \A ph \in {"user", "pausing"} :
           InPhase(u, ph)' <=> InPhase(u, ph)
    BY <2>1 DEF InPhase, Executing, Created
  <2>3. Spot(t, "timer", t, 0)
    BY <2>1 DEF Spot
  <2>4. Live(t) /\ Only(t, "timer", t, 0)
    BY <2>3, OnceIsOnly DEF IInv, OneSpot, Some
  <2>5. ~InPhase(t, "user")
    BY <2>4, NoOther DEF Only, SelfRuns
  <2> QED BY <2>1, <2>2, <2>3, <2>4, <2>5, ResumeRefines
<1>8. CASE UNCHANGED vars
  <2>1. \A u \in Threads : \A ph \in {"user", "pausing"} :
           InPhase(u, ph)' <=> InPhase(u, ph)
    BY <1>8 DEF vars, InPhase, Executing, Created
  <2>2. \A u \in Threads : Woken(u)' <=> Woken(u)
    BY <1>8 DEF vars, Woken, Posted
  <2> QED BY <1>8, <2>1, <2>2, StutterRefines DEF vars
<1> QED BY <1>1, <1>2, <1>3, <1>4, <1>5, <1>6, <1>7, <1>8 DEF Next, Coroutine

(* The coroutines, strands, timers and joins of thread_object.cpp keep the
   contract that what is built on green threads relies on.                 *)
THEOREM ThreadsKeepContract == Spec => ImplementsSuspension
<1>1. Init => Contract!Init
  <2> SUFFICES ASSUME Init PROVE Contract!Init
    OBVIOUS
  <2>2. \A t \in Threads : state[t] = "NEW" /\ queue[strand[t]] = <<>>
    BY DEF Init
  <2>3. ctx = [t \in Threads |-> "absent"]
    BY <2>2 DEF ctx
  <2>4. \A t \in Threads : Positions(queue[strand[t]], Activate(t)) = {}
    BY <2>2 DEF Positions
  <2>5. wake = [t \in Threads |-> FALSE]
    BY <2>4 DEF wake
  <2> QED BY <2>3, <2>5 DEF Contract!Init
<1>2. IInv /\ IInv' /\ [Next]_vars => [Contract!Next]_<<ctx, wake>>
  BY StepRefines
<1> QED BY <1>1, <1>2, Invariance, PTL DEF Spec, ImplementsSuspension, Contract!Spec, Contract!vars

-----------------------------------------------------------------------------
(* The scheduler's account of the threads, on top of IInv.                 *)

ExitHandler(t) == [kind |-> "exit", thread |-> t]
ExitAt(t, x, i) == /\ x \in Threads
                   /\ i \in 1..Len(queue[x])
                   /\ queue[x][i] = ExitHandler(t)
Done(t) == state[t] = "STOPPED" /\ ~Executing(t)
Accounted == {t \in Threads : Created(t) /\ ~Exited(t)}

(* on_thread_exit is posted for a thread that has left its worker for good,
   and waits in one place.                                                 *)
ExitPosted(t) == \A x, y, i, j :
                    /\ ExitAt(t, x, i) => Done(t)
                    /\ ExitAt(t, x, i) /\ ExitAt(t, y, j) => x = y /\ i = j

AInv == /\ thisRef \in [Threads -> BOOLEAN]
        /\ \A t \in Threads : ExitPosted(t)
        /\ IsFiniteSet(Accounted)
        /\ ExitAccounted

LEMMA ExitedIs ==
    ASSUME TypeOK, NEW t \in Threads
    PROVE  Exited(t) <=> Done(t) /\ \A x, i : ~ExitAt(t, x, i)
<1>1. \A x \in Threads : DOMAIN queue[x] = 1..Len(queue[x])
  BY DEF TypeOK
<1> QED BY <1>1 DEF Exited, Done, ExitAt, ExitHandler, Positions

LEMMA ExitedIsNext ==
    ASSUME TypeOK', NEW t \in Threads
    PROVE  Exited(t)' <=> Done(t)' /\ \A x, i : ~ExitAt(t, x, i)'
<1>1. \A x \in Threads : DOMAIN queue'[x] = 1..Len(queue'[x])
  BY DEF TypeOK
<1> QED BY <1>1 DEF Exited, Done, ExitAt, ExitHandler, Positions

(* How the exit handlers of a thread may change in a step.                 *)
SameExits(t) == \A x, i : ExitAt(t, x, i)' <=> ExitAt(t, x, i)
ShiftedExits(t, s) ==
    \A x, i : ExitAt(t, x, i)' <=>
                 IF x = s THEN i \in Nat \ {0} /\ ExitAt(t, x, i + 1)
                          ELSE ExitAt(t, x, i)

LEMMA PostExits ==
    ASSUME TypeOK, NEW s \in Threads, NEW h \in Handlers, Post(s, h),
           NEW n, n = Len(queue[s]) + 1, NEW t \in Threads
    PROVE  \A x, i : ExitAt(t, x, i)' <=> \/ ExitAt(t, x, i)
                                          \/ x = s /\ i = n /\ h = ExitHandler(t)
<1>1. /\ queue' = [queue EXCEPT ![s] = Append(@, h)]
      /\ queue[s] \in Seq(Handlers)
  BY DEF Post, TypeOK
<1>2. /\ Len(queue[s]) \in Nat
      /\ Len(Append(queue[s], h)) = n
      /\ \A i \in 1..Len(queue[s]) : Append(queue[s], h)[i] = queue[s][i]
      /\ Append(queue[s], h)[n] = h
  BY <1>1, AppendFacts
<1>3. /\ queue'[s] = Append(queue[s], h)
      /\ \A x \in Threads \ {s} : queue'[x] = queue[x]
  BY <1>1 DEF TypeOK
<1>4. /\ \A i : i \in 1..n <=> i \in 1..Len(queue[s]) \/ i = n
      /\ n \notin 1..Len(queue[s])
  BY <1>2
<1>5. ASSUME NEW x, NEW i
      PROVE  ExitAt(t, x, i)' <=> \/ ExitAt(t, x, i)
                                  \/ x = s /\ i = n /\ h = ExitHandler(t)
  <2>1. CASE x = s
    BY <1>2, <1>3, <1>4, <2>1 DEF ExitAt
  <2>2. CASE x # s
    BY <1>3, <2>2 DEF ExitAt
  <2> QED BY <2>1, <2>2
<1> QED BY <1>5

LEMMA DispatchExits ==
    ASSUME TypeOK, NEW s \in Threads, NEW kind, Dispatch(s, kind), NEW t \in Threads
    PROVE  /\ ShiftedExits(t, s)
           /\ ExitAt(t, s, 1) <=> Head(queue[s]) = ExitHandler(t)
<1>1. /\ queue' = [queue EXCEPT ![s] = Tail(@)]
      /\ queue[s] \in Seq(Handlers) /\ queue[s] # <<>>
  BY DEF Dispatch, TypeOK
<1>2. /\ Head(queue[s]) = queue[s][1]
      /\ Len(queue[s]) \in Nat \ {0}
      /\ Len(Tail(queue[s])) = Len(queue[s]) - 1
      /\ \A i \in 1..Len(Tail(queue[s])) : Tail(queue[s])[i] = queue[s][i + 1]
  BY <1>1, TailFacts
<1>3. /\ queue'[s] = Tail(queue[s])
      /\ \A x \in Threads \ {s} : queue'[x] = queue[x]
  BY <1>1 DEF TypeOK
<1>4. \A i : i \in 1..Len(Tail(queue[s]))
                <=> i \in Nat \ {0} /\ i + 1 \in 1..Len(queue[s])
  BY <1>2
<1>5. ASSUME NEW x, NEW i
      PROVE  ExitAt(t, x, i)' <=>
                IF x = s THEN i \in Nat \ {0} /\ ExitAt(t, x, i + 1)
                         ELSE ExitAt(t, x, i)
  <2>1. CASE x = s
    BY <1>2, <1>3, <1>4, <2>1 DEF ExitAt
  <2>2. CASE x # s
    BY <1>3, <2>2 DEF ExitAt
  <2> QED BY <2>1, <2>2
<1>6. 1 \in 1..Len(queue[s])
  BY <1>2
<1> QED BY <1>2, <1>5, <1>6 DEF ShiftedExits, ExitAt

LEMMA ShiftKeepsExits ==
    ASSUME TypeOK, TypeOK', NEW t \in Threads, NEW s \in Threads, ExitPosted(t),
           Done(t)' <=> Done(t), ShiftedExits(t, s), ~ExitAt(t, s, 1)
    PROVE  ExitPosted(t)' /\ (Exited(t)' <=> Exited(t))
<1>1. ASSUME NEW x, NEW i, ExitAt(t, x, i)'
      PROVE  /\ Done(t)
             /\ ExitAt(t, x, IF x = s THEN i + 1 ELSE i)
             /\ x = s => i \in Nat
  BY <1>1 DEF ShiftedExits, ExitPosted
<1>2. ASSUME NEW x, NEW y, NEW i, NEW j, ExitAt(t, x, i)', ExitAt(t, y, j)'
      PROVE  x = y /\ i = j
  <2>1. /\ ExitAt(t, x, IF x = s THEN i + 1 ELSE i)
        /\ ExitAt(t, y, IF y = s THEN j + 1 ELSE j)
        /\ x = s => i \in Nat
        /\ y = s => j \in Nat
    BY <1>1, <1>2
  <2>2. x = y /\ (IF x = s THEN i + 1 ELSE i) = (IF y = s THEN j + 1 ELSE j)
    BY <2>1 DEF ExitPosted
  <2> QED BY <2>1, <2>2
<1>3. ASSUME NEW x, NEW i, ExitAt(t, x, i) PROVE \E j : ExitAt(t, x, j)'
  <2>1. CASE x = s
    <3>1. Len(queue[s]) \in Nat
      BY DEF TypeOK
    <3>2. i \in Nat /\ i # 0 /\ i # 1
      BY <1>3, <2>1, <3>1 DEF ExitAt
    <3>3. i - 1 \in Nat \ {0} /\ (i - 1) + 1 = i
      BY <3>2
    <3> QED BY <1>3, <2>1, <3>3 DEF ShiftedExits
  <2>2. CASE x # s
    BY <1>3, <2>2 DEF ShiftedExits
  <2> QED BY <2>1, <2>2
<1>4. ExitPosted(t)'
  BY <1>1, <1>2 DEF ExitPosted
<1>5. (\E x, i : ExitAt(t, x, i)') <=> (\E x, i : ExitAt(t, x, i))
  BY <1>1, <1>3
<1> QED BY <1>4, <1>5, ExitedIs, ExitedIsNext

(* Most steps settle no account: at most they take another handler than an
   exit of t from its strand, or set this_ref_ of a thread not yet done.   *)
LEMMA QuietKeepsAInv ==
    ASSUME IInv, TypeOK', AInv, UNCHANGED threadCount,
           thisRef' \in [Threads -> BOOLEAN],
           \A t \in Threads :
              /\ Created(t)' <=> Created(t)
              /\ Done(t)' <=> Done(t)
              /\ thisRef'[t] => thisRef[t] \/ ~Done(t)
              /\ \/ SameExits(t)
                 \/ \E s \in Threads : ShiftedExits(t, s) /\ ~ExitAt(t, s, 1)
    PROVE  AInv'
<1>1. ASSUME NEW t \in Threads
      PROVE  ExitPosted(t)' /\ (Exited(t)' <=> Exited(t))
  <2>1. ExitPosted(t) /\ TypeOK
    BY DEF IInv, AInv
  <2>2. Done(t)' <=> Done(t)
    OBVIOUS
  <2>3. CASE SameExits(t)
    BY <2>1, <2>2, <2>3, ExitedIs, ExitedIsNext DEF SameExits, ExitPosted
  <2>4. CASE \E s \in Threads : ShiftedExits(t, s) /\ ~ExitAt(t, s, 1)
    BY <2>1, <2>2, <2>4, ShiftKeepsExits
  <2> QED BY <2>3, <2>4
<1>2. Accounted' = Accounted
  BY <1>1 DEF Accounted
<1>3. ThreadCountExact'
  BY <1>2 DEF AInv, ExitAccounted, ThreadCountExact, Accounted
<1>4. SelfReferenceReleased'
  <2>1. \A t \in Threads : Exited(t) => Done(t)
    BY ExitedIs DEF IInv
  <2> QED BY <1>1, <2>1 DEF AInv, ExitAccounted, SelfReferenceReleased
<1> QED BY <1>1, <1>2, <1>3, <1>4 DEF AInv, ExitAccounted

(* The steps of a coroutine, of its caller and of a timer.                 *)
LEMMA CallsKeepAInv ==
    ASSUME IInv, TypeOK', AInv, NEW t \in Threads, NEW f \in Threads, NEW hint,
           \/ JoinWait(t, f) \/ Sleep(t) \/ Yield(t, hint) \/ Finish(t)
           \/ SwitchOut(t) \/ PauseReturns(t) \/ DropHandle(t)
    PROVE  AInv'
<1>1. PICK p \in Phases : exec' = [exec EXCEPT ![strand[t]].phase = p] \/ UNCHANGED exec
  <2>1. \/ exec' = [exec EXCEPT ![strand[t]].phase = "pausing"]
        \/ exec' = [exec EXCEPT ![strand[t]].phase = "out"]
        \/ exec' = [exec EXCEPT ![strand[t]].phase = "stopped"]
        \/ UNCHANGED exec
    BY DEF JoinWait, Sleep, Yield, Finish, SwitchOut, PauseReturns, DropHandle,
           Register
  <2>2. "pausing" \in Phases /\ "out" \in Phases /\ "stopped" \in Phases
    BY DEF Phases
  <2> QED BY <2>1, <2>2
<1>2. PICK v \in {"READY", "BLOCKED", "STOPPED"} :
         \/ /\ state' = [state EXCEPT ![t] = v]
            /\ InPhase(t, "user") \/ InPhase(t, "pausing")
         \/ UNCHANGED state
  BY DEF JoinWait, Sleep, Yield, Finish, SwitchOut, PauseReturns, DropHandle, Running
<1>3. /\ UNCHANGED <<strand, queue, thisRef, threadCount>>
      /\ \A r \in Threads : exec'[r].thread = exec[r].thread
  <2>1. strand[t] \in Threads
    BY DEF IInv, TypeOK
  <2>2. UNCHANGED <<strand, queue, thisRef, threadCount>>
    BY DEF JoinWait, Sleep, Yield, Finish, SwitchOut, PauseReturns, DropHandle
  <2> QED BY <1>1, <2>1, <2>2, PhaseFacts DEF IInv
<1>4. ASSUME NEW u \in Threads
      PROVE  /\ Created(u)' <=> Created(u)
             /\ Done(u)' <=> Done(u)
             /\ SameExits(u)
  <2>1. /\ strand[u] \in Threads /\ strand[t] \in Threads
        /\ state \in [Threads -> {"NEW", "READY", "RUNNING", "BLOCKED", "STOPPED"}]
    BY DEF IInv, TypeOK
  <2>2. Created(u)' <=> Created(u)
    BY <1>2, <2>1 DEF Created, InPhase, Executing
  <2>3. Executing(u)' <=> Executing(u)
    BY <1>3, <2>1, <2>2 DEF Executing
  <2>4. Done(u)' <=> Done(u)
    BY <1>2, <2>1, <2>3 DEF Done, InPhase
  <2> QED BY <1>3, <2>2, <2>4 DEF SameExits, ExitAt
<1> QED BY <1>3, <1>4, QuietKeepsAInv DEF AInv

(* A handler that is no exit is posted, by nobody's worker or by one that
   does nothing else.                                                      *)
LEMMA PostKeepsAInv ==
    ASSUME IInv, TypeOK', AInv, NEW s \in Threads, NEW h \in Handlers, Post(s, h),
           h.kind # "exit", UNCHANGED <<state, strand, threadCount, thisRef>>,
           \A r \in Threads : exec'[r].thread = exec[r].thread
    PROVE  AInv'
<1>1. PICK n : n = Len(queue[s]) + 1
  OBVIOUS
<1>2. ASSUME NEW t \in Threads
      PROVE  /\ Created(t)' <=> Created(t)
             /\ Done(t)' <=> Done(t)
             /\ SameExits(t)
  <2>1. SameExits(t)
    BY <1>1, PostExits DEF IInv, SameExits, ExitHandler
  <2>2. strand[t] \in Threads
    BY DEF IInv, TypeOK
  <2> QED BY <2>1, <2>2 DEF Created, Done, Executing
<1> QED BY <1>2, QuietKeepsAInv DEF AInv

LEMMA PostsKeepAInv ==
    ASSUME IInv, TypeOK', AInv, NEW t \in Threads,
           Detach(t) \/ TimerFires(t) \/ ActivateJoiner(t)
    PROVE  AInv'
<1>1. CASE Detach(t)
  <2>1. [kind |-> "detach", thread |-> t] \in Handlers /\ strand[t] \in Threads
    BY DEF Handlers, IInv, TypeOK
  <2> QED BY <1>1, <2>1, PostKeepsAInv DEF Detach
<1>2. CASE TimerFires(t)
  <2>1. Activate(t) \in Handlers /\ strand[t] \in Threads
    BY DEF Handlers, IInv, TypeOK, Activate
  <2> QED BY <1>2, <2>1, PostKeepsAInv DEF TimerFires, Resume, Activate
<1>3. CASE ActivateJoiner(t)
  <2>1. exec[t] \in Steps /\ exec[t].temp \in Seq(Threads) /\ exec[t].temp # <<>>
    BY <1>3 DEF IInv, TypeOK, Steps, ActivateJoiner
  <2>2. PICK u \in Threads : u = Head(exec[t].temp)
    BY <2>1, TailFacts
  <2>3. Activate(u) \in Handlers /\ strand[u] \in Threads
    BY DEF Handlers, IInv, TypeOK, Activate
  <2>4. exec' = [exec EXCEPT ![t].temp = Tail(@)]
    BY <1>3 DEF ActivateJoiner
  <2>5. \A r \in Threads : exec'[r].thread = exec[r].thread
    BY <2>4 DEF IInv, TypeOK, Steps
  <2> QED BY <1>3, <2>2, <2>3, <2>5, PostKeepsAInv
          DEF ActivateJoiner, Resume, Activate
<1> QED BY <1>1, <1>2, <1>3

(* The steps of a worker other than those for the end of a thread.         *)
LEMMA RunDetachKeepsAInv ==
    ASSUME IInv, TypeOK', AInv, NEW s \in Threads, RunDetach(s)
    PROVE  AInv'
<1>1. /\ Dispatch(s, "detach")
      /\ UNCHANGED <<state, strand, exec, threadCount>>
      /\ thisRef' = [thisRef EXCEPT ![Head(queue[s]).thread] =
                        @ \/ state[Head(queue[s]).thread] # "STOPPED"]
  BY DEF RunDetach
<1>2. PICK t \in Threads : t = Head(queue[s]).thread /\ Head(queue[s]).kind = "detach"
  BY <1>1, DispatchFacts DEF IInv, Handlers
<1>3. /\ thisRef' \in [Threads -> BOOLEAN]
      /\ \A u \in Threads : thisRef'[u] => thisRef[u] \/ state[u] # "STOPPED"
  BY <1>1, <1>2 DEF AInv
<1>4. ASSUME NEW u \in Threads
      PROVE  /\ Created(u)' <=> Created(u)
             /\ Done(u)' <=> Done(u)
             /\ ShiftedExits(u, s) /\ ~ExitAt(u, s, 1)
  <2>1. Head(queue[s]) # ExitHandler(u)
    BY <1>2 DEF ExitHandler
  <2>2. ShiftedExits(u, s) /\ ~ExitAt(u, s, 1)
    BY <1>1, <2>1, DispatchExits DEF IInv
  <2> QED BY <1>1, <2>2 DEF Created, Done, Executing
<1> QED BY <1>1, <1>3, <1>4, QuietKeepsAInv DEF Done

LEMMA RunActivateKeepsAInv ==
    ASSUME IInv, TypeOK', AInv, NEW s \in Threads, RunActivate(s)
    PROVE  AInv'
<1>1. PICK t \in Threads :
         /\ Dispatch(s, "activate") /\ exec[s] = Idle
         /\ t = Head(queue[s]).thread /\ Head(queue[s]) = Activate(t)
         /\ state' = [state EXCEPT ![t] = "RUNNING"]
         /\ exec' = [exec EXCEPT ![s] = [thread |-> t, phase |-> "user", temp |-> <<>>]]
         /\ UNCHANGED <<strand, threadCount, thisRef>>
  <2>1. Dispatch(s, "activate")
    BY DEF RunActivate
  <2>2. Head(queue[s]) \in Handlers /\ Head(queue[s]).kind = "activate"
    BY <2>1, DispatchFacts DEF IInv
  <2> QED BY <2>1, <2>2 DEF RunActivate, Dispatch, Handlers, Activate
<1>2. Live(t) /\ strand[t] = s
  <2>1. 1 \in 1..Len(queue[s]) /\ queue[s][1] = Activate(t)
    BY <1>1, DispatchFacts DEF IInv
  <2>2. Spot(t, "handler", s, 1)
    BY <2>1 DEF Spot, Posted
  <2> QED BY <2>1, <2>2 DEF IInv, OneSpot, Some, QueuesSound, Activate
<1>3. /\ state'[t] = "RUNNING" /\ \A u \in Threads \ {t} : state'[u] = state[u]
      /\ exec'[s].thread = t /\ exec[s].thread = NoThread
      /\ \A r \in Threads \ {s} : exec'[r] = exec[r]
  BY <1>1 DEF IInv, TypeOK, Idle
<1>4. ASSUME NEW u \in Threads
      PROVE  /\ Created(u)' <=> Created(u)
             /\ Done(u)' <=> Done(u)
             /\ ShiftedExits(u, s) /\ ~ExitAt(u, s, 1)
  <2>1. ShiftedExits(u, s) /\ ~ExitAt(u, s, 1)
    <3>1. Head(queue[s]) # ExitHandler(u)
      BY <1>1 DEF ExitHandler, Activate
    <3> QED BY <1>1, <3>1, DispatchExits DEF IInv
  <2>2. strand[u] \in Threads
    BY DEF IInv, TypeOK
  <2>3. CASE u = t
    BY <1>2, <1>3, <2>1, <2>3 DEF Live, Created, Done
  <2>4. CASE u # t
    BY <1>1, <1>3, <2>1, <2>2, <2>4, ThreadsAssumption DEF Created, Done, Executing
  <2> QED BY <2>1, <2>3, <2>4
<1> QED BY <1>1, <1>4, QuietKeepsAInv DEF AInv

LEMMA LeavesKeepAInv ==
    ASSUME IInv, TypeOK', AInv, NEW s \in Threads, RepostReady(s) \/ LeaveBlocked(s)
    PROVE  AInv'
<1>1. PICK t \in Threads :
         /\ t = exec[s].thread /\ strand[t] = s
         /\ state[t] \in {"READY", "BLOCKED"}
         /\ exec' = [exec EXCEPT ![s] = Idle]
         /\ Resume(t) \/ UNCHANGED queue
         /\ UNCHANGED <<state, strand, threadCount, thisRef>>
  BY DEF IInv, ExecSound, RepostReady, LeaveBlocked
<1>2. exec'[s] = Idle /\ \A r \in Threads \ {s} : exec'[r] = exec[r]
  BY <1>1 DEF IInv, TypeOK
<1>3. ASSUME NEW u \in Threads
      PROVE  /\ Created(u)' <=> Created(u)
             /\ Done(u)' <=> Done(u)
             /\ SameExits(u)
  <2>1. PICK n : n = Len(queue[s]) + 1
    OBVIOUS
  <2>2. Activate(t) \in Handlers /\ strand[u] \in Threads
    BY DEF Handlers, Activate, IInv, TypeOK
  <2>3. SameExits(u)
    <3>1. CASE Resume(t)
      BY <1>1, <2>1, <2>2, <3>1, PostExits
         DEF IInv, SameExits, Resume, ExitHandler, Activate
    <3>2. CASE UNCHANGED queue
      BY <3>2 DEF SameExits, ExitAt
    <3> QED BY <1>1, <3>1, <3>2
  <2>4. CASE u = t
    BY <1>1, <2>3, <2>4 DEF Created, Done
  <2>5. CASE u # t
    BY <1>1, <1>2, <2>2, <2>3, <2>5, ThreadsAssumption
       DEF Created, Done, Executing, Idle
  <2> QED BY <2>4, <2>5
<1> QED BY <1>1, <1>3, QuietKeepsAInv DEF AInv

LEMMA DrainKeepsAInv ==
    ASSUME IInv, TypeOK', AInv, NEW s \in Threads, DrainJoinQueue(s)
    PROVE  AInv'
<1>1. /\ exec' = [exec EXCEPT ![s] = [thread |-> exec[s].thread, phase |-> "notify",
                                      temp |-> joinQueue[exec[s].thread]]]
      /\ UNCHANGED <<state, strand, queue, threadCount, thisRef>>
  BY DEF DrainJoinQueue
<1>2. \A r \in Threads : exec'[r].thread = exec[r].thread
  BY <1>1 DEF IInv, TypeOK
<1>3. ASSUME NEW u \in Threads
      PROVE  /\ Created(u)' <=> Created(u)
             /\ Done(u)' <=> Done(u)
             /\ SameExits(u)
  <2>1. strand[u] \in Threads
    BY DEF IInv, TypeOK
  <2> QED BY <1>1, <1>2, <2>1 DEF Created, Done, Executing, SameExits, ExitAt
<1> QED BY <1>1, <1>3, QuietKeepsAInv DEF AInv

-----------------------------------------------------------------------------
(* A thread is made: one account more.                                     *)
LEMMA MakeThreadKeepsAInv ==
    ASSUME IInv, TypeOK', AInv, NEW u \in Threads, NEW s \in Threads, MakeThread(u, s)
    PROVE  AInv'
<1>1. /\ state[u] = "NEW" /\ state' = [state EXCEPT ![u] = "READY"]
      /\ strand' = [strand EXCEPT ![u] = s]
      /\ Post(s, Activate(u)) /\ Activate(u) \in Handlers
      /\ threadCount' = threadCount + 1
      /\ UNCHANGED <<exec, thisRef>>
  BY DEF MakeThread, Handlers, Activate
<1>2. /\ state'[u] = "READY" /\ \A v \in Threads \ {u} : state'[v] = state[v]
      /\ \A v \in Threads \ {u} : strand'[v] = strand[v]
  BY <1>1 DEF IInv, TypeOK
<1>3. ASSUME NEW v \in Threads
      PROVE  /\ SameExits(v)
             /\ Done(v)' <=> Done(v)
             /\ ExitPosted(v)'
             /\ Exited(v)' <=> Exited(v)
  <2>1. PICK n : n = Len(queue[s]) + 1
    OBVIOUS
  <2>2. SameExits(v)
    BY <1>1, <2>1, PostExits DEF IInv, SameExits, ExitHandler, Activate
  <2>3. Done(v)' <=> Done(v)
    BY <1>1, <1>2 DEF Done, Executing, Created
  <2>4. ExitPosted(v)'
    BY <2>2, <2>3 DEF AInv, ExitPosted, SameExits
  <2> QED BY <2>2, <2>3, <2>4, ExitedIs, ExitedIsNext DEF SameExits, IInv
<1>4. Accounted' = Accounted \cup {u} /\ u \notin Accounted
  <2>1. ~Done(u) /\ ~Created(u) /\ Created(u)'
    BY <1>1, <1>2 DEF Done, Created
  <2>2. ~Exited(u)
    BY <2>1, ExitedIs DEF IInv
  <2>3. \A v \in Threads \ {u} : Created(v)' <=> Created(v)
    BY <1>2 DEF Created
  <2> QED BY <1>3, <2>1, <2>2, <2>3 DEF Accounted
<1>5. threadCount = Cardinality(Accounted) /\ IsFiniteSet(Accounted)
  BY DEF AInv, ExitAccounted, ThreadCountExact, Accounted
<1>6. threadCount' = Cardinality(Accounted') /\ IsFiniteSet(Accounted')
  BY <1>1, <1>4, <1>5, FS_AddElement
<1>7. ThreadCountExact'
  BY <1>6 DEF ThreadCountExact, Accounted
<1>8. SelfReferenceReleased'
  BY <1>1, <1>3 DEF AInv, ExitAccounted, SelfReferenceReleased
<1> QED BY <1>1, <1>3, <1>6, <1>7, <1>8 DEF AInv, ExitAccounted

(* Its exit is posted: it leaves its worker, and keeps its account.        *)
LEMMA PostExitKeepsAInv ==
    ASSUME IInv, TypeOK', AInv, NEW s \in Threads, PostExit(s)
    PROVE  AInv'
<1>1. PICK t \in Threads :
         /\ t = exec[s].thread /\ strand[t] = s /\ state[t] = "STOPPED"
         /\ Post(s, ExitHandler(t)) /\ ExitHandler(t) \in Handlers
         /\ exec' = [exec EXCEPT ![s] = Idle]
         /\ UNCHANGED <<state, strand, threadCount, thisRef>>
  BY DEF IInv, ExecSound, PostExit, ExitHandler, Handlers
<1>2. PICK n : n = Len(queue[s]) + 1
  OBVIOUS
<1>3. exec'[s] = Idle /\ \A r \in Threads \ {s} : exec'[r] = exec[r]
  BY <1>1 DEF IInv, TypeOK
<1>4. Executing(t) /\ ~Executing(t)'
  BY <1>1, <1>3, ThreadsAssumption DEF Executing, Created, Idle
<1>5. ASSUME NEW u \in Threads
      PROVE  \A x, i : ExitAt(u, x, i)' <=> \/ ExitAt(u, x, i)
                                            \/ x = s /\ i = n /\ u = t
  BY <1>1, <1>2, PostExits DEF IInv, ExitHandler
<1>6. ASSUME NEW u \in Threads
      PROVE  ExitPosted(u)' /\ (Exited(u)' <=> Exited(u))
  <2>1. ExitPosted(u) /\ TypeOK
    BY DEF AInv, IInv
  <2>2. CASE u = t
    <3>1. ~Done(t) /\ Done(t)' /\ \A x, i : ~ExitAt(t, x, i)
      BY <1>1, <1>4, <2>1, <2>2 DEF Done, ExitPosted
    <3>2. \A x, i : ExitAt(t, x, i)' <=> x = s /\ i = n
      BY <1>5, <3>1
    <3> QED BY <2>1, <2>2, <3>1, <3>2, ExitedIs, ExitedIsNext DEF ExitPosted
  <2>3. CASE u # t
    <3>1. strand[u] \in Threads
      BY DEF IInv, TypeOK
    <3>2. Done(u)' <=> Done(u)
      BY <1>1, <1>3, <2>3, <3>1, ThreadsAssumption DEF Done, Executing, Created, Idle
    <3>3. \A x, i : ExitAt(u, x, i)' <=> ExitAt(u, x, i)
      BY <1>5, <2>3
    <3> QED BY <2>1, <3>2, <3>3, ExitedIs, ExitedIsNext DEF ExitPosted
  <2> QED BY <2>2, <2>3
<1>7. Accounted' = Accounted
  BY <1>1, <1>6 DEF Accounted, Created
<1>8. ThreadCountExact' /\ SelfReferenceReleased'
  BY <1>1, <1>6, <1>7
     DEF AInv, ExitAccounted, ThreadCountExact, Accounted, SelfReferenceReleased
<1> QED BY <1>1, <1>6, <1>7, <1>8 DEF AInv, ExitAccounted

(* on_thread_exit settles it.                                              *)
LEMMA RunExitKeepsAInv ==
    ASSUME IInv, TypeOK', AInv, NEW s \in Threads, RunExit(s)
    PROVE  AInv'
<1>1. PICK t \in Threads :
         /\ Dispatch(s, "exit") /\ Head(queue[s]) = ExitHandler(t)
         /\ threadCount' = threadCount - 1
         /\ thisRef' = [thisRef EXCEPT ![t] = FALSE]
         /\ UNCHANGED <<state, strand, exec>>
  <2>1. Dispatch(s, "exit")
    BY DEF RunExit
  <2>2. Head(queue[s]) \in Handlers /\ Head(queue[s]).kind = "exit"
    BY <2>1, DispatchFacts DEF IInv
  <2> QED BY <2>1, <2>2 DEF RunExit, Handlers, ExitHandler
<1>2. ASSUME NEW u \in Threads
      PROVE  /\ ShiftedExits(u, s) /\ (ExitAt(u, s, 1) <=> u = t)
             /\ Done(u)' <=> Done(u)
             /\ Created(u)' <=> Created(u)
  <2>1. ShiftedExits(u, s) /\ (ExitAt(u, s, 1) <=> u = t)
    <3>1. Head(queue[s]) = ExitHandler(u) <=> u = t
      BY <1>1 DEF ExitHandler
    <3> QED BY <1>1, <3>1, DispatchExits DEF IInv
  <2> QED BY <1>1, <2>1 DEF Done, Executing, Created
<1>3. Done(t) /\ ~Exited(t) /\ Exited(t)' /\ ExitPosted(t)'
  <2>1. ExitPosted(t) /\ ExitAt(t, s, 1)
    BY <1>2 DEF AInv
  <2>2. Done(t) /\ ~Exited(t)
    BY <2>1, ExitedIs DEF IInv, ExitPosted
  <2>3. ASSUME NEW x, NEW i, ExitAt(t, x, i)' PROVE FALSE
    <3>1. CASE x = s
      <4>1. i \in Nat \ {0} /\ ExitAt(t, s, i + 1)
        BY <1>2, <2>3, <3>1 DEF ShiftedExits
      <4>2. i + 1 = 1
        BY <2>1, <4>1 DEF ExitPosted
      <4> QED BY <4>1, <4>2
    <3>2. CASE x # s
      <4>1. ExitAt(t, x, i)
        BY <1>2, <2>3, <3>2 DEF ShiftedExits
      <4> QED BY <2>1, <3>2, <4>1 DEF ExitPosted
    <3> QED BY <3>1, <3>2
  <2> QED BY <1>2, <2>2, <2>3, ExitedIsNext DEF ExitPosted
<1>4. ASSUME NEW u \in Threads \ {t}
      PROVE  ExitPosted(u)' /\ (Exited(u)' <=> Exited(u))
  <2>1. ExitPosted(u) /\ TypeOK /\ ~ExitAt(u, s, 1) /\ ShiftedExits(u, s)
    BY <1>2 DEF AInv, IInv
  <2> QED BY <1>2, <2>1, ShiftKeepsExits
<1>5. Accounted' = Accounted \ {t} /\ t \in Accounted
  <2>1. Created(t)
    BY <1>3 DEF Done, Created
  <2> QED BY <1>2, <1>3, <1>4, <2>1 DEF Accounted
<1>6. threadCount = Cardinality(Accounted) /\ IsFiniteSet(Accounted)
  BY DEF AInv, ExitAccounted, ThreadCountExact, Accounted
<1>7. threadCount' = Cardinality(Accounted') /\ IsFiniteSet(Accounted')
  BY <1>1, <1>5, <1>6, FS_RemoveElement
<1>8. ThreadCountExact'
  BY <1>7 DEF ThreadCountExact, Accounted
<1>9. /\ thisRef' \in [Threads -> BOOLEAN] /\ ~thisRef'[t]
      /\ \A u \in Threads \ {t} : thisRef'[u] = thisRef[u]
  BY <1>1 DEF AInv
<1>10. SelfReferenceReleased'
  BY <1>4, <1>9 DEF AInv, ExitAccounted, SelfReferenceReleased
<1> QED BY <1>3, <1>4, <1>7, <1>8, <1>9, <1>10 DEF AInv, ExitAccounted

LEMMA NextAInv ==
    ASSUME IInv, IInv', AInv, [Next]_vars PROVE AInv'
<1> TypeOK'
  BY DEF IInv
<1>1. ASSUME NEW u \in Threads, StartFromOutside(u) PROVE AInv'
  BY <1>1, MakeThreadKeepsAInv DEF StartFromOutside
<1>2. ASSUME NEW t \in Threads, NEW u \in Threads,
             StartNormal(t, u) \/ StartSticky(t, u)
      PROVE  AInv'
  <2>1. strand[t] \in Threads
    BY DEF IInv, TypeOK
  <2>2. PICK s \in Threads : MakeThread(u, s)
    BY <1>2, <2>1 DEF StartNormal, StartSticky
  <2> QED BY <2>2, MakeThreadKeepsAInv
<1>3. ASSUME NEW f \in Threads, Detach(f) \/ DropHandle(f) PROVE AInv'
  BY <1>3, PostsKeepAInv, CallsKeepAInv
<1>4. ASSUME NEW t \in Threads, SwitchingCall(t) \/ Coroutine(t) PROVE AInv'
  BY <1>4, CallsKeepAInv DEF SwitchingCall, Coroutine
<1>5. ASSUME NEW s \in Threads, Take(s) PROVE AInv'
  BY <1>5, RunActivateKeepsAInv, RunDetachKeepsAInv, RunExitKeepsAInv DEF Take
<1>6. ASSUME NEW s \in Threads, FinishStep(s) PROVE AInv'
  BY <1>6, LeavesKeepAInv, DrainKeepsAInv, PostsKeepAInv, PostExitKeepsAInv
     DEF FinishStep
<1>7. ASSUME NEW t \in Threads, TimerFires(t) PROVE AInv'
  BY <1>7, PostsKeepAInv
<1>8. CASE UNCHANGED vars
  <2>1. \A t \in Threads : /\ Created(t)' <=> Created(t)
                           /\ Done(t)' <=> Done(t)
                           /\ SameExits(t)
    BY <1>8 DEF vars, Created, Done, Executing, SameExits, ExitAt
  <2> QED BY <1>8, <2>1, QuietKeepsAInv DEF vars, AInv
<1> QED BY <1>1, <1>2, <1>3, <1>4, <1>5, <1>6, <1>7, <1>8 DEF Next

LEMMA InitAInv ==
    ASSUME Init PROVE AInv
<1>1. \A t \in Threads : ~Created(t) /\ ~Exited(t) /\ \A x, i : ~ExitAt(t, x, i)
  BY DEF Init, Created, Exited, ExitAt
<1>2. {t \in Threads : Created(t) /\ ~Exited(t)} = {}
  BY <1>1
<1> QED BY <1>1, <1>2, FS_EmptySet
        DEF Init, AInv, ExitPosted, Accounted, ExitAccounted, ThreadCountExact,
            SelfReferenceReleased

(* on_thread_exit settles the account of every thread exactly once: the
   count on which the scheduler stops its workers is that of the threads not
   yet through it, and a detached thread gives up the reference to itself
   there, however detach() and the end of the thread are ordered.          *)
THEOREM ThreadsAreAccountedFor == Spec => []ExitAccounted
<1>1. Init => AInv
  BY InitAInv
<1>2. IInv /\ IInv' /\ AInv /\ [Next]_vars => AInv'
  BY NextAInv
<1>3. AInv => ExitAccounted
  BY DEF AInv
<1> QED BY <1>1, <1>2, <1>3, Invariance, PTL DEF Spec

-----------------------------------------------------------------------------
(* The end of threads: what ThreadExit adds to the steps of ThreadObject.  *)

(* What is known of the fields that the properties are about.              *)
ExitTypes == /\ state \in [Threads -> {"NEW", "READY", "RUNNING", "BLOCKED",
                                       "STOPPED"}]
             /\ stage \in [Threads -> {"entry", "exiting"}]
             /\ cleanup \in [Threads -> Seq(Functions)]
             /\ pending \in [Threads -> Seq(Functions)]
             /\ uncaught \in [Threads -> BOOLEAN]
             /\ raised \in [Threads -> BOOLEAN]
             /\ delivered \in [Threads -> Nat]
             /\ owed \subseteq Duties

(* Before the entry function has ended there is no exception; so it is put
   into an empty place, and once.                                          *)
NoneBeforeEnd ==
    \A t \in Threads :
       stage[t] = "entry" => ~raised[t] /\ ~uncaught[t] /\ delivered[t] = 0

Kept(q, f) == \E i \in 1..Len(q) : q[i] = f

(* A thread that has stopped has run all of its exit functions.            *)
StoppedLast == \A t \in Threads :
                  state[t] = "STOPPED" => stage[t] = "exiting" /\ pending[t] = <<>>

(* What is owed is still on the list, as long as the program goes on.      *)
DutiesKept ==
    ~aborted => \A t \in Threads, f \in {"value", "notify"} :
                   <<t, "entry", f>> \in owed =>
                      Kept(IF stage[t] = "entry" THEN cleanup[t] ELSE pending[t], f)

ExitInv == /\ ExitTypes
        /\ NoneBeforeEnd /\ ExceptionDeliveredOnce
        /\ StoppedLast /\ DutiesKept /\ DutiesDone

-----------------------------------------------------------------------------
(* What Append and Tail do to a list of functions.                         *)
LEMMA AppendKeeps ==
    ASSUME NEW q \in Seq(Functions), NEW f \in Functions
    PROVE  /\ Append(q, f) \in Seq(Functions)
           /\ Kept(Append(q, f), f)
           /\ \A g \in Functions : Kept(q, g) => Kept(Append(q, f), g)
<1>1. /\ Append(q, f) \in Seq(Functions)
      /\ Len(q) \in Nat /\ Len(Append(q, f)) = Len(q) + 1
      /\ \A i \in 1..Len(q) : Append(q, f)[i] = q[i]
      /\ Append(q, f)[Len(q) + 1] = f
  BY SMT
<1> QED BY <1>1 DEF Kept

LEMMA TailKeeps ==
    ASSUME NEW q \in Seq(Functions), q # <<>>
    PROVE  /\ Tail(q) \in Seq(Functions)
           /\ \A g \in Functions : Kept(q, g) /\ g # Head(q) => Kept(Tail(q), g)
<1>1. /\ Tail(q) \in Seq(Functions)
      /\ Head(q) = q[1]
      /\ Len(q) \in Nat /\ Len(Tail(q)) = Len(q) - 1
      /\ \A i \in 1..Len(Tail(q)) : Tail(q)[i] = q[i + 1]
  BY SMT
<1>2. ASSUME NEW g \in Functions, Kept(q, g), g # Head(q) PROVE Kept(Tail(q), g)
  <2>1. PICK i \in 1..Len(q) : q[i] = g
    BY <1>2 DEF Kept
  <2>2. i - 1 \in 1..Len(Tail(q)) /\ Tail(q)[i - 1] = g
    BY <1>1, <1>2, <2>1
  <2> QED BY <2>2 DEF Kept
<1> QED BY <1>1, <1>2

-----------------------------------------------------------------------------
(* The steps of ThreadObject.                                              *)

(* Only Finish stops a thread; what else happens to the state of one does
   not concern its end.                                                    *)
NeverStops == /\ state' \in [Threads -> {"NEW", "READY", "RUNNING", "BLOCKED",
                                         "STOPPED"}]
              /\ \A t \in Threads : state'[t] = "STOPPED" => state[t] = "STOPPED"

LEMMA CallsNeverStop ==
    ASSUME ExitTypes, NEW t \in Threads, NEW u \in Threads, NEW hint, NEW s,
           \/ MakeThread(u, s) \/ JoinWait(t, u) \/ Sleep(t) \/ Yield(t, hint)
           \/ SwitchOut(t) \/ PauseReturns(t) \/ Detach(u) \/ DropHandle(u)
    PROVE  NeverStops
BY DEF ExitTypes, NeverStops, MakeThread, JoinWait, Sleep, Yield, SwitchOut,
       PauseReturns, Detach, DropHandle

LEMMA HandlersNeverStop ==
    ASSUME ExitTypes, NEW s \in Threads,
           Take(s) \/ FinishStep(s) \/ TimerFires(s)
    PROVE  NeverStops
BY DEF ExitTypes, NeverStops, Take, FinishStep, RunActivate, RunDetach, RunExit,
       RepostReady, LeaveBlocked, DrainJoinQueue, ActivateJoiner, PostExit,
       TimerFires

(* A step that leaves the variables of ThreadExit alone.                   *)
LEMMA AloneKeepsExitInv == ExitInv /\ NeverStops /\ UNCHANGED exitVars => ExitInv'
BY DEF ExitInv, NeverStops, exitVars, leaving, exceptions, ExitTypes,
       NoneBeforeEnd, ExceptionDeliveredOnce, StoppedLast, DutiesKept, DutiesDone

-----------------------------------------------------------------------------
(* The steps of ThreadExit, by what they change.                           *)

(* Exceptions: what join(true) takes it delivers.                          *)
LEMMA ClaimKeepsAccount ==
    ASSUME ExitTypes, NoneBeforeEnd, ExceptionDeliveredOnce, NEW f, Claim(f),
           UNCHANGED <<stage, raised>>
    PROVE  /\ uncaught' \in [Threads -> BOOLEAN]
           /\ delivered' \in [Threads -> Nat]
           /\ NoneBeforeEnd' /\ ExceptionDeliveredOnce'
<1>1. CASE f \in Threads
  BY <1>1 DEF ExitTypes, NoneBeforeEnd, ExceptionDeliveredOnce, Claim
<1>2. CASE f \notin Threads
  <2>1. UNCHANGED <<uncaught, delivered>>
    BY <1>2 DEF ExitTypes, Claim
  <2> QED BY <2>1 DEF ExitTypes, NoneBeforeEnd, ExceptionDeliveredOnce
<1> QED BY <1>1, <1>2

LEMMA JoinsKeepExitInv ==
    ASSUME ExitInv, NEW t \in Threads, NEW f \in Threads, NEW rethrow \in BOOLEAN,
           Join(t, f, rethrow) \/ JoinStopped(t, f)
    PROVE  ExitInv'
<1> USE DEF ExitInv
<1>1. CASE Join(t, f, rethrow)
  <2>1. NeverStops
    BY <1>1, CallsNeverStop DEF Join
  <2> QED BY <1>1, <2>1 DEF Join, NeverStops, leaving, ExitTypes, NoneBeforeEnd,
             ExceptionDeliveredOnce, StoppedLast, DutiesKept, DutiesDone
<1>2. CASE JoinStopped(t, f)
  <2>1. ExitTypes' /\ NoneBeforeEnd' /\ ExceptionDeliveredOnce'
    BY <1>2, ClaimKeepsAccount DEF JoinStopped, vars, leaving, ExitTypes
  <2> QED BY <1>2, <2>1 DEF JoinStopped, vars, leaving, StoppedLast, DutiesKept,
                            DutiesDone
<1> QED BY <1>1, <1>2

LEMMA PauseEndKeepsExitInv ==
    ASSUME ExitInv, ~aborted, NEW t \in Threads, PauseEnds(t)
    PROVE  ExitInv'
<1> USE DEF ExitInv
<1>1. NeverStops /\ UNCHANGED <<leaving, raised>>
  BY CallsNeverStop DEF PauseEnds
<1>2. UNCHANGED <<delivered, uncaught>> \/ \E f : Claim(f)
  BY DEF PauseEnds
<1>3. ExitTypes' /\ NoneBeforeEnd' /\ ExceptionDeliveredOnce'
  <2>1. CASE UNCHANGED <<delivered, uncaught>>
    BY <1>1, <2>1 DEF NeverStops, leaving, ExitTypes, NoneBeforeEnd,
                      ExceptionDeliveredOnce
  <2>2. ASSUME NEW f, Claim(f)
        PROVE  ExitTypes' /\ NoneBeforeEnd' /\ ExceptionDeliveredOnce'
    <3>1. /\ uncaught' \in [Threads -> BOOLEAN]
          /\ delivered' \in [Threads -> Nat]
          /\ NoneBeforeEnd' /\ ExceptionDeliveredOnce'
      BY <1>1, <2>2, ClaimKeepsAccount DEF leaving
    <3> QED BY <1>1, <3>1 DEF NeverStops, leaving, ExitTypes
  <2> QED BY <1>2, <2>1, <2>2
<1>4. StoppedLast' /\ DutiesKept' /\ DutiesDone'
  BY <1>1 DEF NeverStops, leaving, StoppedLast, DutiesKept, DutiesDone
<1> QED BY <1>3, <1>4

(* What touches none of the fields of the invariant.                       *)
LEMMA OthersKeepExitInv ==
    ASSUME ExitInv, ~aborted, NEW t \in Threads, NEW off \in BOOLEAN,
           \/ Interrupt(t) \/ DropPromise(t) \/ Disable(t, off)
           \/ InterruptionPoint(t) \/ ResetData(t) \/ RemoveData(t) \/ ReleaseData(t)
    PROVE  ExitInv'
<1>1. UNCHANGED <<state, stage, cleanup, pending, owed, uncaught, raised, delivered>>
  BY DEF Interrupt, DropPromise, Disable, InterruptionPoint, ResetData, RemoveData,
         ReleaseData, StoreData, vars, leaving, exceptions
<1> QED BY <1>1 DEF ExitInv, ExitTypes, NoneBeforeEnd, ExceptionDeliveredOnce,
                    StoppedLast, DutiesKept, DutiesDone

(* A function is put at the end of the list of the running function.       *)
LEMMA AtThreadExitKeepsExitInv ==
    ASSUME ExitInv, ~aborted, NEW t \in Threads, NEW f \in Functions, AtThreadExit(t, f)
    PROVE  ExitInv'
<1> USE DEF ExitInv
<1>1. /\ cleanup' = [cleanup EXCEPT ![t] = Append(@, f)]
      /\ owed' \subseteq owed \cup ({<<t, stage[t], f>>} \cap Duties)
      /\ UNCHANGED <<state, stage, pending, uncaught, raised, delivered, aborted>>
  BY DEF AtThreadExit, vars, exceptions
<1>2. state[t] # "STOPPED" \/ stage[t] = "exiting"
  BY DEF StoppedLast
<1>3. /\ cleanup[t] \in Seq(Functions) /\ cleanup' \in [Threads -> Seq(Functions)]
      /\ cleanup'[t] = Append(cleanup[t], f)
      /\ \A u \in Threads \ {t} : cleanup'[u] = cleanup[u]
  BY <1>1, AppendKeeps DEF ExitTypes
<1>4. ExitTypes' /\ NoneBeforeEnd' /\ ExceptionDeliveredOnce' /\ StoppedLast'
  BY <1>1, <1>3 DEF ExitTypes, NoneBeforeEnd, ExceptionDeliveredOnce, StoppedLast
<1>5. DutiesKept'
  BY <1>1, <1>3, AppendKeeps DEF DutiesKept, Functions
<1>6. DutiesDone'
  BY <1>1, <1>2 DEF DutiesDone
<1> QED BY <1>4, <1>5, <1>6

(* The entry function ends: the list becomes the one to be run.            *)
LEMMA LeaveEntryKeepsExitInv ==
    ASSUME ExitInv, ~aborted, NEW t \in Threads, NEW throws \in BOOLEAN,
           LeaveEntry(t, throws)
    PROVE  ExitInv'
<1> USE DEF ExitInv
<1>1. /\ stage[t] = "entry"
      /\ stage' = [stage EXCEPT ![t] = "exiting"]
      /\ pending' = [pending EXCEPT ![t] = cleanup[t]]
      /\ cleanup' = [cleanup EXCEPT ![t] = <<>>]
      /\ raised' = [raised EXCEPT ![t] = throws]
      /\ uncaught' = [uncaught EXCEPT ![t] = throws]
      /\ UNCHANGED <<state, owed, delivered, aborted>>
  BY DEF LeaveEntry, vars
<1>2. ExitTypes'
  BY <1>1 DEF ExitTypes
<1>3. NoneBeforeEnd' /\ ExceptionDeliveredOnce'
  <2>1. delivered[t] = 0 /\ (raised'[t] <=> throws) /\ (uncaught'[t] <=> throws)
    BY <1>1 DEF ExitTypes, NoneBeforeEnd
  <2>2. NoneBeforeEnd'
    BY <1>1 DEF ExitTypes, NoneBeforeEnd
  <2>3. ASSUME NEW u \in Threads
        PROVE  delivered'[u] + (IF uncaught'[u] THEN 1 ELSE 0)
                  = (IF raised'[u] THEN 1 ELSE 0)
    <3>1. CASE u = t
      <4>1. CASE throws
        BY <1>1, <2>1, <3>1, <4>1
      <4>2. CASE ~throws
        BY <1>1, <2>1, <3>1, <4>2
      <4> QED BY <4>1, <4>2
    <3>2. CASE u # t
      BY <1>1, <3>2 DEF ExitTypes, ExceptionDeliveredOnce
    <3> QED BY <3>1, <3>2
  <2> QED BY <2>2, <2>3 DEF ExceptionDeliveredOnce
<1>4. StoppedLast' /\ DutiesKept' /\ DutiesDone'
  BY <1>1 DEF ExitTypes, StoppedLast, DutiesKept, DutiesDone
<1> QED BY <1>2, <1>3, <1>4

(* An exit function ends, and with it what it owed, or the program.        *)
LEMMA ExitsKeepExitInv ==
    ASSUME ExitInv, ~aborted, NEW t \in Threads,
           \/ CallsReturn(t) \/ FunctionThrows(t) \/ SetsValue(t)
           \/ UnlocksAndNotifies(t)
    PROVE  ExitInv'
<1> USE DEF ExitInv
<1> DEFINE f == Head(pending[t])
<1>1. /\ stage[t] = "exiting" /\ pending[t] # <<>> /\ pending[t] \in Seq(Functions)
      /\ pending' = [pending EXCEPT ![t] = Tail(@)]
      /\ UNCHANGED <<stage, cleanup, raised, uncaught, delivered>>
  BY DEF CallsReturn, FunctionThrows, SetsValue, UnlocksAndNotifies, Exits, Runs,
         exceptions, ExitTypes
<1>2. /\ owed' \subseteq owed
      /\ aborted' \/ f \notin {"value", "notify"} \/ <<t, "entry", f>> \notin owed'
  BY DEF CallsReturn, FunctionThrows, SetsValue, UnlocksAndNotifies, Exits, Runs,
         exceptions
<1>3. NeverStops
  <2>1. CASE UnlocksAndNotifies(t)
    BY <2>1, CallsNeverStop DEF UnlocksAndNotifies
  <2>2. CASE CallsReturn(t) \/ FunctionThrows(t) \/ SetsValue(t)
    BY <2>2 DEF CallsReturn, FunctionThrows, SetsValue, vars, NeverStops, ExitTypes
  <2> QED BY <2>1, <2>2
<1>4. ExitTypes' /\ NoneBeforeEnd' /\ ExceptionDeliveredOnce'
  BY <1>1, <1>2, <1>3, TailKeeps DEF NeverStops, ExitTypes, NoneBeforeEnd,
                               ExceptionDeliveredOnce
<1>5. StoppedLast' /\ DutiesDone'
  BY <1>1, <1>2, <1>3 DEF NeverStops, StoppedLast, DutiesDone, ExitTypes
<1>6. ASSUME ~aborted', NEW u \in Threads, NEW g \in {"value", "notify"},
             <<u, "entry", g>> \in owed'
      PROVE  Kept(IF stage'[u] = "entry" THEN cleanup'[u] ELSE pending'[u], g)
  <2>1. Kept(IF stage[u] = "entry" THEN cleanup[u] ELSE pending[u], g)
    BY <1>2, <1>6 DEF DutiesKept
  <2>2. CASE u # t
    BY <1>1, <2>1, <2>2 DEF ExitTypes
  <2>3. CASE u = t
    <3>1. g # f /\ g \in Functions
      BY <1>2, <1>6, <2>3 DEF Functions
    <3> QED BY <1>1, <2>1, <2>3, <3>1, TailKeeps DEF ExitTypes
  <2> QED BY <2>2, <2>3
<1>7. DutiesKept'
  BY <1>6 DEF DutiesKept
<1> QED BY <1>4, <1>5, <1>7

(* The thread stops, with nothing left on its list.                        *)
LEMMA EndKeepsExitInv ==
    ASSUME ExitInv, ~aborted, NEW t \in Threads, End(t)
    PROVE  ExitInv'
<1> USE DEF ExitInv
<1>1. /\ stage[t] = "exiting" /\ pending[t] = <<>>
      /\ state' = [state EXCEPT ![t] = "STOPPED"]
      /\ UNCHANGED <<leaving, exceptions>>
  BY DEF End, Finish
<1>2. ASSUME NEW f \in Functions, <<t, "entry", f>> \in owed PROVE FALSE
  <2>1. f \in {"value", "notify"}
    BY <1>2 DEF ExitTypes, Duties
  <2>2. Kept(pending[t], f)
    BY <1>1, <1>2, <2>1 DEF DutiesKept
  <2> QED BY <1>1, <2>2 DEF Kept
<1> QED BY <1>1, <1>2 DEF leaving, exceptions, ExitTypes, NoneBeforeEnd,
           ExceptionDeliveredOnce, StoppedLast, DutiesKept, DutiesDone

-----------------------------------------------------------------------------
LEMMA InitExitInv == ExitInit => ExitInv
<1> SUFFICES ASSUME ExitInit PROVE ExitInv
  OBVIOUS
<1> USE DEF ExitInit
<1>1. ExitTypes /\ StoppedLast
  BY DEF Init, ExitTypes, StoppedLast
<1>2. NoneBeforeEnd /\ ExceptionDeliveredOnce
  BY DEF NoneBeforeEnd, ExceptionDeliveredOnce
<1>3. DutiesKept /\ DutiesDone
  BY DEF DutiesKept, DutiesDone
<1> QED BY <1>1, <1>2, <1>3 DEF ExitInv

(* Every step keeps the invariant.                                         *)
LEMMA NextExitInv == ExitInv /\ [ExitNext]_allVars => ExitInv'
<1> SUFFICES ASSUME ExitInv, [ExitNext]_allVars PROVE ExitInv'
  OBVIOUS
<1>1. ExitTypes
  BY DEF ExitInv
<1>2. CASE UNCHANGED allVars
  BY <1>2, <1>1, AloneKeepsExitInv DEF allVars, vars, NeverStops, ExitTypes
<1>3. CASE ExitNext
  <2>1. ~aborted
    BY <1>3 DEF ExitNext, Terminated
  <2>2. CASE Alone(Starts)
    <3>1. PICK u \in Threads : \E s : MakeThread(u, s)
      BY <2>2, LeaversAssumption
         DEF Alone, Starts, StartFromOutside, StartNormal, StartSticky
    <3>2. NeverStops
      BY <1>1, <3>1, CallsNeverStop
    <3> QED BY <2>2, <3>2, AloneKeepsExitInv DEF Alone
  <2>3. CASE Alone(Lends)
    <3>1. NeverStops
      BY <1>1, <2>3, CallsNeverStop DEF Alone, Lends
    <3> QED BY <2>3, <3>1, AloneKeepsExitInv DEF Alone
  <2>4. ASSUME NEW f \in Threads, Interrupt(f) \/ DropPromise(f) PROVE ExitInv'
    BY <2>1, <2>4, OthersKeepExitInv
  <2>5. ASSUME NEW t \in Threads, Proceeds(t) PROVE ExitInv'
    BY <2>1, <2>5, OthersKeepExitInv, JoinsKeepExitInv, AtThreadExitKeepsExitInv DEF Proceeds
  <2>6. ASSUME NEW t \in Threads, Leaves(t) PROVE ExitInv'
    <3>1. CASE Alone(Pauses(t))
      <4>1. NeverStops
        BY <1>1, <3>1, CallsNeverStop DEF Alone, Pauses
      <4> QED BY <3>1, <4>1, AloneKeepsExitInv DEF Alone
    <3> QED BY <2>1, <2>6, <3>1, JoinsKeepExitInv, LeaveEntryKeepsExitInv DEF Leaves
  <2>7. ASSUME NEW t \in Threads, ExitStep(t) PROVE ExitInv'
    BY <2>1, <2>7, ExitsKeepExitInv, EndKeepsExitInv DEF ExitStep, FunctionEnds
  <2>8. ASSUME NEW t \in Threads, Continues(t) PROVE ExitInv'
    <3>1. CASE Alone(SwitchOut(t))
      <4>1. NeverStops
        BY <1>1, <3>1, CallsNeverStop DEF Alone
      <4> QED BY <3>1, <4>1, AloneKeepsExitInv DEF Alone
    <3> QED BY <2>1, <2>8, <3>1, PauseEndKeepsExitInv DEF Continues
  <2>9. ASSUME NEW s \in Threads,
               Alone(Take(s)) \/ Alone(FinishStep(s)) \/ Alone(TimerFires(s))
        PROVE  ExitInv'
    <3>1. NeverStops
      BY <1>1, <2>9, HandlersNeverStop DEF Alone
    <3> QED BY <2>9, <3>1, AloneKeepsExitInv DEF Alone
  <2> QED BY <1>3, <2>2, <2>3, <2>4, <2>5, <2>6, <2>7, <2>8, <2>9 DEF ExitNext
<1> QED BY <1>2, <1>3

LEMMA ExitInvariance == ExitSpec => []ExitInv
BY InitExitInv, NextExitInv, PTL DEF ExitSpec

(* An exception that leaves an entry function is rethrown by one join and
   no other, or is still there to be: threads that join, give handles away,
   are interrupted or end at the same time neither lose nor repeat it.     *)
THEOREM ExitDeliversExceptionOnce == ExitSpec => []ExceptionDeliveredOnce
<1>1. ExitInv => ExceptionDeliveredOnce
  BY DEF ExitInv
<1> QED BY <1>1, ExitInvariance, PTL

(* A thread stops only after everything its entry function had put off to
   its exit, however that function ended.                                  *)
THEOREM ExitDoesDuties == ExitSpec => []DutiesDone
<1>1. ExitInv => DutiesDone
  BY DEF ExitInv
<1> QED BY <1>1, ExitInvariance, PTL

-----------------------------------------------------------------------------
(* What is proved of ThreadObject holds here, too.                         *)
LEMMA ExitStepIsStep == [ExitNext]_allVars => [Next]_vars
<1> SUFFICES ASSUME ExitNext PROVE Next \/ UNCHANGED vars
  BY DEF allVars
<1>1. CASE Starts \/ Lends
  BY <1>1, LeaversAssumption DEF Starts, Lends, Next
<1>2. ASSUME NEW t \in Threads,
             Proceeds(t) \/ Interrupt(t) \/ DropPromise(t)
      PROVE  UNCHANGED vars
  BY <1>2 DEF Proceeds, JoinStopped, AtThreadExit, Disable, InterruptionPoint,
              ResetData, RemoveData, ReleaseData, StoreData, Interrupt, DropPromise
<1>3. ASSUME NEW t \in Threads, Leaves(t) PROVE Next \/ UNCHANGED vars
  <2>1. CASE \E f \in Threads, rethrow \in BOOLEAN : Join(t, f, rethrow)
    BY <2>1 DEF Join, Next, SwitchingCall
  <2>2. CASE Alone(Pauses(t))
    BY <2>2 DEF Alone, Pauses, Next, SwitchingCall
  <2>3. CASE \E throws \in BOOLEAN : LeaveEntry(t, throws)
    BY <2>3 DEF LeaveEntry
  <2> QED BY <1>3, <2>1, <2>2, <2>3 DEF Leaves
<1>4. ASSUME NEW t \in Threads, ExitStep(t) PROVE Next \/ UNCHANGED vars
  <2>1. CASE End(t)
    BY <2>1 DEF End, Next, SwitchingCall
  <2>2. CASE UnlocksAndNotifies(t)
    BY <2>2 DEF UnlocksAndNotifies, Next, SwitchingCall
  <2>3. CASE CallsReturn(t) \/ FunctionThrows(t) \/ SetsValue(t)
    BY <2>3 DEF CallsReturn, FunctionThrows, SetsValue
  <2> QED BY <1>4, <2>1, <2>2, <2>3 DEF ExitStep, FunctionEnds
<1>5. ASSUME NEW t \in Threads, Continues(t) PROVE Next
  BY <1>5 DEF Continues, Alone, PauseEnds, Next, Coroutine
<1>6. ASSUME NEW t \in Threads, Alone(TimerFires(t)) PROVE Next
  BY <1>6 DEF Alone, Next
<1>7. ASSUME NEW s \in Threads, Alone(Take(s)) \/ Alone(FinishStep(s)) PROVE Next
  BY <1>7 DEF Alone, Next
<1> QED BY <1>1, <1>2, <1>3, <1>4, <1>5, <1>6, <1>7 DEF ExitNext, Alone

(* Whatever a thread does at its end, and whoever interrupts it, it lives as
   ThreadObject says: one activation, one account, and the contract of
   Suspension are kept through exit functions and exceptions.              *)
THEOREM ExitKeepsThreads == ExitSpec => Spec
<1>1. ExitInit => Init
  BY DEF ExitInit
<1> QED BY <1>1, ExitStepIsStep, PTL DEF ExitSpec, Spec

-----------------------------------------------------------------------------
(* The objects of thread specific data.                                    *)

Stopped(t) == state[t] = "STOPPED"

DataTypes == /\ fss \in [Threads -> 0..MaxObjects]
             /\ made \in [Threads -> 0..MaxObjects]
             /\ freed \in [Threads -> [Objects -> Nat]]
             /\ released \in [Threads -> SUBSET Objects]

(* What is under a key, cleaned up or released has been stored before, and
   what has been released is under no key.                                 *)
DataStored == \A t \in Threads : /\ fss[t] \in 0..made[t]
                                 /\ released[t] \subseteq 1..made[t]
                                 /\ fss[t] \notin released[t]
                                 /\ \A i \in Objects : i > made[t] => freed[t][i] = 0

DataInv == DataTypes /\ DataStored /\ DataFreedOnce

(* A thread that has stopped stays so: it would need an activation.        *)
LEMMA StoppedStays ==
    ASSUME IInv, Next, NEW t \in Threads, Stopped(t)
    PROVE  state'[t] = "STOPPED"
<1>1. ~Live(t) /\ state[t] = "STOPPED"
  BY DEF Stopped, Live
<1>2. \A k, x, i : ~Spot(t, k, x, i)
  BY <1>1 DEF IInv, OneSpot, Some
<1>3. ASSUME NEW s \in Threads, RunActivate(s) PROVE state'[t] = "STOPPED"
  <2>1. Dispatch(s, "activate")
    BY <1>3 DEF RunActivate
  <2>2. /\ Head(queue[s]) \in Handlers /\ Head(queue[s]).kind = "activate"
        /\ 1 \in 1..Len(queue[s]) /\ Head(queue[s]) = queue[s][1]
    BY <2>1, DispatchFacts DEF IInv
  <2>3. PICK u \in Threads : u = Head(queue[s]).thread /\ queue[s][1] = Activate(u)
    BY <2>2 DEF Handlers, Activate
  <2>4. u # t
    BY <1>2, <2>2, <2>3 DEF Spot, Posted
  <2>5. state' = [state EXCEPT ![u] = "RUNNING"]
    BY <1>3, <2>3 DEF RunActivate
  <2> QED BY <1>1, <2>4, <2>5 DEF IInv, TypeOK
<1>4. ASSUME NEW u \in Threads, NEW s, MakeThread(u, s) PROVE state'[t] = "STOPPED"
  BY <1>1, <1>4 DEF MakeThread, IInv, TypeOK
<1>5. ASSUME NEW u \in Threads, NEW hint,
             SwitchOut(u) \/ Yield(u, hint) \/ Finish(u)
      PROVE  state'[t] = "STOPPED"
  <2>1. state[u] = "RUNNING"
    <3>1. InPhase(u, "pausing") \/ InPhase(u, "user")
      BY <1>5 DEF SwitchOut, Yield, Finish, Running
    <3> QED BY <3>1 DEF IInv, TypeOK, ExecSound, InPhase, Executing
  <2> QED BY <1>1, <1>5, <2>1 DEF SwitchOut, Yield, Finish, IInv, TypeOK
<1>6. ASSUME NEW u \in Threads, NEW f \in Threads,
             \/ JoinWait(u, f) \/ Sleep(u) \/ PauseReturns(u) \/ Detach(u)
             \/ DropHandle(u) \/ FinishStep(u) \/ TimerFires(u)
             \/ RunDetach(u) \/ RunExit(u)
      PROVE  state'[t] = "STOPPED"
  BY <1>1, <1>6 DEF JoinWait, Sleep, PauseReturns, Detach, DropHandle, FinishStep,
     TimerFires, RunDetach, RunExit, RepostReady, LeaveBlocked, DrainJoinQueue,
     ActivateJoiner, PostExit
<1> QED BY <1>3, <1>4, <1>5, <1>6
        DEF Next, StartFromOutside, StartNormal, StartSticky, SwitchingCall,
            Coroutine, Take

(* Steps that leave the data and their threads alone.                      *)
LEMMA DataKept ==
    ASSUME IInv, DataInv, Next \/ UNCHANGED state, UNCHANGED specific,
           \A t \in Threads : state'[t] = "STOPPED" => Stopped(t)
    PROVE  DataInv'
<1>1. \A t \in Threads : state'[t] = "STOPPED" <=> Stopped(t)
  BY StoppedStays DEF Stopped
<1> QED BY <1>1 DEF DataInv, DataTypes, DataStored, DataFreedOnce, InPlace, specific,
                    Stopped

(* The cleanup of the object of t, if there is one, and of no other.       *)
LEMMA CleansUpOne ==
    ASSUME DataInv, NEW t \in Threads, CleansUp(t)
    PROVE  /\ freed' \in [Threads -> [Objects -> Nat]]
           /\ \A u \in Threads \ {t} : freed'[u] = freed[u]
           /\ \A i \in Objects :
                 freed'[t][i] = freed[t][i] + (IF i = fss[t] THEN 1 ELSE 0)
<1>1. CASE fss[t] = 0
  <2>1. freed' = freed /\ \A i \in Objects : i # fss[t] /\ freed[t][i] \in Nat
    BY <1>1, BoundsAssumption DEF DataInv, DataTypes, CleansUp, Objects
  <2> QED BY <2>1 DEF DataInv, DataTypes
<1>2. CASE fss[t] # 0
  <2>1. fss[t] \in Objects /\ freed[t] \in [Objects -> Nat]
    BY <1>2, BoundsAssumption DEF DataInv, DataTypes, Objects
  <2>2. freed' = [freed EXCEPT ![t] = [freed[t] EXCEPT ![fss[t]] = @ + 1]]
    BY <1>2 DEF CleansUp
  <2>3. /\ freed'[t] = [freed[t] EXCEPT ![fss[t]] = @ + 1]
        /\ \A u \in Threads \ {t} : freed'[u] = freed[u]
    BY <2>2 DEF DataInv, DataTypes
  <2>4. [freed[t] EXCEPT ![fss[t]] = @ + 1] \in [Objects -> Nat]
    BY <2>1
  <2>5. freed' \in [Threads -> [Objects -> Nat]]
    BY <2>2, <2>4 DEF DataInv, DataTypes
  <2> QED BY <2>1, <2>3, <2>5
<1> QED BY <1>1, <1>2

(* What takes the place of an object is new, or nothing.                   *)
LEMMA StoreKeepsDataInv ==
    ASSUME DataInv, NEW t \in Threads, ~Stopped(t), NEW value, StoreData(t, value),
           UNCHANGED state,
           \/ /\ made[t] < MaxObjects /\ value = made[t] + 1
              /\ made' = [made EXCEPT ![t] = @ + 1] /\ UNCHANGED released
           \/ value = 0 /\ UNCHANGED <<made, released>>
           \/ /\ fss[t] # 0 /\ value = 0 /\ UNCHANGED made
              /\ released' = [released EXCEPT ![t] = @ \cup {fss[t]}]
    PROVE  DataInv'
<1>1. /\ freed' \in [Threads -> [Objects -> Nat]]
      /\ \A u \in Threads \ {t} : freed'[u] = freed[u]
      /\ \A i \in Objects : freed'[t][i] = freed[t][i] + (IF i = fss[t] THEN 1 ELSE 0)
  BY CleansUpOne DEF StoreData
<1>2. /\ fss[t] \in 0..MaxObjects /\ made[t] \in 0..MaxObjects
      /\ fss[t] \in 0..made[t] /\ fss[t] \notin released[t]
      /\ released[t] \subseteq 1..made[t] /\ MaxObjects \in Nat
      /\ \A i \in Objects : freed[t][i] \in Nat /\ (i > made[t] => freed[t][i] = 0)
  BY BoundsAssumption DEF DataInv, DataTypes, DataStored
<1>3. /\ value \in 0..MaxObjects
      /\ \/ value = 0 /\ made'[t] = made[t]
         \/ value = made[t] + 1 /\ made'[t] = made[t] + 1
      /\ made' \in [Threads -> 0..MaxObjects]
      /\ \A u \in Threads \ {t} : made'[u] = made[u]
  BY <1>2 DEF DataInv, DataTypes
<1>4. /\ fss' \in [Threads -> 0..MaxObjects] /\ fss'[t] = value
      /\ \A u \in Threads \ {t} : fss'[u] = fss[u]
  BY <1>3 DEF StoreData, DataInv, DataTypes
<1>5. /\ \/ released'[t] = released[t]
         \/ fss[t] # 0 /\ released'[t] = released[t] \cup {fss[t]}
      /\ \A u \in Threads \ {t} : released'[u] = released[u]
      /\ released' \in [Threads -> SUBSET Objects]
  <2>1. fss[t] # 0 => fss[t] \in Objects
    BY <1>2 DEF Objects
  <2>2. CASE UNCHANGED released
    BY <2>2 DEF DataInv, DataTypes
  <2>3. CASE fss[t] # 0 /\ released' = [released EXCEPT ![t] = @ \cup {fss[t]}]
    BY <2>1, <2>3 DEF DataInv, DataTypes
  <2> QED BY <2>2, <2>3
<1>6. DataStored'
  <2>1. fss'[t] \in 0..made'[t] /\ released'[t] \subseteq 1..made'[t] /\ fss'[t] \notin released'[t]
    BY <1>2, <1>3, <1>4, <1>5
  <2>2. ASSUME NEW i \in Objects, i > made'[t] PROVE freed'[t][i] = 0
    <3>1. i > made[t] /\ i # fss[t]
      BY <1>2, <1>3, <2>2 DEF Objects
    <3> QED BY <1>1, <1>2, <3>1
  <2> QED BY <1>1, <1>3, <1>4, <1>5, <2>1, <2>2 DEF DataInv, DataStored
<1>7. ASSUME NEW i \in (1..made'[t]) \ released'[t]
      PROVE  freed'[t][i] = (IF InPlace(t, i)' THEN 0 ELSE 1)
  <2>1. i \in Objects /\ i \notin released[t] /\ (InPlace(t, i)' <=> i = value)
    BY <1>2, <1>3, <1>4, <1>5, <1>7 DEF Objects, InPlace, Stopped
  <2>2. CASE i \in 1..made[t]
    <3>1. freed[t][i] = IF i = fss[t] THEN 0 ELSE 1
      BY <2>1, <2>2 DEF DataInv, DataFreedOnce, InPlace, Stopped
    <3>2. i # value
      BY <1>2, <1>3, <2>2
    <3> QED BY <1>1, <2>1, <3>1, <3>2
  <2>3. CASE i \notin 1..made[t]
    <3>1. i = value /\ i > made[t] /\ i # fss[t]
      BY <1>2, <1>3, <1>7, <2>3
    <3> QED BY <1>1, <1>2, <2>1, <3>1
  <2> QED BY <2>2, <2>3
<1>8. DataFreedOnce'
  <2>1. ASSUME NEW u \in Threads \ {t}, NEW i \in (1..made'[u]) \ released'[u]
        PROVE  freed'[u][i] = (IF InPlace(u, i)' THEN 0 ELSE 1)
    BY <1>1, <1>3, <1>4, <1>5, <2>1 DEF DataInv, DataFreedOnce, InPlace
  <2> QED BY <1>7, <2>1 DEF DataFreedOnce, InPlace
<1> QED BY <1>1, <1>3, <1>4, <1>5, <1>6, <1>8 DEF DataInv, DataTypes

(* The end of a thread leaves no object in place.                          *)
LEMMA EndKeepsDataInv ==
    ASSUME IInv, DataInv, NEW t \in Threads, End(t)
    PROVE  DataInv'
<1>1. /\ Running(t) /\ state' = [state EXCEPT ![t] = "STOPPED"]
      /\ CleansUp(t) /\ UNCHANGED <<fss, made, released>>
  BY DEF End, Finish
<1>2. /\ ~Stopped(t) /\ state'[t] = "STOPPED"
      /\ \A u \in Threads \ {t} : state'[u] = state[u]
  BY <1>1 DEF Running, InPhase, Executing, IInv, TypeOK, ExecSound, Stopped
<1>3. /\ freed' \in [Threads -> [Objects -> Nat]]
      /\ \A u \in Threads \ {t} : freed'[u] = freed[u]
      /\ \A i \in Objects : freed'[t][i] = freed[t][i] + (IF i = fss[t] THEN 1 ELSE 0)
  BY <1>1, CleansUpOne
<1>4. \A u \in Threads : made[u] \in 0..MaxObjects /\ fss[u] \in 0..made[u]
  BY DEF DataInv, DataTypes, DataStored
<1>5. DataStored'
  <2>1. ASSUME NEW i \in Objects, i > made[t] PROVE freed'[t][i] = 0
    BY <1>3, <1>4, <2>1 DEF DataInv, DataStored, Objects
  <2> QED BY <1>1, <1>3, <2>1 DEF DataInv, DataStored
<1>6. ASSUME NEW i \in (1..made[t]) \ released[t] PROVE freed'[t][i] = 1
  <2>1. freed[t][i] = IF i = fss[t] THEN 0 ELSE 1
    BY <1>2, <1>6 DEF DataInv, DataFreedOnce, InPlace, Stopped
  <2>2. i \in Objects
    BY <1>4, <1>6, BoundsAssumption DEF Objects
  <2> QED BY <1>3, <2>1, <2>2
<1>7. ASSUME NEW u \in Threads \ {t}, NEW i \in (1..made[u]) \ released[u]
      PROVE  freed'[u][i] = (IF InPlace(u, i)' THEN 0 ELSE 1)
  BY <1>1, <1>2, <1>3 DEF DataInv, DataFreedOnce, InPlace
<1>8. DataFreedOnce'
  BY <1>1, <1>2, <1>6, <1>7 DEF DataFreedOnce, InPlace
<1> QED BY <1>1, <1>3, <1>5, <1>8 DEF DataInv, DataTypes

LEMMA NextDataInv == ExitInv /\ IInv /\ DataInv /\ [ExitNext]_allVars => DataInv'
<1> SUFFICES ASSUME ExitInv, IInv, DataInv, [ExitNext]_allVars PROVE DataInv'
  OBVIOUS
<1>1. ExitTypes /\ StoppedLast
  BY DEF ExitInv
<1>2. Next \/ UNCHANGED vars
  BY ExitStepIsStep
<1>3. ASSUME NeverStops, UNCHANGED specific PROVE DataInv'
  BY <1>2, <1>3, DataKept DEF NeverStops, Stopped, vars
<1>4. CASE UNCHANGED allVars
  BY <1>4, <1>1, <1>3 DEF allVars, vars, exitVars, NeverStops, ExitTypes
<1>5. CASE ExitNext
  <2>1. CASE Alone(Starts)
    <3>1. PICK u \in Threads : \E s : MakeThread(u, s)
      BY <2>1, LeaversAssumption
         DEF Alone, Starts, StartFromOutside, StartNormal, StartSticky
    <3> QED BY <1>1, <1>3, <2>1, <3>1, CallsNeverStop DEF Alone, exitVars
  <2>2. CASE Alone(Lends)
    BY <1>1, <1>3, <2>2, CallsNeverStop DEF Alone, Lends, exitVars
  <2>3. ASSUME NEW f \in Threads,
               \/ Interrupt(f) \/ DropPromise(f) \/ \E off \in BOOLEAN : Disable(f, off)
               \/ InterruptionPoint(f) \/ \E g \in Threads : JoinStopped(f, g)
               \/ \E g \in Functions : AtThreadExit(f, g)
               \/ \E throws \in BOOLEAN : LeaveEntry(f, throws)
               \/ CallsReturn(f) \/ FunctionThrows(f) \/ SetsValue(f)
        PROVE  DataInv'
    <3>1. UNCHANGED <<state, specific>>
      BY <2>3 DEF Interrupt, DropPromise, Disable, InterruptionPoint, JoinStopped,
         AtThreadExit, LeaveEntry, CallsReturn, FunctionThrows, SetsValue, vars
    <3> QED BY <1>1, <1>3, <3>1 DEF NeverStops, ExitTypes
  <2>4. ASSUME NEW t \in Threads,
               \/ \E f \in Threads, rethrow \in BOOLEAN : Join(t, f, rethrow)
               \/ Alone(Pauses(t)) \/ UnlocksAndNotifies(t) \/ Continues(t)
        PROVE  DataInv'
    <3>1. NeverStops
      BY <1>1, <2>4, CallsNeverStop
         DEF Join, Alone, Pauses, UnlocksAndNotifies, Continues, PauseEnds
    <3>2. UNCHANGED specific
      BY <2>4 DEF Join, Alone, UnlocksAndNotifies, Continues, PauseEnds, exitVars
    <3> QED BY <1>3, <3>1, <3>2
  <2>5. ASSUME NEW t \in Threads, NEW value, StoreData(t, value)
        PROVE  ~Stopped(t) /\ UNCHANGED state
    BY <1>1, <2>5 DEF StoreData, Calls, Runs, Stopped, StoppedLast, vars
  <2>6. ASSUME NEW t \in Threads, ResetData(t) PROVE DataInv'
    BY <2>5, <2>6, StoreKeepsDataInv DEF ResetData
  <2>7. ASSUME NEW t \in Threads, RemoveData(t) \/ ReleaseData(t) PROVE DataInv'
    BY <2>5, <2>7, StoreKeepsDataInv DEF RemoveData, ReleaseData
  <2>8. ASSUME NEW s \in Threads,
               Alone(Take(s)) \/ Alone(FinishStep(s)) \/ Alone(TimerFires(s))
        PROVE  DataInv'
    BY <1>1, <1>3, <2>8, HandlersNeverStop DEF Alone, exitVars
  <2> QED BY <1>5, <2>1, <2>2, <2>3, <2>4, <2>6, <2>7, <2>8, EndKeepsDataInv
          DEF ExitNext, Proceeds, Leaves, ExitStep, FunctionEnds
<1> QED BY <1>4, <1>5

(* Every object that a thread stored under a key is cleaned up once, by the
   call that takes it from there or by the end of the thread, and not before;
   only the cleanups of what release() returned are not its subject.       *)
THEOREM ExitFreesData == ExitSpec => []DataFreedOnce
<1>1. ExitInit => DataInv
  BY BoundsAssumption
     DEF ExitInit, DataInv, DataTypes, DataStored, DataFreedOnce, Objects
<1>2. DataInv => DataFreedOnce
  BY DEF DataInv
<1> QED BY <1>1, <1>2, NextDataInv, ExitInvariance, ExitKeepsThreads, Invariance, PTL
        DEF ExitSpec
=============================================================================
