---------------------------- MODULE FutureProofs ----------------------------
(***************************************************************************)
(* Proofs about Future, for every set of threads and promises.             *)
(*                                                                         *)
(* What a call gives its caller was put there by a callback, perhaps long  *)
(* after the future that ran it became ready and on another thread.  IInv  *)
(* therefore follows each callback from add_external_waiter to its end: it *)
(* is in one place at a time (KeptOK), whoever runs it is accounted for    *)
(* (TaskOK), no two runners are in the same one (PairOK), and what it has  *)
(* left behind says which future it came from (ResultOK, ThrewOK).         *)
(***************************************************************************)
EXTENDS Future, FiniteSetTheorems, TLAPS

Steps == {"notify", "tested", "checked", "stored"}
Tasks == [call : Threads, from : Promises, step : Steps]

TypeOK == /\ ready \in [States -> BOOLEAN]
          /\ ext \in [Promises -> SUBSET Threads]
          /\ setter \in [Promises -> {"idle", "ready", "callbacks", "done", "threw"}]
          /\ native \in SUBSET Promises
          /\ late \in SUBSET native
          /\ running \in [Runners -> Tasks \cup {None}]
          /\ call \in [Threads -> Calls \cup {"none"}]
          /\ on \in [Threads -> Promises \cup {None}]
          /\ at \in [Threads -> {"called", "about", "returned", "timed_out", "threw"}]
          /\ joined \in [Threads -> SUBSET Promises]
          /\ adding \in [Threads -> Promises \cup {None}]
          /\ hits \in [Threads -> SUBSET Promises]
          /\ ret \in [Threads -> Promises \cup {None}]
          /\ isSet \in [Threads -> BOOLEAN]

(* r runs a callback of the call that t makes.                             *)
RunsFor(r, t) == running[r] # None /\ running[r].call = t

(* What a call was given fits it, and came with one of its callbacks.      *)
CallOK(t) ==
    /\ call[t] \in Single \cup {"then"} <=> on[t] # None
    /\ joined[t] \subseteq Sources(t)
    /\ call[t] = "none" => at[t] = "called"
    /\ ret[t] # None => ret[t] \in hits[t]

(* The callback of t's call that was added to p is in one place; run only
   if p is ready; and only a native thread can have passed it.             *)
KeptOK(t, p) ==
    /\ adding[t] = p \/ t \in ext[p] \/ p \in hits[t] <=> p \in joined[t]
    /\ ~(adding[t] = p /\ t \in ext[p])
    /\ ~(adding[t] = p /\ p \in hits[t])
    /\ ~(t \in ext[p] /\ p \in hits[t])
    /\ p \in hits[t] => ready[p]
    /\ adding[t] = p /\ ready[p] => p \in native
    /\ t \in ext[p] /\ ready[p] /\ p \notin native => setter[p] \in {"callbacks", "threw"}

(* Whoever fulfils p runs callbacks after that, and no others than p's.    *)
SetterOK(p) ==
    /\ setter[p] = "idle" <=> ~ready[p]
    /\ p \in native => setter[p] # "idle"
    /\ running[p] # None => setter[p] = "callbacks" /\ running[p].from = p

(* The callback that r is in, at each of its steps.                        *)
TaskOK(r, t) ==
    RunsFor(r, t) =>
      /\ r \in Threads => r = t
      /\ running[r].step = "notify" <=> call[t] \in Several
      /\ call[t] \in Several \cup Async
      /\ running[r].from \in hits[t]
      /\ call[t] = "async_wait_for_all" => hits[t] = Promises
      /\ call[t] = "async_wait_for_all" /\ running[r].step = "tested" => ~ready[t]
      /\ running[r].step \in {"tested", "checked"} => ret[t] # running[r].from
      /\ running[r].step = "checked" /\ r \notin native /\ ready[t] => ret[t] \in native

PairOK(r, s, t) ==
    RunsFor(r, t) /\ RunsFor(s, t) =>
      /\ running[r].from = running[s].from => r = s
      /\ call[t] = "async_wait_for_all" => r = s
      /\ /\ running[r].step = "checked" /\ running[s].step = "checked"
         /\ r \notin native /\ s \notin native
         => r = s

ResultOK(t) ==
    /\ call[t] = "wait_for_any" /\ ret[t] = None => hits[t] \subseteq native
    /\ ready[t] => call[t] \in Async /\ ret[t] # None
    /\ ready[t] /\ call[t] = "async_wait_for_all" => hits[t] = Promises

Served(t) == /\ call[t] \in Single => ready[on[t]]
             /\ call[t] \in Several => Satisfied(t)
             /\ call[t] \in Async => ready[t]
ReturnedOK(t) == at[t] = "returned" => Served(t)

ThrewOK(p) == setter[p] = "threw" =>
                 \E t \in Threads : /\ ThrownBy(t, p)
                                    /\ \A r \in Runners : RunsFor(r, t) => running[r].from # p

IInv == /\ TypeOK
        /\ \A t \in Threads : CallOK(t) /\ ResultOK(t) /\ ReturnedOK(t)
        /\ \A t \in Threads : \A p \in Promises : KeptOK(t, p)
        /\ \A p \in Promises : SetterOK(p) /\ ThrewOK(p)
        /\ \A r \in Runners : \A t \in Threads : TaskOK(r, t)
        /\ \A r \in Runners : \A s \in Runners : \A t \in Threads : PairOK(r, s, t)
-----------------------------------------------------------------------------
(* Names are what they seem: threads, promises and None are different.     *)
LEMMA Names ==
    /\ \A t \in Threads : t \notin Promises /\ t # None
    /\ \A p \in Promises : p \notin Threads /\ p # None
BY FutureAssumption

LEMMA InitIInv == Init => IInv
<1> SUFFICES ASSUME Init PROVE IInv
  OBVIOUS
<1> USE DEF Init
<1>1. TypeOK
  BY FutureAssumption DEF TypeOK, States, Runners, Calls
<1>2. \A t \in Threads : CallOK(t) /\ ResultOK(t) /\ ReturnedOK(t)
  BY DEF CallOK, ResultOK, ReturnedOK, Single, States
<1>3. \A t \in Threads : \A p \in Promises : KeptOK(t, p)
  BY Names DEF KeptOK
<1>4. \A p \in Promises : SetterOK(p) /\ ThrewOK(p)
  BY DEF SetterOK, ThrewOK, States, Runners
<1>5. \A r \in Runners : running[r] = None
  OBVIOUS
<1> QED
  BY <1>1, <1>2, <1>3, <1>4, <1>5 DEF IInv, TaskOK, PairOK, RunsFor

(* Type correctness, action by action.                                     *)
LEMMA TypeKept ==
    ASSUME IInv, [Next]_vars
    PROVE  TypeOK'
<1> TypeOK
  BY DEF IInv
<1> USE DEF TypeOK, States, Runners, Tasks, Task, Steps
<1>1. CASE UNCHANGED vars
  BY <1>1 DEF vars, states, setters, callVars, several
<1>2. ASSUME NEW t \in Threads, NEW c \in MayCall[t], NEW p \in Promises \cup {None},
             Start(t, c, p)
      PROVE  TypeOK'
  <2>1. c \in Calls
    BY FutureAssumption
  <2> QED
    BY <1>2, <2>1 DEF Start, states, setters, several
<1>3. ASSUME NEW t \in Threads,
             \/ Finds(t) \/ TimesOut(t) \/ MustWait(t) \/ Waits(t) \/ TimerExpires(t)
             \/ SeveralReturns(t) \/ SeveralMustWait(t) \/ SeveralWaits(t)
      PROVE  TypeOK'
  <2>1. /\ UNCHANGED <<ready, ext, setters, call, on, several, isSet>>
        /\ at' = at \/ \E x \in {"called", "about", "returned", "timed_out"} :
                           at' = [at EXCEPT ![t] = x]
    BY <1>3 DEF Finds, TimesOut, MustWait, Waits, TimerExpires, SeveralReturns,
                SeveralMustWait, SeveralWaits, Lacks, Enters, Tests, Sleeps, Goes, states,
                callVars
  <2> QED
    BY <2>1 DEF setters, several
<1>4. ASSUME NEW t \in Threads, NEW p \in Promises,
             AddReady(t, p) \/ AddTests(t, p) \/ AddReadyAsync(t, p)
      PROVE  TypeOK'
  BY <1>4 DEF AddReady, AddTests, AddReadyAsync, Add, Hit, RetIs, RunsAsync, Begins,
              Continuation, Throws, states, setters
<1>5. ASSUME NEW t \in Threads, AddStores(t)
      PROVE  TypeOK'
  <2>1. ready[adding[t]] \/ setter[adding[t]] # "callbacks"
    BY <1>5 DEF AddStores, IInv, SetterOK
  <2>2. late' \subseteq native
    BY <1>5, <2>1 DEF AddStores, IInv, KeptOK
  <2> QED
    BY <1>5, <2>2 DEF AddStores
<1>6. ASSUME NEW p \in Promises,
             MarkReady(p) \/ ForeignReady(p) \/ ForeignNotify(p) \/ EndsFulfilling(p)
      PROVE  TypeOK'
  <2>1. /\ UNCHANGED <<ext, late, call, on, at, joined, adding, hits, ret, isSet, running>>
        /\ setter' \in [Promises -> {"idle", "ready", "callbacks", "done", "threw"}]
    BY <1>6 DEF MarkReady, ForeignReady, ForeignNotify, EndsFulfilling, Fulfils, SetsReady,
                callVars, several
  <2>2. ready' = ready \/ ready' = [ready EXCEPT ![p] = TRUE]
    BY <1>6 DEF MarkReady, ForeignReady, ForeignNotify, EndsFulfilling, SetsReady
  <2>3. native' = native \/ native' = native \cup {p}
    BY <1>6 DEF MarkReady, ForeignReady, ForeignNotify, EndsFulfilling
  <2>4. ready' \in [States -> BOOLEAN]
    BY <2>2
  <2>5. native' \in SUBSET Promises /\ late' \in SUBSET native'
    BY <2>1, <2>3
  <2> QED
    BY <2>1, <2>4, <2>5
<1>7. ASSUME NEW p \in Promises, NEW t \in Threads,
             \/ CallbackAny(p, t) \/ CallbackForeign(p, t) \/ CallbackAll(p, t)
             \/ CallbackAsync(p, t)
      PROVE  TypeOK'
  <2>1. /\ ext' = [ext EXCEPT ![p] = @ \ {t}] /\ hits' = [hits EXCEPT ![t] = @ \cup {p}]
        /\ UNCHANGED <<ready, native, late, call, on, joined, adding>>
    BY <1>7 DEF CallbackAny, CallbackForeign, CallbackAll, CallbackAsync, RunsCallback, Hit
  <2>2. /\ ret' \in [Threads -> Promises \cup {None}] /\ isSet' = isSet
        /\ UNCHANGED <<setter, at>> \/ Throws(p)
    BY <1>7 DEF CallbackAny, CallbackForeign, CallbackAll, CallbackAsync, RetIs, RunsAsync,
                Begins, Continuation, setters
  <2>3. running' = running \/ \E step \in Steps :
                                running' = [running EXCEPT ![p] = Task(t, p, step)]
    BY <1>7 DEF CallbackAny, CallbackForeign, CallbackAll, CallbackAsync, RunsAsync, Begins,
                Continuation, setters
  <2>4. running' \in [Runners -> Tasks \cup {None}]
    BY <2>3
  <2>5. ext' \in [Promises -> SUBSET Threads] /\ hits' \in [Threads -> SUBSET Promises]
    BY <2>1
  <2>6. /\ setter' \in [Promises -> {"idle", "ready", "callbacks", "done", "threw"}]
        /\ at' \in [Threads -> {"called", "about", "returned", "timed_out", "threw"}]
    BY <2>2 DEF Throws
  <2> QED
    BY <2>1, <2>2, <2>4, <2>5, <2>6
<1>8. ASSUME NEW p \in Promises, EndsCallback(p)
      PROVE  TypeOK'
  BY <1>8 DEF EndsCallback, In, RetIs, states
<1>9. ASSUME NEW r \in Runners, Fulfilling(r)
      PROVE  TypeOK'
  <2>1. /\ running[r] \in Tasks
        /\ UNCHANGED <<ext, native, late, call, on, joined, adding, hits>>
    BY <1>9 DEF Fulfilling, Checks, SetsValue, Stores, Notifies, In, states, several, callVars
  <2>2. running' = [running EXCEPT ![r] = None]
        \/ \E step \in Steps : running' = [running EXCEPT ![r].step = step]
    BY <1>9 DEF Fulfilling, Checks, Accepted, Stores, Notifies
  <2>3. running' \in [Runners -> Tasks \cup {None}]
    <3>1. CASE running' = [running EXCEPT ![r] = None]
      BY <3>1
    <3>2. ASSUME NEW step \in Steps, running' = [running EXCEPT ![r].step = step]
          PROVE  running' \in [Runners -> Tasks \cup {None}]
      <4>1. [running[r] EXCEPT !.step = step] \in Tasks
        BY <2>1
      <4> QED
        BY <3>2, <4>1
    <3> QED
      BY <2>2, <3>1, <3>2
  <2>4. /\ ready' \in [States -> BOOLEAN] /\ isSet' \in [Threads -> BOOLEAN]
        /\ ret' \in [Threads -> Promises \cup {None}]
    BY <1>9, <2>1 DEF Fulfilling, Checks, SetsValue, Stores, Notifies, SetsReady, RetIs,
                      states, several, callVars
  <2>5. UNCHANGED <<setter, at>> \/ Throws(r)
    BY <1>9 DEF Fulfilling, Checks, Accepted, Stores, Notifies, callVars
  <2> QED
    BY <2>1, <2>3, <2>4, <2>5 DEF Throws
<1> QED
  BY <1>1, <1>2, <1>3, <1>4, <1>5, <1>6, <1>7, <1>8, <1>9
  DEF Next, GoesOn, Callback, Runners
-----------------------------------------------------------------------------
(* The parts of IInv, taken out of their quantifiers.                      *)
LEMMA Parts ==
    ASSUME IInv
    PROVE  /\ TypeOK
           /\ \A t \in Threads : CallOK(t) /\ ResultOK(t) /\ ReturnedOK(t)
           /\ \A t \in Threads, p \in Promises : KeptOK(t, p)
           /\ \A p \in Promises : SetterOK(p) /\ ThrewOK(p)
           /\ \A r \in Runners, t \in Threads : TaskOK(r, t)
           /\ \A r, s \in Runners, t \in Threads : PairOK(r, s, t)
BY DEF IInv

(* Steps that only move the calling thread.                                *)
LEMMA MoveKept ==
    ASSUME IInv, TypeOK',
           UNCHANGED <<ready, ext, setters, call, on, several, isSet>>,
           NEW t \in Threads, call[t] # "none",
           \A u \in Threads \ {t} : at'[u] = at[u],
           at'[t] = "returned" => Served(t)
    PROVE  IInv'
<1> USE Parts
<1>1. UNCHANGED <<ready, ext, setter, native, running, call, on, joined, adding, hits, ret>>
  BY DEF setters, several
<1>2. \A u \in Threads : CallOK(u)' /\ ResultOK(u)'
  BY <1>1 DEF CallOK, ResultOK, Sources
<1>3. \A u \in Threads : Served(u)' <=> Served(u)
  BY <1>1 DEF Served, Satisfied
<1>4. \A u \in Threads : ReturnedOK(u)'
  BY <1>3 DEF ReturnedOK
<1>5. \A u \in Threads, p \in Promises : KeptOK(u, p)'
  BY <1>1 DEF KeptOK
<1>6. \A p \in Promises : SetterOK(p)' /\ ThrewOK(p)'
  BY <1>1 DEF SetterOK, ThrewOK, ThrownBy, RunsFor
<1>7. \A r \in Runners, u \in Threads : TaskOK(r, u)'
  BY <1>1 DEF TaskOK, RunsFor
<1>8. \A r, s \in Runners, u \in Threads : PairOK(r, s, u)'
  BY <1>1 DEF PairOK, RunsFor
<1> QED
  BY <1>2, <1>4, <1>5, <1>6, <1>7, <1>8 DEF IInv

LEMMA MovesKept ==
    ASSUME IInv, TypeOK', NEW t \in Threads,
           \/ Finds(t) \/ TimesOut(t) \/ MustWait(t) \/ Waits(t) \/ TimerExpires(t)
           \/ SeveralReturns(t) \/ SeveralMustWait(t) \/ SeveralWaits(t)
    PROVE  IInv'
<1>1. TypeOK
  BY DEF IInv
<1>2. CASE TimerExpires(t)
  <2>1. UNCHANGED <<ready, ext, setters, call, on, several, isSet, at>>
    BY <1>2 DEF TimerExpires, callVars
  <2> QED
    BY <2>1, Parts DEF IInv, CallOK, ResultOK, ReturnedOK, Served, Satisfied, KeptOK, SetterOK,
       ThrewOK, ThrownBy, TaskOK, PairOK, RunsFor, Sources, setters, several
<1>3. CASE ~TimerExpires(t)
  <2>1. /\ UNCHANGED <<ready, ext, setters, call, on, several, isSet>>
        /\ call[t] \in Calls
        /\ \E x \in {"called", "about", "returned", "timed_out"} :
              at' = [at EXCEPT ![t] = x] /\ (x = "returned" => Finds(t) \/ SeveralReturns(t))
    BY <1>3 DEF Finds, TimesOut, MustWait, Waits, SeveralReturns, SeveralMustWait,
                SeveralWaits, Lacks, Enters, Tests, Sleeps, Goes, states, Calls
  <2>2. call[t] # "none"
    BY <2>1 DEF Calls, Single, Several, Async
  <2>3. \A u \in Threads \ {t} : at'[u] = at[u]
    BY <2>1, <1>1 DEF TypeOK
  <2>4. Finds(t) \/ SeveralReturns(t) => Served(t)
    BY DEF Finds, SeveralReturns, Enters, Tests, Served, Target, Single, Several, Async
  <2>5. at'[t] = "returned" => Served(t)
    BY <2>1, <2>4, <1>1 DEF TypeOK
  <2> QED
    BY <2>1, <2>2, <2>3, <2>5, MoveKept
<1> QED
  BY <1>2, <1>3

(* The first step of a call.                                               *)
LEMMA StartKept ==
    ASSUME IInv, TypeOK', NEW t \in Threads, NEW c \in Calls,
           NEW p \in Promises \cup {None}, Start(t, c, p)
    PROVE  IInv'
<1> USE Parts
<1>1. /\ call[t] = "none" /\ (c \in Single \cup {"then"} <=> p # None)
      /\ call' = [call EXCEPT ![t] = c] /\ on' = [on EXCEPT ![t] = p]
      /\ UNCHANGED <<ready, ext, setter, native, running, at, joined, adding, hits, ret>>
  BY DEF Start, states, setters, several
<1>2. /\ call'[t] = c /\ on'[t] = p
      /\ \A u \in Threads \ {t} : call'[u] = call[u] /\ on'[u] = on[u]
  BY <1>1 DEF TypeOK
<1>3. at[t] = "called" /\ joined[t] = {} /\ ~ready[t]
  BY <1>1 DEF CallOK, ResultOK, Sources, Single, Several, Async
<1>4. hits[t] = {} /\ ret[t] = None
  BY <1>3 DEF CallOK, KeptOK, TypeOK
<1>5. \A r \in Runners : ~RunsFor(r, t)
  BY <1>4 DEF TaskOK
<1>6. \A u \in Threads : CallOK(u)'
  BY <1>1, <1>2, <1>3, <1>4 DEF CallOK, Sources
<1>7. \A u \in Threads : ResultOK(u)'
  BY <1>1, <1>2, <1>3, <1>4 DEF ResultOK
<1>8. \A u \in Threads : ReturnedOK(u)'
  BY <1>1, <1>2, <1>3 DEF ReturnedOK, Served, Satisfied
<1>9. \A u \in Threads, q \in Promises : KeptOK(u, q)'
  BY <1>1 DEF KeptOK
<1>10. \A q \in Promises : SetterOK(q)'
  BY <1>1 DEF SetterOK
<1>11. \A q \in Promises : ThrewOK(q)'
  BY <1>1, <1>2, <1>4 DEF ThrewOK, ThrownBy, RunsFor
<1>12. \A r \in Runners, u \in Threads : TaskOK(r, u)'
  BY <1>1, <1>2, <1>5 DEF TaskOK, RunsFor
<1>13. \A r, s \in Runners, u \in Threads : PairOK(r, s, u)'
  BY <1>1, <1>2, <1>5 DEF PairOK, RunsFor
<1> QED
  BY <1>6, <1>7, <1>8, <1>9, <1>10, <1>11, <1>12, <1>13 DEF IInv
-----------------------------------------------------------------------------
(* add_external_waiter when the future is not ready: the test, and then the
   store, which only a native thread can have overtaken.                   *)
LEMMA AddTestsKept ==
    ASSUME IInv, TypeOK', NEW t \in Threads, NEW p \in Promises, AddTests(t, p)
    PROVE  IInv'
<1> USE Parts
<1>1. /\ p \in Sources(t) /\ p \notin joined[t] /\ adding[t] = None /\ ~ready[p]
      /\ joined' = [joined EXCEPT ![t] = @ \cup {p}]
      /\ adding' = [adding EXCEPT ![t] = p]
      /\ UNCHANGED <<ready, ext, setter, native, running, call, on, at, hits, ret>>
  BY DEF AddTests, Add, states, setters
<1>2. /\ joined'[t] = joined[t] \cup {p} /\ adding'[t] = p
      /\ \A u \in Threads \ {t} : joined'[u] = joined[u] /\ adding'[u] = adding[u]
  BY <1>1 DEF TypeOK
<1>3. \A u \in Threads : CallOK(u)' /\ ResultOK(u)' /\ ReturnedOK(u)'
  BY <1>1, <1>2 DEF CallOK, ResultOK, ReturnedOK, Served, Satisfied, Sources
<1>4. \A u \in Threads, q \in Promises : KeptOK(u, q)'
  BY <1>1, <1>2, Names DEF KeptOK
<1>5. \A q \in Promises : SetterOK(q)' /\ ThrewOK(q)'
  BY <1>1 DEF SetterOK, ThrewOK, ThrownBy, RunsFor
<1>6. \A r, s \in Runners, u \in Threads : TaskOK(r, u)' /\ PairOK(r, s, u)'
  BY <1>1 DEF TaskOK, PairOK, RunsFor
<1> QED
  BY <1>3, <1>4, <1>5, <1>6 DEF IInv

LEMMA AddStoresKept ==
    ASSUME IInv, TypeOK', NEW t \in Threads, AddStores(t)
    PROVE  IInv'
<1> USE Parts
<1>1. PICK p \in Promises : p = adding[t]
  BY DEF AddStores, TypeOK
<1>2. /\ adding[t] = p
      /\ ext' = [ext EXCEPT ![p] = @ \cup {t}]
      /\ adding' = [adding EXCEPT ![t] = None]
      /\ UNCHANGED <<ready, setter, native, running, call, on, at, joined, hits, ret>>
  BY <1>1 DEF AddStores, setters
<1>3. /\ ext'[p] = ext[p] \cup {t} /\ adding'[t] = None
      /\ \A u \in Threads \ {t} : adding'[u] = adding[u]
      /\ \A q \in Promises \ {p} : ext'[q] = ext[q]
  BY <1>2 DEF TypeOK
<1>4. \A u \in Threads : CallOK(u)' /\ ResultOK(u)' /\ ReturnedOK(u)'
  BY <1>2 DEF CallOK, ResultOK, ReturnedOK, Served, Satisfied, Sources
<1>5. \A u \in Threads, q \in Promises : KeptOK(u, q)'
  BY <1>2, <1>3, Names DEF KeptOK
<1>6. \A q \in Promises : SetterOK(q)' /\ ThrewOK(q)'
  BY <1>2 DEF SetterOK, ThrewOK, ThrownBy, RunsFor
<1>7. \A r, s \in Runners, u \in Threads : TaskOK(r, u)' /\ PairOK(r, s, u)'
  BY <1>2 DEF TaskOK, PairOK, RunsFor
<1> QED
  BY <1>4, <1>5, <1>6, <1>7 DEF IInv

(* A callback of t's call is run for p by r, which is t itself or whoever
   fulfils p: what it begins, gives or throws.                             *)
BeginsOrNot(r, t, p) ==
    /\ p \notin hits[t] /\ ready[p] /\ running[r] = None /\ r \in {p, t}
    /\ hits' = [hits EXCEPT ![t] = @ \cup {p}]
    /\ UNCHANGED <<ready, native, call, on>>
    /\ \/ UNCHANGED running
       \/ /\ running' = [running EXCEPT ![r] = Task(t, p, "notify")]
          /\ call[t] \in Several /\ r = p
       \/ /\ running' = [running EXCEPT ![r] = Task(t, p, "tested")]
          /\ call[t] \in Async
          /\ call[t] = "async_wait_for_all" => hits'[t] = Promises
    /\ UNCHANGED ret \/ (call[t] \in Several /\ ret' = [ret EXCEPT ![t] = p])
    /\ call[t] = "wait_for_any" => p \in native \/ ret'[t] = p
    /\ \A q \in Promises : \/ setter'[q] = setter[q]
                           \/ q = r /\ q = p /\ call[t] = "then" /\ UNCHANGED running

LEMMA HitKept ==
    ASSUME IInv, TypeOK', NEW t \in Threads, NEW p \in Promises, NEW r \in Runners,
           BeginsOrNot(r, t, p)
    PROVE  /\ \A u \in Threads : ResultOK(u)' /\ (ret'[u] # None => ret'[u] \in hits'[u])
           /\ \A u \in Threads : Served(u) => Served(u)'
           /\ \A q \in Promises : ThrewOK(q)'
           /\ \A s \in Runners, u \in Threads : TaskOK(s, u)'
           /\ \A s1, s2 \in Runners, u \in Threads : PairOK(s1, s2, u)'
<1> USE Parts
<1>1. /\ p \notin hits[t] /\ ready[p] /\ running[r] = None /\ r \in {p, t}
      /\ UNCHANGED <<ready, native, call, on>>
      /\ hits'[t] = hits[t] \cup {p} /\ \A u \in Threads \ {t} : hits'[u] = hits[u]
  BY DEF BeginsOrNot, TypeOK
<1>2. /\ \A s \in Runners \ {r} : running'[s] = running[s]
      /\ \/ UNCHANGED running
         \/ running'[r] = Task(t, p, "notify") /\ call[t] \in Several /\ r = p
         \/ /\ running'[r] = Task(t, p, "tested") /\ call[t] \in Async
            /\ call[t] = "async_wait_for_all" => hits'[t] = Promises
  BY DEF BeginsOrNot, TypeOK
<1>3. /\ \A u \in Threads \ {t} : ret'[u] = ret[u]
      /\ ret'[t] = ret[t] \/ (call[t] \in Several /\ ret'[t] = p)
      /\ call[t] = "wait_for_any" => p \in native \/ ret'[t] = p
  BY DEF BeginsOrNot, TypeOK
<1>4. \A u \in Threads : hits[u] \subseteq hits'[u] /\ hits'[u] \subseteq Promises
  BY <1>1 DEF TypeOK
<1>5. \A u \in Threads : ResultOK(u)'
  BY <1>1, <1>3, <1>4, Names DEF ResultOK
<1>6. \A u \in Threads : ret'[u] # None => ret'[u] \in hits'[u]
  BY <1>1, <1>3, <1>4 DEF CallOK
<1>7. \A u \in Threads : Served(u) => Served(u)'
  BY <1>1, <1>4 DEF Served, Satisfied
<1>8. \A s \in Runners \ {r}, u \in Threads : RunsFor(s, u)' <=> RunsFor(s, u)
  BY <1>2 DEF RunsFor
<1>9. \A u \in Threads : RunsFor(r, u)' => /\ u = t /\ running'[r].from = p
                                           /\ running'[r].step \in {"notify", "tested"}
                                           /\ running'[r].step = "notify" => call[t] \in Several /\ r = p
                                           /\ running'[r].step = "tested" => call[t] \in Async
                                           /\ running'[r].step = "tested" /\ call[t] = "async_wait_for_all"
                                                => hits'[t] = Promises
  BY <1>1, <1>2 DEF RunsFor, Task
<1>10. ASSUME NEW s \in Runners \ {r}, NEW u \in Threads PROVE TaskOK(s, u)'
  BY <1>1, <1>2, <1>3, <1>4, <1>8 DEF TaskOK, Several, Async
<1>11. ASSUME NEW u \in Threads PROVE TaskOK(r, u)'
  <2> SUFFICES ASSUME RunsFor(r, u)' PROVE TaskOK(r, u)'
    BY DEF TaskOK
  <2>1. u = t /\ running'[r].from = p /\ (r \in Threads => r = t)
    BY <1>1, <1>9, Names
  <2>2. ret[t] # p
    BY <1>1, Names DEF CallOK
  <2>3. call[t] = "async_wait_for_all" => hits[t] # Promises
    BY <1>1
  <2>4. call[t] = "async_wait_for_all" => ~ready[t]
    BY <2>3 DEF ResultOK
  <2> QED
    BY <1>1, <1>3, <1>9, <2>1, <2>2, <2>4 DEF TaskOK, Several, Async
<1>12. ASSUME NEW s \in Runners \ {r}, NEW u \in Threads
       PROVE  PairOK(s, r, u)' /\ PairOK(r, s, u)'
  <2> SUFFICES ASSUME RunsFor(r, u)', RunsFor(s, u)'
               PROVE  PairOK(s, r, u)' /\ PairOK(r, s, u)'
    BY DEF PairOK
  <2>1. u = t /\ running'[r].from = p /\ running'[r].step # "checked"
    BY <1>9
  <2>2. running[s].from \in hits[t] /\ (call[t] = "async_wait_for_all" => hits[t] = Promises)
    BY <1>8, <2>1 DEF TaskOK
  <2> QED
    BY <1>1, <1>2, <2>1, <2>2 DEF PairOK
<1>13. ASSUME NEW s1 \in Runners \ {r}, NEW s2 \in Runners \ {r}, NEW u \in Threads
       PROVE  PairOK(s1, s2, u)'
  BY <1>1, <1>2, <1>8 DEF PairOK
<1>14. ASSUME NEW u \in Threads PROVE PairOK(r, r, u)'
  BY DEF PairOK
<1>15. ASSUME NEW q \in Promises PROVE ThrewOK(q)'
  <2> SUFFICES ASSUME setter'[q] = "threw" PROVE ThrewOK(q)'
    BY DEF ThrewOK
  <2>1. CASE setter[q] = "threw"
    <3>1. PICK u \in Threads : /\ ThrownBy(u, q)
                               /\ \A s \in Runners : RunsFor(s, u) => running[s].from # q
      BY <2>1 DEF ThrewOK
    <3>2. ThrownBy(u, q)'
      BY <3>1, <1>1, <1>3 DEF ThrownBy, Several
    <3>3. q \in hits[u]
      BY <3>1 DEF ThrownBy
    <3>4. \A s \in Runners : RunsFor(s, u)' => running'[s].from # q
      BY <3>1, <3>3, <1>1, <1>2, <1>8, <1>9
    <3> QED
      BY <3>2, <3>4 DEF ThrewOK
  <2>2. CASE setter[q] # "threw"
    <3>1. q = p /\ call[t] = "then" /\ UNCHANGED running
      BY <2>2 DEF BeginsOrNot
    <3>2. ThrownBy(t, q)'
      BY <3>1, <1>1 DEF ThrownBy
    <3>3. \A s \in Runners : RunsFor(s, t)' => running'[s].from # q
      BY <3>1, <1>1 DEF TaskOK, RunsFor
    <3> QED
      BY <3>2, <3>3 DEF ThrewOK
  <2> QED
    BY <2>1, <2>2
<1> QED
  BY <1>5, <1>6, <1>7, <1>10, <1>11, <1>12, <1>13, <1>14, <1>15
-----------------------------------------------------------------------------
(* add_external_waiter when the future is ready: t itself runs the callback.*)
LEMMA AddReadyKept ==
    ASSUME IInv, TypeOK', NEW t \in Threads, NEW p \in Promises,
           AddReady(t, p) \/ AddReadyAsync(t, p)
    PROVE  IInv'
<1> USE Parts
<1>1. /\ p \in Sources(t) /\ p \notin joined[t] /\ adding[t] = None /\ running[t] = None
      /\ ready[p] /\ at[t] = "called"
      /\ joined' = [joined EXCEPT ![t] = @ \cup {p}]
      /\ hits' = [hits EXCEPT ![t] = @ \cup {p}]
      /\ UNCHANGED <<ready, ext, native, call, on, adding>>
  BY DEF AddReady, AddReadyAsync, Add, states, Hit, RunsAsync, Begins, Continuation
<1>2. /\ joined'[t] = joined[t] \cup {p} /\ hits'[t] = hits[t] \cup {p}
      /\ \A u \in Threads \ {t} : joined'[u] = joined[u] /\ hits'[u] = hits[u]
  BY <1>1 DEF TypeOK
<1>3. p \notin hits[t] /\ t \in Runners
  BY <1>1 DEF KeptOK, Runners
<1>4. UNCHANGED setter
  <2>1. CASE AddReady(t, p)
    BY <2>1 DEF AddReady, setters
  <2>2. CASE AddReadyAsync(t, p)
    BY <2>2, Names DEF AddReadyAsync, RunsAsync, Begins, Continuation, Throws, TypeOK
  <2> QED
    BY <2>1, <2>2
<1>5. BeginsOrNot(t, t, p)
  <2>1. CASE AddReady(t, p)
    BY <2>1, <1>1, <1>2, <1>3, <1>4 DEF BeginsOrNot, AddReady, setters, RetIs, TypeOK
  <2>2. CASE AddReadyAsync(t, p) /\ Begins(t, t, p)
    BY <2>2, <1>1, <1>2, <1>3, <1>4
    DEF BeginsOrNot, AddReadyAsync, Begins, Proceeds, Async
  <2>3. CASE AddReadyAsync(t, p) /\ Continuation(t, t, p)
    BY <2>3, <1>1, <1>2, <1>3, <1>4
    DEF BeginsOrNot, AddReadyAsync, Continuation, Async
  <2> QED
    BY <2>1, <2>2, <2>3 DEF AddReadyAsync, RunsAsync
<1>6. \A u \in Threads : at'[u] = at[u] \/ (at'[u] = "threw" /\ u = t)
  BY DEF AddReady, AddReadyAsync, RunsAsync, Begins, Continuation, Throws, TypeOK
<1>7. call[t] # "none"
  BY <1>1 DEF Sources, Several, Async
<1>8. /\ \A u \in Threads : ResultOK(u)' /\ (ret'[u] # None => ret'[u] \in hits'[u])
      /\ \A u \in Threads : Served(u) => Served(u)'
      /\ \A q \in Promises : ThrewOK(q)'
      /\ \A s \in Runners, u \in Threads : TaskOK(s, u)'
      /\ \A s1, s2 \in Runners, u \in Threads : PairOK(s1, s2, u)'
  BY <1>3, <1>5, HitKept
<1>9. \A u \in Threads : CallOK(u)'
  BY <1>1, <1>2, <1>6, <1>7, <1>8 DEF CallOK, Sources
<1>10. \A u \in Threads : ReturnedOK(u)'
  BY <1>6, <1>8 DEF ReturnedOK
<1>11. \A u \in Threads, q \in Promises : KeptOK(u, q)'
  BY <1>1, <1>2, <1>4, Names DEF KeptOK
<1>12. \A q \in Promises : running'[q] = running[q]
  BY <1>5, Names DEF BeginsOrNot, TypeOK, Runners
<1>13. \A q \in Promises : SetterOK(q)'
  BY <1>1, <1>4, <1>12 DEF SetterOK
<1> QED
  BY <1>8, <1>9, <1>10, <1>11, <1>13 DEF IInv

(* Whoever fulfils p runs one of the callbacks stored there.               *)
LEMMA CallbackKept ==
    ASSUME IInv, TypeOK', NEW t \in Threads, NEW p \in Promises,
           \/ CallbackAny(p, t) \/ CallbackForeign(p, t) \/ CallbackAll(p, t)
           \/ CallbackAsync(p, t)
    PROVE  IInv'
<1> USE Parts
<1>1. /\ setter[p] = "callbacks" /\ running[p] = None /\ t \in ext[p]
      /\ ext' = [ext EXCEPT ![p] = @ \ {t}]
      /\ hits' = [hits EXCEPT ![t] = @ \cup {p}]
      /\ UNCHANGED <<ready, native, call, on, joined, adding>>
  BY DEF CallbackAny, CallbackForeign, CallbackAll, CallbackAsync, RunsCallback, Hit
<1>2. /\ ext'[p] = ext[p] \ {t} /\ \A q \in Promises \ {p} : ext'[q] = ext[q]
      /\ hits'[t] = hits[t] \cup {p} /\ \A u \in Threads \ {t} : hits'[u] = hits[u]
  BY <1>1 DEF TypeOK
<1>3. /\ p \notin hits[t] /\ p \in joined[t] /\ adding[t] # p /\ ready[p] /\ p \in Runners
  BY <1>1 DEF KeptOK, SetterOK, Runners
<1>4. BeginsOrNot(p, t, p)
  <2>1. CASE CallbackAny(p, t)
    BY <2>1, <1>1, <1>2, <1>3 DEF BeginsOrNot, CallbackAny, setters, RetIs, TypeOK, Several
  <2>2. CASE CallbackForeign(p, t)
    BY <2>2, <1>1, <1>2, <1>3 DEF BeginsOrNot, CallbackForeign, Several
  <2>3. CASE CallbackAll(p, t)
    BY <2>3, <1>1, <1>2, <1>3 DEF BeginsOrNot, CallbackAll, Several
  <2>4. CASE CallbackAsync(p, t) /\ Begins(p, t, p)
    BY <2>4, <1>1, <1>2, <1>3 DEF BeginsOrNot, CallbackAsync, Begins, Proceeds, Async
  <2>5. CASE CallbackAsync(p, t) /\ Continuation(p, t, p)
    BY <2>5, <1>1, <1>2, <1>3 DEF BeginsOrNot, CallbackAsync, Continuation, Throws, Async, TypeOK
  <2> QED
    BY <2>1, <2>2, <2>3, <2>4, <2>5 DEF CallbackAsync, RunsAsync
<1>5. UNCHANGED at
  <2>1. CASE CallbackAsync(p, t) /\ Continuation(p, t, p)
    BY <2>1, Names DEF Continuation, Throws, TypeOK
  <2> QED
    BY <2>1 DEF CallbackAny, CallbackForeign, CallbackAll, CallbackAsync, RunsAsync, Begins
<1>6. /\ \A u \in Threads : ResultOK(u)' /\ (ret'[u] # None => ret'[u] \in hits'[u])
      /\ \A u \in Threads : Served(u) => Served(u)'
      /\ \A q \in Promises : ThrewOK(q)'
      /\ \A s \in Runners, u \in Threads : TaskOK(s, u)'
      /\ \A s1, s2 \in Runners, u \in Threads : PairOK(s1, s2, u)'
  BY <1>3, <1>4, HitKept
<1>7. \A u \in Threads : CallOK(u)'
  BY <1>1, <1>5, <1>6 DEF CallOK, Sources
<1>8. \A u \in Threads : ReturnedOK(u)'
  BY <1>5, <1>6 DEF ReturnedOK
<1>9. \A q \in Promises : setter'[q] = setter[q] \/ (q = p /\ UNCHANGED running)
  BY <1>4 DEF BeginsOrNot
<1>10. setter'[p] \in {"callbacks", "threw"}
  BY <1>1, Names DEF CallbackAny, CallbackForeign, CallbackAll, CallbackAsync, RunsAsync, Begins,
                     Continuation, Throws, setters
<1>11. \A u \in Threads, q \in Promises : KeptOK(u, q)'
  <2> TAKE u \in Threads, q \in Promises
  <2>1. CASE q = p
    BY <2>1, <1>1, <1>2, <1>3, <1>10 DEF KeptOK
  <2>2. CASE q # p
    BY <2>2, <1>1, <1>2, <1>9 DEF KeptOK
  <2> QED
    BY <2>1, <2>2
<1>12. \A q \in Promises : SetterOK(q)'
  <2> TAKE q \in Promises
  <2>1. \A s \in Runners \ {p} : running'[s] = running[s]
    BY <1>4 DEF BeginsOrNot, TypeOK
  <2>2. running'[p] # None => running'[p].from = p
    BY <1>1, <1>3, <1>4 DEF BeginsOrNot, Task, TypeOK
  <2>3. running'[p] # None => setter'[p] = "callbacks"
    BY <1>1, <1>9
  <2> QED
    BY <1>1, <1>3, <1>9, <1>10, <2>1, <2>2, <2>3 DEF SetterOK, Runners
<1> QED
  BY <1>6, <1>7, <1>8, <1>11, <1>12 DEF IInv

(* The steps of set_value on p itself.                                     *)
LEMMA FulfilKept ==
    ASSUME IInv, TypeOK', NEW p \in Promises,
           MarkReady(p) \/ ForeignReady(p) \/ ForeignNotify(p) \/ EndsFulfilling(p)
    PROVE  IInv'
<1> USE Parts
<1>1. /\ UNCHANGED <<ext, running, call, on, at, joined, adding, hits, ret>>
      /\ \A q \in Promises \ {p} : setter'[q] = setter[q] /\ ready'[q] = ready[q]
      /\ \A t \in Threads : ready'[t] = ready[t]
      /\ setter'[p] # "threw"
  BY Names DEF MarkReady, ForeignReady, ForeignNotify, EndsFulfilling, Fulfils, SetsReady,
               callVars, several, TypeOK, States
<1>2. \/ /\ setter[p] = "idle" /\ setter'[p] = "callbacks" /\ native' = native /\ ready'[p]
         /\ \A t \in Threads : adding[t] # p
      \/ setter[p] = "idle" /\ setter'[p] = "ready" /\ native' = native \cup {p} /\ ready'[p]
      \/ setter[p] = "ready" /\ setter'[p] = "callbacks" /\ native' = native /\ ready' = ready
      \/ /\ setter[p] = "callbacks" /\ setter'[p] = "done" /\ native' = native /\ ready' = ready
         /\ running[p] = None /\ (ext[p] = {} \/ p \in native)
  BY DEF MarkReady, ForeignReady, ForeignNotify, EndsFulfilling, Fulfils, SetsReady, Unlocked,
         Locks, TypeOK, States
<1>3. /\ native \subseteq native' /\ native' \subseteq native \cup {p}
      /\ ready[p] => ready'[p]
  BY <1>2
<1>4. \A t \in Threads : CallOK(t)'
  BY <1>1 DEF CallOK, Sources
<1>5. \A t \in Threads : ResultOK(t)'
  BY <1>1, <1>3 DEF ResultOK
<1>6. \A t \in Threads : ReturnedOK(t)'
  <2>1. \A t \in Threads : call[t] \in Single => on[t] \in Promises
    BY DEF CallOK, TypeOK
  <2> QED
    BY <2>1, <1>1, <1>3 DEF ReturnedOK, Served, Satisfied
<1>7. \A t \in Threads, q \in Promises : KeptOK(t, q)'
  <2> TAKE t \in Threads, q \in Promises
  <2>1. CASE q = p
    BY <2>1, <1>1, <1>2 DEF KeptOK, SetterOK
  <2>2. CASE q # p
    BY <2>2, <1>1, <1>3 DEF KeptOK
  <2> QED
    BY <2>1, <2>2
<1>8. \A q \in Promises : SetterOK(q)'
  <2> TAKE q \in Promises
  <2>1. CASE q = p
    BY <2>1, <1>1, <1>2 DEF SetterOK
  <2>2. CASE q # p
    BY <2>2, <1>1, <1>3 DEF SetterOK
  <2> QED
    BY <2>1, <2>2
<1>9. \A q \in Promises : ThrewOK(q)'
  BY <1>1 DEF ThrewOK, ThrownBy, RunsFor
<1>10. \A r \in Runners, t \in Threads : TaskOK(r, t)'
  BY <1>1, <1>3 DEF TaskOK, RunsFor
<1>11. \A r, s \in Runners, t \in Threads : PairOK(r, s, t)'
  BY <1>1, <1>3 DEF PairOK, RunsFor
<1> QED
  BY <1>4, <1>5, <1>6, <1>7, <1>8, <1>9, <1>10, <1>11 DEF IInv
-----------------------------------------------------------------------------
(* The end of a callback of wait_for_any or wait_for_all.                  *)
LEMMA EndsCallbackKept ==
    ASSUME IInv, TypeOK', NEW p \in Promises, EndsCallback(p)
    PROVE  IInv'
<1> USE Parts
<1>1. PICK t \in Threads : t = running[p].call
  BY DEF EndsCallback, In, TypeOK, Tasks, Runners
<1>2. /\ RunsFor(p, t) /\ running[p].step = "notify" /\ p \in Runners
      /\ ret' = [ret EXCEPT ![t] = p] /\ running' = [running EXCEPT ![p] = None]
      /\ UNCHANGED <<ready, ext, setter, native, call, on, at, joined, adding, hits>>
  BY <1>1 DEF EndsCallback, In, RetIs, RunsFor, states, Runners
<1>3. /\ ret'[t] = p /\ \A u \in Threads \ {t} : ret'[u] = ret[u]
      /\ \A s \in Runners \ {p} : running'[s] = running[s]
      /\ running'[p] = None
  BY <1>2 DEF TypeOK
<1>4. call[t] \in Several /\ p \in hits[t]
  BY <1>2 DEF TaskOK, SetterOK, RunsFor
<1>5. \A s \in Runners, u \in Threads : RunsFor(s, u)' => RunsFor(s, u) /\ s # p
  BY <1>3 DEF RunsFor
<1>6. \A u \in Threads : CallOK(u)' /\ ResultOK(u)' /\ ReturnedOK(u)'
  BY <1>2, <1>3, <1>4, Names DEF CallOK, ResultOK, ReturnedOK, Served, Satisfied, Sources
<1>7. \A u \in Threads, q \in Promises : KeptOK(u, q)'
  BY <1>2 DEF KeptOK
<1>8. \A q \in Promises : SetterOK(q)'
  BY <1>2, <1>3 DEF SetterOK, Runners
<1>9. \A q \in Promises : ThrewOK(q)'
  <2> TAKE q \in Promises
  <2>1. \A u \in Threads : ThrownBy(u, q) => ThrownBy(u, q)'
    BY <1>2, <1>3, <1>4 DEF ThrownBy, Several
  <2> QED
    BY <2>1, <1>2, <1>3, <1>5 DEF ThrewOK
<1>10. ASSUME NEW s \in Runners, NEW u \in Threads PROVE TaskOK(s, u)'
  <2> SUFFICES ASSUME RunsFor(s, u)' PROVE TaskOK(s, u)'
    BY DEF TaskOK
  <2>1. RunsFor(s, u) /\ running'[s] = running[s]
    BY <1>3, <1>5
  <2>2. u = t => running[s].step = "notify"
    BY <1>4, <2>1 DEF TaskOK
  <2> QED
    BY <2>1, <2>2, <1>2, <1>3 DEF TaskOK
<1>11. \A s1, s2 \in Runners, u \in Threads : PairOK(s1, s2, u)'
  BY <1>2, <1>3, <1>5 DEF PairOK
<1> QED
  BY <1>6, <1>7, <1>8, <1>9, <1>10, <1>11 DEF IInv

(* The test of set_value on the state of an asynchronous call.             *)
LEMMA ChecksKept ==
    ASSUME IInv, TypeOK', NEW r \in Runners, Checks(r)
    PROVE  IInv'
<1> USE Parts
<1>1. PICK t \in Threads : t = running[r].call
  BY DEF Checks, SetsValue, In, TypeOK, Tasks
<1>2. PICK p \in Promises : p = running[r].from
  BY DEF Checks, SetsValue, In, TypeOK, Tasks
<1>3. /\ RunsFor(r, t) /\ running[r].step = "tested" /\ running[r].from = p
      /\ r \notin native => Unlocked(t)
      /\ UNCHANGED <<ready, ext, native, call, on, joined, adding, hits, ret>>
  BY <1>1, <1>2 DEF Checks, SetsValue, In, RunsFor, states, several
<1>4. /\ call[t] \in Async /\ p \in hits[t] /\ ret[t] # p
      /\ r \in Threads => r = t
      /\ r \in Promises => setter[r] = "callbacks" /\ r = p
  BY <1>3 DEF TaskOK, SetterOK, RunsFor, Several, Async
<1>5. CASE ~ready[t]
  <2>1. running' = [running EXCEPT ![r].step = "checked"] /\ UNCHANGED <<setter, at>>
    BY <1>1, <1>5 DEF Checks, Accepted
  <2>2. /\ \A s \in Runners \ {r} : running'[s] = running[s]
        /\ running'[r] = [call |-> t, from |-> p, step |-> "checked"]
    BY <2>1, <1>1, <1>2, <1>3 DEF TypeOK, Tasks, RunsFor
  <2>3. /\ \A s \in Runners, u \in Threads : RunsFor(s, u)' => RunsFor(s, u)
        /\ running'[r].from = p /\ running'[r].step = "checked"
    BY <1>3, <2>2 DEF RunsFor
  <2>4. \A s \in Runners : running'[s] # None => running[s] # None /\ running'[s].from = running[s].from
    BY <1>3, <2>2 DEF RunsFor
  <2>5. \A u \in Threads : CallOK(u)' /\ ResultOK(u)' /\ ReturnedOK(u)'
    BY <1>3, <2>1 DEF CallOK, ResultOK, ReturnedOK, Served, Satisfied, Sources
  <2>6. \A u \in Threads, q \in Promises : KeptOK(u, q)'
    BY <1>3, <2>1 DEF KeptOK
  <2>7. \A q \in Promises : SetterOK(q)'
    BY <1>3, <2>1, <2>4 DEF SetterOK, Runners
  <2>8. \A q \in Promises : ThrewOK(q)'
    <3> TAKE q \in Promises
    <3>1. \A u \in Threads : ThrownBy(u, q) => ThrownBy(u, q)'
      BY <1>3 DEF ThrownBy
    <3>2. \A s \in Runners, u \in Threads : RunsFor(s, u)' => running'[s].from = running[s].from
      BY <2>4 DEF RunsFor
    <3> QED
      BY <3>1, <3>2, <2>1, <2>3 DEF ThrewOK
  <2>9. ASSUME NEW s \in Runners, NEW u \in Threads PROVE TaskOK(s, u)'
    <3>1. CASE s = r
      <4>1. RunsFor(s, u)' => u = t
        BY <3>1, <2>2 DEF RunsFor
      <4> QED
        BY <3>1, <4>1, <1>3, <1>4, <1>5, <2>3 DEF TaskOK, Several, Async
    <3>2. CASE s # r
      BY <3>2, <1>3, <2>2, <2>3 DEF TaskOK
    <3> QED
      BY <3>1, <3>2
  <2>10. ASSUME NEW s \in Runners \ {r}, r \notin native, s \notin native, RunsFor(s, t)
         PROVE  running[s].step # "checked"
    BY <1>3, <2>10 DEF Unlocked, In, RunsFor
  <2>11. ASSUME NEW s1 \in Runners, NEW s2 \in Runners, NEW u \in Threads
         PROVE  PairOK(s1, s2, u)'
    <3> SUFFICES ASSUME RunsFor(s1, u)', RunsFor(s2, u)' PROVE PairOK(s1, s2, u)'
      BY DEF PairOK
    <3>1. /\ RunsFor(s1, u) /\ RunsFor(s2, u)
          /\ running'[s1].from = running[s1].from /\ running'[s2].from = running[s2].from
      BY <2>3, <2>4 DEF RunsFor
    <3>2. s1 = r \/ s2 = r => u = t
      BY <3>1, <1>3 DEF RunsFor
    <3> QED
      BY <3>1, <3>2, <1>3, <2>2, <2>10 DEF PairOK
  <2> QED
    BY <2>5, <2>6, <2>7, <2>8, <2>9, <2>11 DEF IInv
<1>6. CASE ready[t]
  <2>1. Throws(r) /\ running' = [running EXCEPT ![r] = None]
    BY <1>1, <1>6 DEF Checks
  <2>2. /\ running'[r] = None /\ \A s \in Runners \ {r} : running'[s] = running[s]
        /\ \A q \in Promises : setter'[q] = IF q = r THEN "threw" ELSE setter[q]
        /\ \A u \in Threads : at'[u] = IF u = r THEN "threw" ELSE at[u]
    BY <2>1 DEF Throws, TypeOK
  <2>3. \A s \in Runners, u \in Threads : RunsFor(s, u)' => RunsFor(s, u) /\ s # r
    BY <2>2 DEF RunsFor
  <2>4. \A u \in Threads : CallOK(u)'
    BY <1>3, <1>4, <2>2 DEF CallOK, Sources, Async
  <2>5. \A u \in Threads : ResultOK(u)' /\ ReturnedOK(u)'
    BY <1>3, <2>2 DEF ResultOK, ReturnedOK, Served, Satisfied
  <2>6. \A u \in Threads, q \in Promises : KeptOK(u, q)'
    BY <1>3, <2>2 DEF KeptOK
  <2>7. \A q \in Promises : SetterOK(q)'
    BY <1>3, <1>4, <2>2 DEF SetterOK, Runners
  <2>8. ASSUME NEW q \in Promises PROVE ThrewOK(q)'
    <3> SUFFICES ASSUME setter'[q] = "threw" PROVE ThrewOK(q)'
      BY DEF ThrewOK
    <3>1. CASE q = r
      <4>1. q = p /\ (call[t] = "then" \/ call[t] = "async_wait_for_any")
        BY <3>1, <1>3, <1>4, <1>6 DEF TaskOK, Async
      <4>2. ThrownBy(t, q)'
        BY <4>1, <1>3, <1>4, <1>6 DEF ThrownBy
      <4>3. \A s \in Runners : RunsFor(s, t)' => running'[s].from # q
        BY <4>1, <1>3, <2>2, <2>3 DEF PairOK
      <4> QED
        BY <4>2, <4>3 DEF ThrewOK
    <3>2. CASE q # r
      BY <3>2, <1>3, <2>2, <2>3 DEF ThrewOK, ThrownBy
    <3> QED
      BY <3>1, <3>2
  <2>9. \A s \in Runners, u \in Threads : TaskOK(s, u)'
    BY <1>3, <2>2, <2>3 DEF TaskOK
  <2>10. \A s1, s2 \in Runners, u \in Threads : PairOK(s1, s2, u)'
    BY <1>3, <2>2, <2>3 DEF PairOK
  <2> QED
    BY <2>4, <2>5, <2>6, <2>7, <2>8, <2>9, <2>10 DEF IInv
<1> QED
  BY <1>5, <1>6

(* The value is stored: the state of the call is ready from now on.        *)
LEMMA StoresKept ==
    ASSUME IInv, TypeOK', NEW r \in Runners, Stores(r)
    PROVE  IInv'
<1> USE Parts
<1>1. PICK t \in Threads : t = running[r].call
  BY DEF Stores, In, TypeOK, Tasks
<1>2. PICK p \in Promises : p = running[r].from
  BY DEF Stores, In, TypeOK, Tasks
<1>3. /\ RunsFor(r, t) /\ running[r].step = "checked" /\ running[r].from = p
      /\ ready' = [ready EXCEPT ![t] = TRUE] /\ ret' = [ret EXCEPT ![t] = p]
      /\ UNCHANGED <<ext, setter, native, call, on, at, joined, adding, hits>>
  BY <1>1, <1>2 DEF Stores, In, RunsFor, SetsReady, RetIs
<1>4. /\ call[t] \in Async /\ p \in hits[t]
      /\ r \in native => p = r
      /\ call[t] = "async_wait_for_all" => hits[t] = Promises
  BY <1>3 DEF TaskOK, SetterOK, RunsFor, Several, Async, TypeOK
<1>5. /\ ready'[t] /\ \A s \in States \ {t} : ready'[s] = ready[s]
      /\ ret'[t] = p /\ \A u \in Threads \ {t} : ret'[u] = ret[u]
  BY <1>3 DEF TypeOK, States
<1>6. /\ \A s \in Runners \ {r} : running'[s] = running[s]
      /\ \/ running'[r] = None
         \/ running'[r] = [call |-> t, from |-> p, step |-> "stored"]
  BY <1>1, <1>2, <1>3 DEF Stores, TypeOK, Tasks, RunsFor
<1>7. \A s \in Runners, u \in Threads :
         RunsFor(s, u)' => RunsFor(s, u) /\ running'[s].from = running[s].from
  BY <1>3, <1>6 DEF RunsFor
<1>8. \A u \in Threads : CallOK(u)' /\ ResultOK(u)'
  BY <1>3, <1>4, <1>5, Names DEF CallOK, ResultOK, Sources, States, Async
<1>9. \A u \in Threads : ReturnedOK(u)'
  BY <1>3, <1>5 DEF ReturnedOK, Served, Satisfied, CallOK, States, TypeOK
<1>10. \A u \in Threads, q \in Promises : KeptOK(u, q)'
  <2>1. \A q \in Promises : ready'[q] = ready[q]
    BY <1>5, Names DEF States
  <2> TAKE u \in Threads, q \in Promises
  <2>2. KeptOK(u, q) /\ ready'[q] = ready[q]
    BY <2>1
  <2> QED
    BY <2>2, <1>3 DEF KeptOK
<1>11. \A q \in Promises : SetterOK(q)'
  <2>1. \A q \in Promises : running'[q] # None => running[q] # None /\ running'[q].from = running[q].from
    BY <1>3, <1>6 DEF RunsFor, Runners
  <2>2. \A q \in Promises : ready'[q] = ready[q]
    BY <1>5, Names DEF States
  <2> QED
    BY <2>1, <2>2, <1>3 DEF SetterOK
<1>12. ASSUME NEW q \in Promises PROVE ThrewOK(q)'
  <2> SUFFICES ASSUME setter'[q] = "threw" PROVE ThrewOK(q)'
    BY DEF ThrewOK
  <2>1. PICK u \in Threads : /\ ThrownBy(u, q)
                             /\ \A s \in Runners : RunsFor(s, u) => running[s].from # q
    BY <1>3 DEF ThrewOK
  <2>2. ThrownBy(u, q)'
    BY <2>1, <1>3, <1>5 DEF ThrownBy, States
  <2> QED
    BY <2>1, <2>2, <1>7 DEF ThrewOK
<1>13. ASSUME NEW s \in Runners, NEW u \in Threads PROVE TaskOK(s, u)'
  <2> SUFFICES ASSUME RunsFor(s, u)' PROVE TaskOK(s, u)'
    BY DEF TaskOK
  <2>1. CASE s = r
    <3>1. u = t /\ running'[r].from = p /\ running'[r].step = "stored"
      BY <2>1, <1>6 DEF RunsFor
    <3> QED
      BY <2>1, <3>1, <1>3, <1>4 DEF TaskOK, Several, Async
  <2>2. CASE s # r /\ u # t
    BY <2>2, <1>3, <1>5, <1>6, <1>7 DEF TaskOK, States
  <2>3. CASE s # r /\ u = t
    <3>1. RunsFor(s, t) /\ running'[s] = running[s] /\ running[s].from # p
      BY <2>3, <1>3, <1>6, <1>7 DEF PairOK
    <3>2. call[t] # "async_wait_for_all"
      BY <2>3, <3>1, <1>3 DEF PairOK
    <3>3. running[s].step = "checked" /\ s \notin native => ret'[t] \in native
      BY <2>3, <3>1, <1>3, <1>4, <1>5 DEF PairOK
    <3> QED
      BY <2>3, <3>1, <3>2, <3>3, <1>3, <1>5 DEF TaskOK
  <2> QED
    BY <2>1, <2>2, <2>3
<1>14. ASSUME NEW s1 \in Runners, NEW s2 \in Runners, NEW u \in Threads
       PROVE  PairOK(s1, s2, u)'
  <2>1. running'[r] # None => running'[r].step # "checked"
    BY <1>6
  <2> QED
    BY <2>1, <1>3, <1>6, <1>7 DEF PairOK, RunsFor
<1> QED
  BY <1>8, <1>9, <1>10, <1>11, <1>12, <1>13, <1>14 DEF IInv

LEMMA NotifiesKept ==
    ASSUME IInv, TypeOK', NEW r \in Runners, Notifies(r)
    PROVE  IInv'
<1> USE Parts
<1>1. /\ running' = [running EXCEPT ![r] = None]
      /\ UNCHANGED <<ready, ext, setter, native, call, on, at, joined, adding, hits, ret>>
  BY DEF Notifies, callVars, several
<1>2. /\ running'[r] = None
      /\ \A s \in Runners \ {r} : running'[s] = running[s]
  BY <1>1 DEF TypeOK
<1>3. \A s \in Runners, u \in Threads : RunsFor(s, u)' => RunsFor(s, u) /\ s # r
  BY <1>2 DEF RunsFor
<1>4. \A u \in Threads : CallOK(u)' /\ ResultOK(u)' /\ ReturnedOK(u)'
  BY <1>1 DEF CallOK, ResultOK, ReturnedOK, Served, Satisfied, Sources
<1>5. \A u \in Threads, q \in Promises : KeptOK(u, q)'
  BY <1>1 DEF KeptOK
<1>6. \A q \in Promises : SetterOK(q)' /\ ThrewOK(q)'
  BY <1>1, <1>2, <1>3 DEF SetterOK, ThrewOK, ThrownBy, Runners
<1>7. \A s \in Runners, u \in Threads : TaskOK(s, u)'
  BY <1>1, <1>2, <1>3 DEF TaskOK
<1>8. \A s1, s2 \in Runners, u \in Threads : PairOK(s1, s2, u)'
  BY <1>1, <1>2, <1>3 DEF PairOK
<1> QED
  BY <1>4, <1>5, <1>6, <1>7, <1>8 DEF IInv

-----------------------------------------------------------------------------
(* Every step keeps the invariant.                                         *)
LEMMA NextIInv == IInv /\ [Next]_vars => IInv'
<1> SUFFICES ASSUME IInv, [Next]_vars PROVE IInv'
  OBVIOUS
<1>1. TypeOK'
  BY TypeKept DEF IInv
<1>2. ASSUME NEW t \in Threads, NEW c \in MayCall[t], NEW p \in Promises \cup {None},
             Start(t, c, p)
      PROVE  IInv'
  <2>1. c \in Calls
    BY FutureAssumption
  <2> QED
    BY <1>1, <1>2, <2>1, StartKept
<1>3. ASSUME NEW r \in Runners, Fulfilling(r) PROVE IInv'
  BY <1>1, <1>3, ChecksKept, StoresKept, NotifiesKept DEF Fulfilling
<1>4. ASSUME NEW t \in Threads, GoesOn(t) \/ TimerExpires(t) PROVE IInv'
  BY <1>1, <1>3, <1>4, MovesKept, AddTestsKept, AddStoresKept, AddReadyKept DEF GoesOn, Runners
<1>5. ASSUME NEW p \in Promises,
             MarkReady(p) \/ ForeignReady(p) \/ ForeignNotify(p) \/ Callback(p)
      PROVE  IInv'
  BY <1>1, <1>3, <1>5, FulfilKept, CallbackKept, EndsCallbackKept DEF Callback, Runners
<1>6. CASE UNCHANGED vars
  BY <1>6, Parts
  DEF vars, states, setters, callVars, several, IInv, TypeOK, CallOK, ResultOK, ReturnedOK,
      Served, Satisfied, Sources, KeptOK, SetterOK, ThrewOK, ThrownBy, TaskOK, PairOK, RunsFor
<1> QED
  BY <1>2, <1>4, <1>5, <1>6 DEF Next

LEMMA Invariance == Spec => []IInv
BY InitIInv, NextIInv, PTL DEF Spec
-----------------------------------------------------------------------------
(* The theorems.                                                           *)

(* get, wait_for, wait_for_any, wait_for_all and their asynchronous forms
   return only what is ready, however many callbacks come together and
   whichever thread runs them.                                             *)
THEOREM CallsReturnWhatIsReady == Spec => []ReturnsWhatIsReady
<1>1. ASSUME IInv PROVE ReturnsWhatIsReady
  <2> USE <1>1, Parts
  <2>1. ASSUME NEW t \in Threads, at[t] = "returned" PROVE Holds(t)
    <3>1. Served(t) /\ \A p \in hits[t] : p \in Promises /\ ready[p]
      BY <2>1 DEF ReturnedOK, KeptOK, TypeOK
    <3>2. ret[t] # None => ready[ret[t]]
      BY <3>1 DEF CallOK
    <3>3. call[t] \in Async => ret[t] # None
      BY <3>1 DEF Served, ResultOK
    <3>4. call[t] \in {"wait_for_all", "async_wait_for_all"} => hits[t] = Promises
      BY <3>1 DEF Served, Satisfied, ResultOK, Several, Async
    <3>5. call[t] = "wait_for_any" => hits[t] # {} /\ (ret[t] = None => hits[t] \subseteq native)
      BY <3>1 DEF Served, Satisfied, ResultOK, Several
    <3> QED
      BY <3>1, <3>2, <3>3, <3>4, <3>5 DEF Holds, Served, Async
  <2> QED
    BY <2>1 DEF ReturnsWhatIsReady
<1> QED
  BY <1>1, Invariance, PTL

(* One of three facts holds: so many of them hold.                         *)
LEMMA OneOfThree ==
    ASSUME NEW a \in BOOLEAN, NEW b \in BOOLEAN, NEW c \in BOOLEAN,
           a \/ b \/ c, ~(a /\ b), ~(a /\ c), ~(b /\ c)
    PROVE  Cardinality({k \in 1..3 : <<a, b, c>>[k]}) = 1
<1> DEFINE K == {k \in 1..3 : <<a, b, c>>[k]}
<1>1. K = {1} \/ K = {2} \/ K = {3}
  <2>1. \A k \in 1..3 : k = 1 \/ k = 2 \/ k = 3
    OBVIOUS
  <2>2. 1 \in 1..3 /\ 2 \in 1..3 /\ 3 \in 1..3
    OBVIOUS
  <2>3. <<a, b, c>>[1] = a /\ <<a, b, c>>[2] = b /\ <<a, b, c>>[3] = c
    OBVIOUS
  <2> QED
    BY <2>1, <2>2, <2>3
<1> QED
  BY <1>1, FS_Singleton

(* No callback is lost or run twice between the test and the store of
   add_external_waiter, the run of the callbacks and what they throw.      *)
THEOREM CallbacksAreKept == Spec => []CallbacksKept
<1>1. ASSUME IInv PROVE CallbacksKept
  <2> USE <1>1, Parts
  <2>1. ASSUME NEW t \in Threads, NEW p \in joined[t]
        PROVE  /\ Cardinality({k \in 1..3 : <<adding[t] = p, t \in ext[p],
                                               p \in hits[t]>>[k]}) = 1
               /\ (t \in ext[p] /\ ready[p] /\ p \notin native)
                       => setter[p] \in {"callbacks", "threw"}
    <3>1. p \in Promises
      BY DEF TypeOK
    <3>2. KeptOK(t, p)
      BY <3>1
    <3>3. Cardinality({k \in 1..3 : <<adding[t] = p, t \in ext[p], p \in hits[t]>>[k]}) = 1
      <4>1. /\ (adding[t] = p) \in BOOLEAN /\ (t \in ext[p]) \in BOOLEAN
            /\ (p \in hits[t]) \in BOOLEAN
        OBVIOUS
      <4>2. /\ adding[t] = p \/ t \in ext[p] \/ p \in hits[t]
            /\ ~(adding[t] = p /\ t \in ext[p])
            /\ ~(adding[t] = p /\ p \in hits[t])
            /\ ~(t \in ext[p] /\ p \in hits[t])
        BY <3>2 DEF KeptOK
      <4> QED
        BY <4>1, <4>2, OneOfThree
    <3> QED
      BY <3>2, <3>3 DEF KeptOK
  <2>2. \A p \in Promises : setter[p] = "threw" => \E t \in Threads : ThrownBy(t, p)
    BY DEF ThrewOK
  <2> QED
    BY <2>1, <2>2 DEF CallbacksKept
<1> QED
  BY <1>1, Invariance, PTL

(* Only the last step of a callback gives an asynchronous call a value.    *)
LEMMA OnlyStoresGives ==
    ASSUME IInv, [Next]_vars, NEW t \in Threads, call[t] \in Async, ret'[t] # ret[t]
    PROVE  \E r \in Runners : Stores(r) /\ running[r].call = t
<1> USE Parts
<1>1. call[t] \notin Several /\ TypeOK
  BY DEF Several, Async
<1>2. ASSUME NEW r \in Runners, Fulfilling(r) PROVE Stores(r) /\ running[r].call = t
  <2>1. Stores(r)
    BY <1>2 DEF Fulfilling, Checks, SetsValue, Notifies, callVars, several
  <2> QED
    BY <2>1, <1>1 DEF Stores, RetIs, TypeOK
<1>3. ASSUME NEW u \in Threads, NEW p \in Promises, AddReady(u, p) \/ CallbackAny(p, u)
      PROVE  FALSE
  <2>1. call[u] \in Several /\ ret' = [ret EXCEPT ![u] = p]
    BY <1>3 DEF AddReady, CallbackAny, RetIs, Several
  <2> QED
    BY <2>1, <1>1 DEF TypeOK
<1>4. ASSUME NEW p \in Promises, EndsCallback(p) PROVE FALSE
  <2>1. PICK u \in Threads : u = running[p].call
    BY <1>4, <1>1 DEF EndsCallback, In, TypeOK, Tasks, Runners
  <2>2. call[u] \in Several
    BY <1>4, <2>1 DEF EndsCallback, In, TaskOK, RunsFor, Runners
  <2> QED
    BY <1>4, <2>1, <2>2, <1>1 DEF EndsCallback, RetIs, TypeOK
<1>5. ASSUME NEW u \in Threads,
             \/ Finds(u) \/ TimesOut(u) \/ MustWait(u) \/ Waits(u) \/ TimerExpires(u)
             \/ SeveralReturns(u) \/ SeveralMustWait(u) \/ SeveralWaits(u) \/ AddStores(u)
      PROVE  FALSE
  BY <1>5 DEF Finds, TimesOut, MustWait, Waits, TimerExpires, SeveralReturns, SeveralMustWait,
              SeveralWaits, AddStores, Lacks, Enters, Tests, callVars, several
<1>6. ASSUME NEW u \in Threads, NEW p \in Promises,
             \/ AddTests(u, p) \/ AddReadyAsync(u, p) \/ CallbackForeign(p, u)
             \/ CallbackAll(p, u) \/ CallbackAsync(p, u)
      PROVE  FALSE
  BY <1>6 DEF AddTests, AddReadyAsync, CallbackForeign, CallbackAll, CallbackAsync
<1>7. ASSUME NEW p \in Promises,
             MarkReady(p) \/ ForeignReady(p) \/ ForeignNotify(p) \/ EndsFulfilling(p)
      PROVE  FALSE
  BY <1>7 DEF MarkReady, ForeignReady, ForeignNotify, EndsFulfilling, Fulfils, callVars, several
<1>8. ASSUME NEW u \in Threads, NEW c, NEW p, Start(u, c, p) PROVE FALSE
  BY <1>8 DEF Start, several
<1>9. CASE UNCHANGED vars
  BY <1>9 DEF vars, callVars, several
<1> QED
  BY <1>2, <1>3, <1>4, <1>5, <1>6, <1>7, <1>8, <1>9 DEF Next, GoesOn, Callback, Runners

(* What the future of an asynchronous call gives is never replaced, unless
   a native thread, whose set_value locks nothing, takes part.             *)
THEOREM AsyncResultsAreFinal == Spec => ResultsAreFinal
<1>1. ASSUME IInv, [Next]_vars,
             NEW t \in Threads, call[t] \in Async, ready[t],
             {ret[t], ret'[t]} \cap native = {}
      PROVE  ret'[t] = ret[t]
  <2> SUFFICES ASSUME ret'[t] # ret[t] PROVE FALSE
    OBVIOUS
  <2> USE <1>1, Parts
  <2>1. PICK r \in Runners : Stores(r) /\ running[r].call = t
    BY OnlyStoresGives
  <2>2. RunsFor(r, t) /\ running[r].step = "checked" /\ ret'[t] = running[r].from
    BY <2>1 DEF Stores, In, RunsFor, RetIs, TypeOK
  <2>3. r \in native
    BY <2>2 DEF TaskOK
  <2>4. ret'[t] = r
    BY <2>2, <2>3 DEF SetterOK, RunsFor, TypeOK
  <2> QED
    BY <2>3, <2>4
<1>2. IInv /\ [Next]_vars
         => [\A t \in Threads :
                call[t] \in Async /\ ready[t] /\ {ret[t], ret'[t]} \cap native = {}
                  => ret'[t] = ret[t]]_vars
  BY <1>1
<1> QED
  BY <1>2, Invariance, PTL DEF Spec, ResultsAreFinal
=============================================================================
