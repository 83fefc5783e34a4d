----------------------------- MODULE QueueFacts -----------------------------
(***************************************************************************)
(* What the queues of waiting threads are made of: push_back, pop_front    *)
(* and the erase of one element that std::find has found, for queues in    *)
(* which nobody waits twice.                                               *)
(***************************************************************************)
EXTENDS SequencesExt, SequenceTheorems, TLAPS

Distinct(q) == \A i, j \in 1..Len(q) : q[i] = q[j] => i = j

-----------------------------------------------------------------------------
LEMMA EmptyFacts == \A S : <<>> \in Seq(S) /\ Distinct(<<>>) /\ ToSet(<<>>) = {}
BY EmptySeq DEF Distinct, ToSet

LEMMA MemberFacts ==
    ASSUME NEW S, NEW q \in Seq(S)
    PROVE  /\ ToSet(q) = {q[i] : i \in 1..Len(q)} /\ ToSet(q) \subseteq S
           /\ q # <<>> => q[1] \in ToSet(q)
BY DEF ToSet

LEMMA AppendFacts ==
    ASSUME NEW S, NEW q \in Seq(S), NEW t \in S
    PROVE  /\ Append(q, t) \in Seq(S)
           /\ ToSet(Append(q, t)) = ToSet(q) \cup {t}
           /\ Distinct(q) /\ t \notin ToSet(q) => Distinct(Append(q, t))
<1>1. /\ Append(q, t) \in Seq(S) /\ Len(Append(q, t)) = Len(q) + 1
      /\ \A i \in 1..Len(q) : Append(q, t)[i] = q[i]
      /\ Append(q, t)[Len(q) + 1] = t
      /\ Len(q) \in Nat
  BY SMT
<1>2. ToSet(Append(q, t)) = {Append(q, t)[i] : i \in 1..(Len(q) + 1)}
  BY <1>1, MemberFacts
<1>3. ToSet(q) = {q[i] : i \in 1..Len(q)}
  BY MemberFacts
<1>4. \A i \in 1..(Len(q) + 1) : i \in 1..Len(q) \/ i = Len(q) + 1
  BY <1>1
<1>5. \A i \in 1..Len(q) : i \in 1..(Len(q) + 1)
  BY <1>1
<1>6. Len(q) + 1 \in 1..(Len(q) + 1)
  BY <1>1
<1>7. ToSet(Append(q, t)) = ToSet(q) \cup {t}
  BY <1>1, <1>2, <1>3, <1>4, <1>5, <1>6
<1>8. Distinct(q) /\ t \notin ToSet(q) => Distinct(Append(q, t))
  BY <1>1, <1>3 DEF Distinct
<1> QED
  BY <1>1, <1>7, <1>8

LEMMA TailFacts ==
    ASSUME NEW S, NEW q \in Seq(S), q # <<>>, Distinct(q)
    PROVE  /\ Tail(q) \in Seq(S) /\ Distinct(Tail(q))
           /\ ToSet(Tail(q)) = ToSet(q) \ {q[1]}
<1>1. /\ Tail(q) \in Seq(S) /\ Len(Tail(q)) = Len(q) - 1 /\ Len(q) \in Nat
      /\ Len(q) # 0 /\ \A i \in 1..(Len(q) - 1) : Tail(q)[i] = q[i + 1]
  BY HeadTailProperties, EmptySeq
<1>2. Distinct(Tail(q))
  BY <1>1 DEF Distinct
<1>3. /\ ToSet(q) = {q[i] : i \in 1..Len(q)}
      /\ ToSet(Tail(q)) = {Tail(q)[i] : i \in 1..(Len(q) - 1)}
  BY <1>1, MemberFacts
<1>4. \A x \in ToSet(Tail(q)) : x \in ToSet(q) /\ x # q[1]
  BY <1>1, <1>3 DEF Distinct
<1>5. ASSUME NEW x \in ToSet(q), x # q[1] PROVE x \in ToSet(Tail(q))
  <2>1. PICK i \in 1..Len(q) : q[i] = x
    BY <1>3
  <2>2. i - 1 \in 1..(Len(q) - 1) /\ Tail(q)[i - 1] = x
    BY <1>1, <1>5, <2>1
  <2> QED
    BY <1>3, <2>2
<1> QED
  BY <1>1, <1>2, <1>4, <1>5

-----------------------------------------------------------------------------
LEMMA RemoveAtFacts ==
    ASSUME NEW S, NEW q \in Seq(S), NEW k \in 1..Len(q)
    PROVE  /\ RemoveAt(q, k) \in Seq(S)
           /\ Len(RemoveAt(q, k)) = Len(q) - 1
           /\ \A i \in 1..(Len(q) - 1) :
                 RemoveAt(q, k)[i] = IF i < k THEN q[i] ELSE q[i + 1]
<1> DEFINE a == SubSeq(q, 1, k-1)
           b == SubSeq(q, k+1, Len(q))
<1>1. k \in Nat /\ k >= 1 /\ Len(q) \in Nat /\ k <= Len(q)
  OBVIOUS
<1>2. a \in Seq(S) /\ Len(a) = k - 1 /\ \A i \in 1..(k-1) : a[i] = q[i]
  BY <1>1, SMT
<1>3. b \in Seq(S) /\ Len(b) = Len(q) - k /\ \A i \in 1..(Len(q) - k) : b[i] = q[k + i]
  BY <1>1, SMT
<1> HIDE DEF a, b
<1>4. /\ a \o b \in Seq(S) /\ Len(a \o b) = Len(a) + Len(b)
      /\ \A i \in 1..(Len(a) + Len(b)) :
            (a \o b)[i] = IF i <= Len(a) THEN a[i] ELSE b[i - Len(a)]
  BY <1>2, <1>3, ConcatProperties
<1>5. ASSUME NEW i \in 1..(Len(q) - 1)
      PROVE  (a \o b)[i] = IF i < k THEN q[i] ELSE q[i + 1]
  <2>1. CASE i < k
    BY <2>1, <1>1, <1>2, <1>3, <1>4
  <2>2. CASE ~(i < k)
    <3>1. i - (k - 1) \in 1..(Len(q) - k) /\ (a \o b)[i] = b[i - (k - 1)]
      BY <2>2, <1>1, <1>2, <1>3, <1>4
    <3>2. b[i - (k - 1)] = q[k + (i - (k - 1))]
      BY <3>1, <1>3
    <3> QED
      BY <2>2, <3>1, <3>2, <1>1
  <2> QED
    BY <2>1, <2>2
<1>6. RemoveAt(q, k) = a \o b
  BY DEF RemoveAt, a, b
<1>7. a \o b \in Seq(S) /\ Len(a \o b) = Len(q) - 1
  BY <1>1, <1>2, <1>3, <1>4
<1> QED
  BY <1>5, <1>6, <1>7

LEMMA RemoveFirstFacts ==
    ASSUME NEW S, NEW q \in Seq(S), NEW t, Distinct(q)
    PROVE  /\ RemoveFirst(q, t) \in Seq(S) /\ Distinct(RemoveFirst(q, t))
           /\ ToSet(RemoveFirst(q, t)) = ToSet(q) \ {t}
<1>1. CASE \A i \in 1..Len(q) : q[i] # t
  <2>1. RemoveFirst(q, t) = q
    BY <1>1 DEF RemoveFirst
  <2>2. t \notin ToSet(q)
    BY <1>1 DEF ToSet
  <2> QED
    BY <2>1, <2>2
<1>2. CASE \E i \in 1..Len(q) : q[i] = t
  <2>1. PICK k \in 1..Len(q) : q[k] = t
    BY <1>2
  <2> DEFINE r == RemoveAt(q, k)
  <2>2. {i \in 1..Len(q) : q[i] = t} = {k} /\ Min({k}) = k
    BY <2>1 DEF Distinct, Min
  <2>3. RemoveFirst(q, t) = r
    BY <1>2, <2>2 DEF RemoveFirst, SelectInSeq
  <2>4. /\ r \in Seq(S) /\ Len(r) = Len(q) - 1
        /\ \A i \in 1..(Len(q) - 1) : r[i] = IF i < k THEN q[i] ELSE q[i + 1]
    BY RemoveAtFacts
  <2> HIDE DEF r
  <2>5. Distinct(r)
    BY <2>4 DEF Distinct
  <2>6. \A x : x \in ToSet(r) => x \in ToSet(q) /\ x # t
    BY <2>1, <2>4 DEF ToSet, Distinct
  <2>7. ASSUME NEW x \in ToSet(q), x # t PROVE x \in ToSet(r)
    <3>1. PICK i \in 1..Len(q) : q[i] = x
      BY DEF ToSet
    <3>2. i < k \/ i > k
      BY <2>1, <2>7, <3>1
    <3>3. /\ (IF i < k THEN i ELSE i - 1) \in 1..Len(r)
          /\ r[IF i < k THEN i ELSE i - 1] = x
      BY <2>4, <3>1, <3>2
    <3> QED
      BY <3>3, <2>4 DEF ToSet
  <2> QED
    BY <2>3, <2>4, <2>5, <2>6, <2>7
<1> QED
  BY <1>1, <1>2
=============================================================================
