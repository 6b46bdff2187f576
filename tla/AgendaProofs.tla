---------------------------- MODULE AgendaProofs ----------------------------
(***************************************************************************)
(* Facts about the operators of Agenda that the proofs about components    *)
(* use: scheduling keeps the firing order, adds one event of its kind and  *)
(* leaves the others alone; firing removes the head's and, as the agenda   *)
(* is in order, leaves no event in the past.                               *)
(***************************************************************************)
EXTENDS Agenda, FiniteSetTheorems, SequenceTheorems, TLAPS

\* The sequences of events from the set S.
IsAgenda(agenda, S) ==
    /\ agenda \in Seq(S)
    /\ \A k \in 1 .. Len(agenda) :
          agenda[k].due \in Int /\ agenda[k].priority \in Int

\* The agenda is in firing order.
Ordered(agenda) ==
    \A j, k \in 1 .. Len(agenda) : j < k => NotAfter(agenda[j], agenda[k])

\* The number of elements of s in W.
Count(s, W) == Cardinality({k \in DOMAIN s : s[k] \in W})

\* t is s with e behind the first n elements.
IsInsertion(t, s, n, e) ==
    /\ Len(t) = Len(s) + 1
    /\ \A k \in 1 .. Len(s) + 1 :
          \/ k <= n /\ k \in 1 .. Len(s) /\ t[k] = s[k]
          \/ k = n + 1 /\ t[k] = e
          \/ k > n + 1 /\ k - 1 \in 1 .. Len(s) /\ t[k] = s[k - 1]

\* t has the elements of r and of s.
IsMerge(t, r, s) ==
    /\ Len(t) = Len(r) + Len(s)
    /\ \A k \in 1 .. Len(r) + Len(s) :
          \/ \E j \in 1 .. Len(r) : t[k] = r[j]
          \/ \E j \in 1 .. Len(s) : t[k] = s[j]

\* S is closed under the passing of time, and W is a kind of its events that
\* does not depend on when they are due.
Timeless(W, S) ==
    /\ \A e \in S : /\ {"due", "priority"} \subseteq DOMAIN e
                    /\ e.due \in Int /\ e.priority \in Int
    /\ \A e \in S, d \in Int :
          /\ [e EXCEPT !.due = d] \in S
          /\ [e EXCEPT !.due = d] \in W <=> e \in W

-----------------------------------------------------------------------------
(* Counting in sequences.                                                  *)

\* Renumbering positions one to one keeps their number.
LEMMA Renumbered ==
    ASSUME NEW S, IsFiniteSet(S), NEW f, f = [k \in S |-> f[k]],
           \A j, k \in S : f[j] = f[k] => j = k
    PROVE  /\ IsFiniteSet({f[k] : k \in S})
           /\ Cardinality({f[k] : k \in S}) = Cardinality(S)
<1> DEFINE T == {f[k] : k \in S}
<1>1. f \in Bijection(S, T)
  BY DEF Bijection, Injection, Surjection, IsInjective
<1>2. ExistsBijection(S, T)
  BY <1>1 DEF ExistsBijection
<1> QED
  BY <1>2, FS_Bijection

\* The parts of a concatenation are found in their places.
LEMMA ConcatFacts ==
    ASSUME NEW S, NEW p \in Seq(S), NEW q \in Seq(S)
    PROVE  /\ p \o q \in Seq(S) /\ Len(p \o q) = Len(p) + Len(q)
           /\ \A k \in 1 .. Len(p) + Len(q) :
                 (p \o q)[k] = IF k <= Len(p) THEN p[k] ELSE q[k - Len(p)]
BY ConcatProperties

LEMMA CountFacts ==
    ASSUME NEW S, NEW s \in Seq(S), NEW W
    PROVE  /\ IsFiniteSet({k \in DOMAIN s : s[k] \in W})
           /\ Count(s, W) \in Nat
           /\ Count(s, W) = 0 <=> \A k \in DOMAIN s : s[k] \notin W
<1>1. DOMAIN s = 1 .. Len(s) /\ Len(s) \in Nat
  OBVIOUS
<1>2. IsFiniteSet(1 .. Len(s))
  BY <1>1, FS_Interval
<1>3. IsFiniteSet({k \in DOMAIN s : s[k] \in W})
  BY <1>1, <1>2, FS_Subset
<1>4. Count(s, W) \in Nat
  BY <1>3, FS_CardinalityType DEF Count
<1>5. Count(s, W) = 0 <=> {k \in DOMAIN s : s[k] \in W} = {}
  BY <1>3, FS_EmptySet DEF Count
<1> QED
  BY <1>3, <1>4, <1>5

\* Appending an element counts it.
LEMMA CountAppend ==
    ASSUME NEW S, NEW s \in Seq(S), NEW e \in S, NEW W
    PROVE  Count(Append(s, e), W) = Count(s, W) + (IF e \in W THEN 1 ELSE 0)
<1> DEFINE A == {k \in DOMAIN s : s[k] \in W}
           t == Append(s, e)
           B == {k \in DOMAIN t : t[k] \in W}
<1>1. /\ Len(s) \in Nat /\ DOMAIN s = 1 .. Len(s) /\ DOMAIN t = 1 .. Len(s) + 1
      /\ \A k \in 1 .. Len(s) : t[k] = s[k]
      /\ t[Len(s) + 1] = e
  OBVIOUS
<1>2. B = IF e \in W THEN A \cup {Len(s) + 1} ELSE A
  BY <1>1
<1>3. IsFiniteSet(A) /\ Cardinality(A) \in Nat /\ Len(s) + 1 \notin A
  BY <1>1, CountFacts, SMTT(30) DEF Count
<1>4. Cardinality(A \cup {Len(s) + 1}) = Cardinality(A) + 1
  BY <1>3, FS_AddElement
<1>5. Count(s, W) = Cardinality(A) /\ Count(t, W) = Cardinality(B)
  BY DEF Count
<1> HIDE DEF A, B, t
<1>6. CASE e \in W
  BY <1>2, <1>3, <1>4, <1>5, <1>6 DEF t
<1>7. CASE e \notin W
  BY <1>2, <1>3, <1>5, <1>7 DEF t
<1> QED
  BY <1>6, <1>7

\* Without its last element a sequence counts one less of its kind.
LEMMA CountFront ==
    ASSUME NEW S, NEW s \in Seq(S), s # <<>>, NEW W
    PROVE  Count(SubSeq(s, 1, Len(s) - 1), W)
             = Count(s, W) - (IF s[Len(s)] \in W THEN 1 ELSE 0)
<1> DEFINE t == SubSeq(s, 1, Len(s) - 1)
<1>1. t \in Seq(S) /\ s[Len(s)] \in S /\ s = Append(t, s[Len(s)])
  OBVIOUS
<1> HIDE DEF t
<1>2. Count(Append(t, s[Len(s)]), W)
        = Count(t, W) + (IF s[Len(s)] \in W THEN 1 ELSE 0)
  BY <1>1, CountAppend
<1>3. Count(t, W) \in Nat /\ Count(s, W) \in Nat
  BY <1>1, CountFacts
<1>4. Count(t, W) = Count(s, W) - (IF s[Len(s)] \in W THEN 1 ELSE 0)
  <2>1. Count(Append(t, s[Len(s)]), W) = Count(s, W)
    BY <1>1
  <2>2. CASE s[Len(s)] \in W
    BY <1>2, <1>3, <2>1, <2>2
  <2>3. CASE s[Len(s)] \notin W
    BY <1>2, <1>3, <2>1, <2>3
  <2> QED
    BY <2>2, <2>3
<1> QED
  BY <1>4 DEF t

\* Without its head a sequence counts one less of its kind.
LEMMA CountTail ==
    ASSUME NEW S, NEW s \in Seq(S), s # <<>>, NEW W
    PROVE  Count(Tail(s), W) = Count(s, W) - (IF Head(s) \in W THEN 1 ELSE 0)
<1> DEFINE t == Tail(s)
           A == {k \in DOMAIN s : s[k] \in W}
           B == {k \in DOMAIN t : t[k] \in W}
           f == [k \in B |-> k + 1]
           C == {f[k] : k \in B}
<1>1. /\ Len(s) \in Nat /\ Len(s) > 0
      /\ t \in Seq(S) /\ Len(t) = Len(s) - 1 /\ DOMAIN t = 1 .. Len(s) - 1
      /\ DOMAIN s = 1 .. Len(s)
      /\ \A k \in 1 .. Len(s) - 1 : t[k] = s[k + 1]
      /\ Head(s) = s[1]
  OBVIOUS
<1>2. IsFiniteSet(A) /\ IsFiniteSet(B) /\ Count(t, W) \in Nat
  BY <1>1, CountFacts
<1>3. f = [k \in B |-> f[k]] /\ \A j, k \in B : f[j] = f[k] => j = k
  BY <1>1
<1>4. IsFiniteSet(C) /\ Cardinality(C) = Cardinality(B)
  <2> HIDE DEF f, B
  <2> QED
    BY <1>2, <1>3, Renumbered
<1>0. C = {k + 1 : k \in B}
  OBVIOUS
<1> HIDE DEF C
<1>5. A = IF Head(s) \in W THEN C \cup {1} ELSE C
  <2>1. ASSUME NEW k \in A PROVE k \in C \/ (k = 1 /\ Head(s) \in W)
    <3>1. k \in 1 .. Len(s) /\ s[k] \in W
      BY <1>1
    <3>2. CASE k > 1
      <4>1. k - 1 \in B /\ (k - 1) + 1 = k
        BY <1>1, <3>1, <3>2
      <4> HIDE DEF B
      <4> QED
        BY <1>0, <4>1
    <3> QED
      BY <1>1, <3>1, <3>2
  <2>2. ASSUME NEW k \in C PROVE k \in A
    BY <1>0, <1>1, <2>2
  <2>3. Head(s) \in W => 1 \in A
    BY <1>1
  <2>4. Head(s) \notin W => 1 \notin A
    BY <1>1
  <2> QED
    BY <2>1, <2>2, <2>3, <2>4
<1>6. 1 \notin C
  BY <1>0, <1>1
<1>7. Cardinality(C \cup {1}) = Cardinality(C) + 1
  BY <1>4, <1>6, FS_AddElement
<1>8. Cardinality(B) \in Nat
  BY <1>2 DEF Count
<1>9. Count(s, W) = Cardinality(A) /\ Count(t, W) = Cardinality(B)
  BY DEF Count
<1> HIDE DEF A, B, C, t
<1>10. CASE Head(s) \in W
  BY <1>4, <1>5, <1>7, <1>8, <1>9, <1>10 DEF t
<1>11. CASE Head(s) \notin W
  BY <1>4, <1>5, <1>8, <1>9, <1>11 DEF t
<1> QED
  BY <1>10, <1>11

\* The counts of two sequences add up.
LEMMA CountConcat ==
    ASSUME NEW S, NEW s \in Seq(S), NEW t \in Seq(S), NEW W
    PROVE  Count(s \o t, W) = Count(s, W) + Count(t, W)
<1> DEFINE u == s \o t
           A == {k \in DOMAIN s : s[k] \in W}
           B == {k \in DOMAIN t : t[k] \in W}
           f == [k \in B |-> Len(s) + k]
           C == {f[k] : k \in B}
           D == {k \in DOMAIN u : u[k] \in W}
<1>1. /\ Len(s) \in Nat /\ Len(t) \in Nat
      /\ DOMAIN s = 1 .. Len(s) /\ DOMAIN t = 1 .. Len(t)
      /\ u \in Seq(S) /\ Len(u) = Len(s) + Len(t)
      /\ \A k \in 1 .. Len(s) + Len(t) :
            u[k] = IF k <= Len(s) THEN s[k] ELSE t[k - Len(s)]
  BY ConcatProperties
<1> HIDE DEF u
<1>2. DOMAIN u = 1 .. Len(s) + Len(t)
  BY <1>1
<1>3. IsFiniteSet(A) /\ IsFiniteSet(B) /\ Count(s, W) \in Nat /\ Count(t, W) \in Nat
  BY CountFacts
<1>4. f = [k \in B |-> f[k]] /\ \A j, k \in B : f[j] = f[k] => j = k
  BY <1>1
<1>5. IsFiniteSet(C) /\ Cardinality(C) = Cardinality(B)
  <2> HIDE DEF f, B
  <2> QED
    BY <1>3, <1>4, Renumbered
<1>6. C = {Len(s) + k : k \in B}
  OBVIOUS
<1> HIDE DEF C
<1>7. A \cap C = {}
  BY <1>1, <1>6
<1>8. D = A \cup C
  <2>1. ASSUME NEW k \in D PROVE k \in A \/ k \in C
    <3>1. k \in 1 .. Len(s) + Len(t) /\ u[k] \in W
      BY <1>2
    <3>2. CASE k <= Len(s)
      BY <1>1, <3>1, <3>2
    <3>3. CASE k > Len(s)
      <4>1. k - Len(s) \in B /\ Len(s) + (k - Len(s)) = k
        BY <1>1, <3>1, <3>3
      <4> HIDE DEF B
      <4> QED
        BY <1>6, <4>1
    <3> QED
      BY <1>1, <3>1, <3>2, <3>3
  <2>2. ASSUME NEW k \in A PROVE k \in D
    BY <1>1, <1>2
  <2>3. ASSUME NEW k \in C PROVE k \in D
    <3>1. PICK j \in B : k = Len(s) + j
      BY <1>6
    <3>2. j \in 1 .. Len(t) /\ t[j] \in W
      BY <1>1
    <3>3. k \in 1 .. Len(s) + Len(t) /\ ~(k <= Len(s)) /\ k - Len(s) = j
      BY <1>1, <3>1, <3>2
    <3> QED
      BY <1>1, <1>2, <3>2, <3>3
  <2> QED
    BY <2>1, <2>2, <2>3
<1>9. Cardinality(A \cup C) = Cardinality(A) + Cardinality(C) - Cardinality(A \cap C)
  BY <1>3, <1>5, FS_Union
<1>10. Cardinality(A \cap C) = 0
  BY <1>7, FS_EmptySet
<1>11. Count(s, W) = Cardinality(A) /\ Count(t, W) = Cardinality(B)
       /\ Count(u, W) = Cardinality(D)
  BY DEF Count
<1> HIDE DEF A, B, D
<1> QED
  BY <1>3, <1>5, <1>8, <1>9, <1>10, <1>11 DEF u

\* The two parts of a sequence.
LEMMA PartFacts ==
    ASSUME NEW S, NEW s \in Seq(S), NEW n \in 0 .. Len(s)
    PROVE  /\ SubSeq(s, 1, n) \in Seq(S) /\ Len(SubSeq(s, 1, n)) = n
           /\ \A k \in 1 .. n : SubSeq(s, 1, n)[k] = s[k]
           /\ SubSeq(s, n + 1, Len(s)) \in Seq(S)
           /\ Len(SubSeq(s, n + 1, Len(s))) = Len(s) - n
           /\ \A k \in 1 .. Len(s) - n : SubSeq(s, n + 1, Len(s))[k] = s[n + k]
           /\ SubSeq(s, 1, n) \o SubSeq(s, n + 1, Len(s)) = s
<1> DEFINE p == SubSeq(s, 1, n)
           q == SubSeq(s, n + 1, Len(s))
<1>1. Len(s) \in Nat /\ n \in Nat /\ n <= Len(s)
  OBVIOUS
<1>2. /\ p \in Seq(S) /\ Len(p) = n
      /\ \A k \in 1 .. n : p[k] = s[k]
  BY <1>1
<1>3. /\ q \in Seq(S) /\ Len(q) = Len(s) - n
      /\ \A k \in 1 .. Len(s) - n : q[k] = s[n + k]
  BY <1>1
<1> HIDE DEF p, q
<1>4. /\ p \o q \in Seq(S) /\ Len(p \o q) = Len(s)
      /\ \A k \in 1 .. Len(p) + Len(q) :
            (p \o q)[k] = IF k <= Len(p) THEN p[k] ELSE q[k - Len(p)]
  BY <1>1, <1>2, <1>3, ConcatProperties
<1> DEFINE u == p \o q
<1>5. ASSUME NEW k \in 1 .. Len(s) PROVE u[k] = s[k]
  <2>1. CASE k <= n
    BY <1>1, <1>2, <1>3, <1>4, <2>1
  <2>2. CASE k > n
    <3>1. u[k] = q[k - n]
      BY <1>1, <1>2, <1>3, <1>4, <2>2
    <3>2. k - n \in 1 .. Len(s) - n /\ n + (k - n) = k
      BY <1>1, <2>2
    <3> QED
      BY <1>3, <3>1, <3>2
  <2>3. k <= n \/ k > n
    BY <1>1
  <2> QED
    BY <2>1, <2>2, <2>3
<1>6. u \in Seq(S) /\ Len(u) = Len(s)
  BY <1>4
<1> HIDE DEF u
<1>7. u = s
  BY <1>5, <1>6
<1> QED
  BY <1>2, <1>3, <1>7 DEF p, q, u

LEMMA CountParts ==
    ASSUME NEW S, NEW s \in Seq(S), NEW n \in 0 .. Len(s), NEW W
    PROVE  Count(s, W)
             = Count(SubSeq(s, 1, n), W) + Count(SubSeq(s, n + 1, Len(s)), W)
<1> DEFINE p == SubSeq(s, 1, n)
           q == SubSeq(s, n + 1, Len(s))
<1>1. p \in Seq(S) /\ q \in Seq(S) /\ p \o q = s
  BY PartFacts
<1> HIDE DEF p, q
<1>2. Count(p \o q, W) = Count(p, W) + Count(q, W)
  BY <1>1, CountConcat
<1> QED
  BY <1>1, <1>2 DEF p, q

-----------------------------------------------------------------------------
(* Scheduling.                                                             *)

\* Inserting an element behind the first n.
LEMMA InsertAtFacts ==
    ASSUME NEW S, NEW s \in Seq(S), NEW n \in 0 .. Len(s), NEW e \in S
    PROVE  /\ InsertAt(s, n + 1, e) \in Seq(S)
           /\ IsInsertion(InsertAt(s, n + 1, e), s, n, e)
<1> DEFINE p == SubSeq(s, 1, n)
           q == SubSeq(s, n + 1, Len(s))
<1>1. Len(s) \in Nat /\ n \in Nat /\ n <= Len(s)
  OBVIOUS
<1>2. /\ p \in Seq(S) /\ Len(p) = n
      /\ \A k \in 1 .. n : p[k] = s[k]
  BY <1>1
<1>3. /\ q \in Seq(S) /\ Len(q) = Len(s) - n
      /\ \A k \in 1 .. Len(s) - n : q[k] = s[n + k]
  BY <1>1
<1>4. InsertAt(s, n + 1, e) = (p \o <<e>>) \o q
  <2>1. (n + 1) - 1 = n
    BY <1>1
  <2> QED
    BY <2>1 DEF InsertAt
<1> HIDE DEF p, q
<1> DEFINE pe == p \o <<e>>
<1>5. /\ pe \in Seq(S) /\ Len(pe) = n + 1
      /\ \A k \in 1 .. n : pe[k] = s[k]
      /\ pe[n + 1] = e
  <2> DEFINE x == <<e>>
  <2>1. x \in Seq(S) /\ Len(x) = 1 /\ x[1] = e
    OBVIOUS
  <2> HIDE DEF x
  <2>2. pe = p \o x
    BY DEF x
  <2>3. /\ p \o x \in Seq(S) /\ Len(p \o x) = Len(p) + Len(x)
        /\ \A k \in 1 .. Len(p) + Len(x) :
              (p \o x)[k] = IF k <= Len(p) THEN p[k] ELSE x[k - Len(p)]
    BY <1>2, <2>1, ConcatProperties
  <2> HIDE DEF pe
  <2>4. ASSUME NEW k \in 1 .. n PROVE pe[k] = s[k]
    BY <1>1, <1>2, <2>1, <2>2, <2>3
  <2>5. pe[n + 1] = x[1]
    BY <1>1, <1>2, <2>1, <2>2, <2>3
  <2>6. Len(pe) = n + 1
    BY <1>2, <2>1, <2>2, <2>3
  <2> QED
    BY <2>1, <2>2, <2>3, <2>4, <2>5, <2>6
<1>9. InsertAt(s, n + 1, e) = pe \o q
  BY <1>4
<1> HIDE DEF pe
<1>6. /\ pe \o q \in Seq(S)
      /\ Len(pe \o q) = Len(pe) + Len(q)
      /\ \A k \in 1 .. Len(pe) + Len(q) :
            (pe \o q)[k] = IF k <= Len(pe) THEN pe[k] ELSE q[k - Len(pe)]
  BY <1>3, <1>5, ConcatProperties
<1>7. Len(pe) + Len(q) = Len(s) + 1
  BY <1>1, <1>3, <1>5
<1> DEFINE t == pe \o q
<1>8. t \in Seq(S) /\ Len(t) = Len(s) + 1
  BY <1>6, <1>7
<1>10. ASSUME NEW k \in 1 .. Len(s) + 1
       PROVE  \/ k <= n /\ k \in 1 .. Len(s) /\ t[k] = s[k]
              \/ k = n + 1 /\ t[k] = e
              \/ k > n + 1 /\ k - 1 \in 1 .. Len(s) /\ t[k] = s[k - 1]
  <2>1. CASE k <= n
    BY <1>1, <1>5, <1>6, <1>7, <2>1
  <2>2. CASE k = n + 1
    BY <1>1, <1>5, <1>6, <1>7, <2>2
  <2>3. CASE k > n + 1
    <3>1. (pe \o q)[k] = q[k - (n + 1)]
      BY <1>1, <1>5, <1>6, <1>7, <2>3
    <3>2. k - (n + 1) \in 1 .. Len(s) - n /\ n + (k - (n + 1)) = k - 1
      BY <1>1, <2>3
    <3>3. k - 1 \in 1 .. Len(s)
      BY <1>1, <2>3
    <3> QED
      BY <1>3, <2>3, <3>1, <3>2, <3>3
  <2>4. k <= n \/ k = n + 1 \/ k > n + 1
    BY <1>1
  <2> QED
    BY <2>1, <2>2, <2>3, <2>4
<1> HIDE DEF t
<1>11. IsInsertion(t, s, n, e)
  BY <1>8, <1>10 DEF IsInsertion
<1> QED
  BY <1>8, <1>9, <1>11 DEF t

\* Inserting an element counts it, wherever it is put.
LEMMA CountInsertAt ==
    ASSUME NEW S, NEW s \in Seq(S), NEW n \in 0 .. Len(s), NEW e \in S, NEW W
    PROVE  Count(InsertAt(s, n + 1, e), W)
             = Count(s, W) + (IF e \in W THEN 1 ELSE 0)
<1> DEFINE t == InsertAt(s, n + 1, e)
           A == {k \in DOMAIN s : s[k] \in W}
           B == {k \in DOMAIN t : t[k] \in W}
           f == [k \in A |-> IF k <= n THEN k ELSE k + 1]
           C == {f[k] : k \in A}
<1>1. /\ Len(s) \in Nat /\ n \in Nat /\ n <= Len(s)
      /\ DOMAIN s = 1 .. Len(s)
  OBVIOUS
<1>2. /\ t \in Seq(S) /\ Len(t) = Len(s) + 1
      /\ \A k \in 1 .. Len(s) + 1 :
            \/ k <= n /\ k \in 1 .. Len(s) /\ t[k] = s[k]
            \/ k = n + 1 /\ t[k] = e
            \/ k > n + 1 /\ k - 1 \in 1 .. Len(s) /\ t[k] = s[k - 1]
  BY InsertAtFacts DEF IsInsertion
<1> HIDE DEF t
<1>3. DOMAIN t = 1 .. Len(s) + 1
  BY <1>1, <1>2
<1>4. IsFiniteSet(A) /\ Cardinality(A) \in Nat
  BY CountFacts DEF Count
<1>5. f = [k \in A |-> f[k]] /\ \A j, k \in A : f[j] = f[k] => j = k
  BY <1>1
<1>6. IsFiniteSet(C) /\ Cardinality(C) = Cardinality(A)
  <2> HIDE DEF A, f
  <2> QED
    BY <1>4, <1>5, Renumbered
<1>7. C = {IF k <= n THEN k ELSE k + 1 : k \in A}
  OBVIOUS
<1> HIDE DEF C
<1>8. n + 1 \notin C
  BY <1>1, <1>7
<1>9. B = IF e \in W THEN C \cup {n + 1} ELSE C
  <2>1. ASSUME NEW k \in B PROVE k \in C \/ (k = n + 1 /\ e \in W)
    <3>1. k \in 1 .. Len(s) + 1 /\ t[k] \in W
      BY <1>3
    <3>2. CASE k <= n
      <4>1. k \in A
        BY <1>1, <1>2, <3>1, <3>2
      <4> HIDE DEF A
      <4> QED
        BY <1>7, <3>2, <4>1
    <3>3. CASE k = n + 1
      BY <1>1, <1>2, <3>1, <3>3
    <3>4. CASE k > n + 1
      <4>1. k - 1 \in A /\ (k - 1) + 1 = k /\ ~(k - 1 <= n)
        BY <1>1, <1>2, <3>1, <3>4
      <4> HIDE DEF A
      <4> QED
        BY <1>7, <4>1
    <3> QED
      BY <1>1, <3>1, <3>2, <3>3, <3>4
  <2>2. ASSUME NEW k \in C PROVE k \in B
    <3>1. PICK j \in A : k = IF j <= n THEN j ELSE j + 1
      BY <1>7, <2>2
    <3>2. j \in 1 .. Len(s) /\ s[j] \in W
      BY <1>1
    <3>3. CASE j <= n
      BY <1>1, <1>2, <1>3, <3>1, <3>2, <3>3
    <3>4. CASE ~(j <= n)
      <4>1. k = j + 1 /\ k \in 1 .. Len(s) + 1 /\ ~(k <= n) /\ k # n + 1
            /\ k - 1 = j
        BY <1>1, <3>1, <3>2, <3>4
      <4> QED
        BY <1>2, <1>3, <3>2, <4>1
    <3> QED
      BY <3>3, <3>4
  <2>3. n + 1 \in DOMAIN t /\ t[n + 1] = e
    BY <1>1, <1>2, <1>3
  <2> QED
    BY <2>1, <2>2, <2>3
<1>10. Cardinality(C \cup {n + 1}) = Cardinality(C) + 1
  BY <1>6, <1>8, FS_AddElement
<1>11. Count(s, W) = Cardinality(A) /\ Count(t, W) = Cardinality(B)
  BY DEF Count
<1> HIDE DEF A, B
<1>12. CASE e \in W
  BY <1>4, <1>6, <1>9, <1>10, <1>11, <1>12 DEF t
<1>13. CASE e \notin W
  BY <1>4, <1>6, <1>9, <1>11, <1>13 DEF t
<1> QED
  BY <1>12, <1>13

\* The events that run before a new one are the first ones of the agenda.
LEMMA AheadFacts ==
    ASSUME NEW S, NEW agenda, IsAgenda(agenda, S), Ordered(agenda),
           NEW e, e.due \in Int, e.priority \in Int
    PROVE  \E n \in 0 .. Len(agenda) :
              /\ n = Cardinality({k \in DOMAIN agenda : NotAfter(agenda[k], e)})
              /\ \A k \in 1 .. n : NotAfter(agenda[k], e)
              /\ \A k \in n + 1 .. Len(agenda) : ~NotAfter(agenda[k], e)
<1> DEFINE ahead == {k \in DOMAIN agenda : NotAfter(agenda[k], e)}
           n == Cardinality(ahead)
<1>1. /\ Len(agenda) \in Nat /\ DOMAIN agenda = 1 .. Len(agenda)
      /\ \A k \in 1 .. Len(agenda) :
            agenda[k].due \in Int /\ agenda[k].priority \in Int
  BY DEF IsAgenda
<1>2. IsFiniteSet(1 .. Len(agenda)) /\ Cardinality(1 .. Len(agenda)) = Len(agenda)
  BY <1>1, FS_Interval, SMTT(30)
<1>3. IsFiniteSet(ahead) /\ n \in Nat /\ n <= Len(agenda)
  BY <1>1, <1>2, FS_Subset, FS_CardinalityType
<1>4. ASSUME NEW k \in ahead, NEW j \in 1 .. k
      PROVE  j \in ahead
  <2>1. k \in 1 .. Len(agenda) /\ j \in 1 .. Len(agenda) /\ NotAfter(agenda[k], e)
    BY <1>1
  <2>2. CASE j = k
    BY <2>2
  <2>3. CASE j # k
    <3>1. NotAfter(agenda[j], agenda[k])
      BY <2>1, <2>3 DEF Ordered
    <3>2. NotAfter(agenda[j], e)
      BY <1>1, <2>1, <3>1 DEF NotAfter
    <3> QED
      BY <1>1, <2>1, <3>2
  <2> QED
    BY <2>2, <2>3
<1>5. ahead \subseteq 1 .. Len(agenda)
  BY <1>1
<1>6. n = Cardinality({k \in DOMAIN agenda : NotAfter(agenda[k], e)})
  OBVIOUS
<1>7. \A k \in 1 .. Len(agenda) : k \in ahead <=> NotAfter(agenda[k], e)
  BY <1>1
<1> HIDE DEF ahead
<1>8. ASSUME NEW k \in ahead PROVE k <= n
  <2>1. k \in Nat /\ k > 0 /\ 1 .. k \subseteq ahead
    BY <1>1, <1>4, <1>5
  <2>2. IsFiniteSet(1 .. k) /\ Cardinality(1 .. k) = k
    BY <2>1, FS_Interval
  <2> QED
    BY <1>3, <2>1, <2>2, FS_Subset
<1>9. ASSUME NEW k \in 1 .. Len(agenda), k \notin ahead PROVE n < k
  <2>1. ahead \subseteq 1 .. k - 1
    BY <1>1, <1>4, <1>5, <1>9
  <2>0. k - 1 \in Nat /\ (k - 1) - 1 + 1 = k - 1
    BY <1>1
  <2>2. k - 1 \in Nat /\ IsFiniteSet(1 .. k - 1) /\ Cardinality(1 .. k - 1) = k - 1
    <3> DEFINE m == k - 1
    <3>1. m \in Nat
      BY <2>0
    <3> HIDE DEF m
    <3>2. IsFiniteSet(1 .. m) /\ Cardinality(1 .. m) = m
      BY <3>1, FS_Interval
    <3> QED
      BY <3>1, <3>2 DEF m
  <2>3. n <= k - 1
    BY <2>1, <2>2, FS_Subset
  <2> QED
    BY <1>1, <1>3, <2>3
<1> HIDE DEF n
<1>10. n \in 0 .. Len(agenda)
  BY <1>1, <1>3
<1>11. \A k \in 1 .. n : NotAfter(agenda[k], e)
  BY <1>1, <1>3, <1>7, <1>9
<1>12. \A k \in n + 1 .. Len(agenda) : ~NotAfter(agenda[k], e)
  BY <1>1, <1>3, <1>7, <1>8
<1> QED
  BY <1>6, <1>10, <1>11, <1>12

LEMMA InsertedFacts ==
    ASSUME NEW S, NEW agenda, IsAgenda(agenda, S), Ordered(agenda),
           NEW e \in S, e.due \in Int, e.priority \in Int
    PROVE  \E n \in 0 .. Len(agenda) :
              /\ Inserted(agenda, e) \in Seq(S)
              /\ IsInsertion(Inserted(agenda, e), agenda, n, e)
              /\ Inserted(agenda, e) = InsertAt(agenda, n + 1, e)
              /\ \A k \in 1 .. n : NotAfter(agenda[k], e)
              /\ \A k \in n + 1 .. Len(agenda) : ~NotAfter(agenda[k], e)
<1>1. PICK n \in 0 .. Len(agenda) :
          /\ n = Cardinality({k \in DOMAIN agenda : NotAfter(agenda[k], e)})
          /\ \A k \in 1 .. n : NotAfter(agenda[k], e)
          /\ \A k \in n + 1 .. Len(agenda) : ~NotAfter(agenda[k], e)
  BY AheadFacts
<1>2. Inserted(agenda, e) = InsertAt(agenda, n + 1, e)
  BY <1>1 DEF Inserted
<1>3. agenda \in Seq(S)
  BY DEF IsAgenda
<1>4. /\ InsertAt(agenda, n + 1, e) \in Seq(S)
      /\ IsInsertion(InsertAt(agenda, n + 1, e), agenda, n, e)
  BY <1>3, InsertAtFacts
<1> QED
  BY <1>1, <1>2, <1>4

\* Scheduling keeps the firing order.
LEMMA InsertedOrdered ==
    ASSUME NEW S, NEW agenda, IsAgenda(agenda, S), Ordered(agenda),
           NEW e \in S, e.due \in Int, e.priority \in Int
    PROVE  IsAgenda(Inserted(agenda, e), S) /\ Ordered(Inserted(agenda, e))
<1> DEFINE t == Inserted(agenda, e)
<1>1. PICK n \in 0 .. Len(agenda) :
          /\ t \in Seq(S)
          /\ IsInsertion(t, agenda, n, e)
          /\ \A k \in 1 .. n : NotAfter(agenda[k], e)
          /\ \A k \in n + 1 .. Len(agenda) : ~NotAfter(agenda[k], e)
  BY InsertedFacts
<1>2. /\ agenda \in Seq(S) /\ Len(agenda) \in Nat
      /\ \A k \in 1 .. Len(agenda) :
            agenda[k].due \in Int /\ agenda[k].priority \in Int
  BY DEF IsAgenda
<1> HIDE DEF t
<1>3. t \in Seq(S) /\ Len(t) = Len(agenda) + 1
  BY <1>1 DEF IsInsertion
<1>4. ASSUME NEW k \in 1 .. Len(agenda) + 1
      PROVE  \/ k <= n /\ k \in 1 .. Len(agenda) /\ t[k] = agenda[k]
             \/ k = n + 1 /\ t[k] = e
             \/ /\ k > n + 1 /\ k - 1 \in n + 1 .. Len(agenda)
                /\ k - 1 \in 1 .. Len(agenda) /\ t[k] = agenda[k - 1]
  BY <1>1, <1>2 DEF IsInsertion
<1>5. \A k \in 1 .. Len(t) : t[k].due \in Int /\ t[k].priority \in Int
  BY <1>2, <1>3, <1>4
<1>6. ASSUME NEW k \in n + 1 .. Len(agenda) PROVE NotAfter(e, agenda[k])
  <2>1. k \in 1 .. Len(agenda) /\ ~NotAfter(agenda[k], e)
    BY <1>1
  <2> QED
    BY <1>2, <2>1 DEF NotAfter
<1>7. ASSUME NEW j \in 1 .. Len(agenda) + 1, NEW k \in 1 .. Len(agenda) + 1, j < k
      PROVE  NotAfter(t[j], t[k])
  <2>1. CASE k <= n
    BY <1>2, <1>4, <1>7, <2>1 DEF Ordered
  <2>2. CASE k = n + 1
    <3>1. j \in 1 .. n /\ t[j] = agenda[j] /\ t[k] = e
      BY <1>4, <1>7, <2>2
    <3> QED
      BY <1>1, <3>1
  <2>3. CASE k > n + 1 /\ j = n + 1
    <3>1. k - 1 \in n + 1 .. Len(agenda) /\ t[k] = agenda[k - 1] /\ t[j] = e
      BY <1>4, <2>3
    <3> QED
      BY <1>6, <3>1
  <2>4. CASE k > n + 1 /\ j <= n
    <3>1. /\ j \in 1 .. Len(agenda) /\ k - 1 \in 1 .. Len(agenda) /\ j < k - 1
          /\ t[j] = agenda[j] /\ t[k] = agenda[k - 1]
      BY <1>4, <1>7, <2>4
    <3> QED
      BY <3>1 DEF Ordered
  <2>5. CASE k > n + 1 /\ j > n + 1
    <3>1. /\ j - 1 \in 1 .. Len(agenda) /\ k - 1 \in 1 .. Len(agenda)
          /\ j - 1 < k - 1 /\ t[j] = agenda[j - 1] /\ t[k] = agenda[k - 1]
      BY <1>4, <1>7, <2>5
    <3> QED
      BY <3>1 DEF Ordered
  <2>6. \/ k <= n
        \/ k = n + 1
        \/ k > n + 1 /\ j = n + 1
        \/ k > n + 1 /\ j <= n
        \/ k > n + 1 /\ j > n + 1
    BY <1>2
  <2> QED
    BY <2>1, <2>2, <2>3, <2>4, <2>5, <2>6
<1> QED
  BY <1>3, <1>5, <1>7 DEF IsAgenda, Ordered, t

\* Scheduling counts the new event.
LEMMA CountInserted ==
    ASSUME NEW S, NEW agenda, IsAgenda(agenda, S), Ordered(agenda),
           NEW e \in S, e.due \in Int, e.priority \in Int, NEW W
    PROVE  Count(Inserted(agenda, e), W)
             = Count(agenda, W) + (IF e \in W THEN 1 ELSE 0)
<1>1. PICK n \in 0 .. Len(agenda) : Inserted(agenda, e) = InsertAt(agenda, n + 1, e)
  BY InsertedFacts
<1>2. agenda \in Seq(S)
  BY DEF IsAgenda
<1> QED
  BY <1>1, <1>2, CountInsertAt

\* Scheduling a batch of equals keeps the firing order and counts the batch.
LEMMA InsertedAllFacts ==
    ASSUME NEW S, NEW agenda, IsAgenda(agenda, S), Ordered(agenda),
           NEW e, e.due \in Int, e.priority \in Int,
           NEW es \in Seq(S),
           \A k \in 1 .. Len(es) : es[k].due = e.due /\ es[k].priority = e.priority
    PROVE  /\ IsAgenda(InsertedAll(agenda, e, es), S)
           /\ Ordered(InsertedAll(agenda, e, es))
           /\ \A W : Count(InsertedAll(agenda, e, es), W)
                        = Count(agenda, W) + Count(es, W)
           /\ IsMerge(InsertedAll(agenda, e, es), agenda, es)
<1>1. PICK n \in 0 .. Len(agenda) :
          /\ n = Cardinality({k \in DOMAIN agenda : NotAfter(agenda[k], e)})
          /\ \A k \in 1 .. n : NotAfter(agenda[k], e)
          /\ \A k \in n + 1 .. Len(agenda) : ~NotAfter(agenda[k], e)
  BY AheadFacts
<1> DEFINE p == SubSeq(agenda, 1, n)
           q == SubSeq(agenda, n + 1, Len(agenda))
           t == (p \o es) \o q
<1>2. InsertedAll(agenda, e, es) = t
  BY <1>1 DEF InsertedAll
<1>3. /\ agenda \in Seq(S) /\ Len(agenda) \in Nat /\ Len(es) \in Nat
      /\ n \in Nat /\ n <= Len(agenda)
      /\ \A k \in 1 .. Len(agenda) :
            agenda[k].due \in Int /\ agenda[k].priority \in Int
  BY DEF IsAgenda
<1>4. /\ p \in Seq(S) /\ Len(p) = n
      /\ \A k \in 1 .. n : p[k] = agenda[k]
      /\ q \in Seq(S) /\ Len(q) = Len(agenda) - n
      /\ \A k \in 1 .. Len(agenda) - n : q[k] = agenda[n + k]
      /\ \A W : Count(agenda, W) = Count(p, W) + Count(q, W)
  BY <1>3, PartFacts, CountParts
<1> HIDE DEF p, q
<1> DEFINE pe == p \o es
<1>5. /\ pe \in Seq(S) /\ Len(pe) = n + Len(es)
      /\ \A k \in 1 .. n : pe[k] = agenda[k]
      /\ \A k \in 1 .. Len(es) : pe[n + k] = es[k]
      /\ \A W : Count(pe, W) = Count(p, W) + Count(es, W)
  <2>1. /\ pe \in Seq(S) /\ Len(pe) = Len(p) + Len(es)
        /\ \A k \in 1 .. Len(p) + Len(es) :
              pe[k] = IF k <= Len(p) THEN p[k] ELSE es[k - Len(p)]
    BY <1>4, ConcatFacts
  <2>2. \A W : Count(pe, W) = Count(p, W) + Count(es, W)
    BY <1>4, CountConcat
  <2> HIDE DEF pe
  <2>3. ASSUME NEW k \in 1 .. n PROVE pe[k] = agenda[k]
    BY <1>3, <1>4, <2>1
  <2>4. ASSUME NEW k \in 1 .. Len(es) PROVE pe[n + k] = es[k]
    <3>1. n + k \in 1 .. n + Len(es) /\ ~(n + k <= n) /\ (n + k) - n = k
      BY <1>3
    <3> QED
      BY <1>4, <2>1, <3>1
  <2> QED
    BY <1>4, <2>1, <2>2, <2>3, <2>4
<1> HIDE DEF pe
<1>6. /\ t \in Seq(S) /\ Len(t) = Len(agenda) + Len(es)
      /\ \A k \in 1 .. Len(pe) + Len(q) :
            t[k] = IF k <= Len(pe) THEN pe[k] ELSE q[k - Len(pe)]
      /\ \A W : Count(t, W) = Count(agenda, W) + Count(es, W)
  <2>1. /\ pe \o q \in Seq(S) /\ Len(pe \o q) = Len(pe) + Len(q)
        /\ \A k \in 1 .. Len(pe) + Len(q) :
              (pe \o q)[k] = IF k <= Len(pe) THEN pe[k] ELSE q[k - Len(pe)]
    <3>1. pe \in Seq(S) /\ q \in Seq(S)
      BY <1>4, <1>5
    <3> QED
      BY <3>1, ConcatFacts
  <2>2. t = pe \o q
    BY DEF pe
  <2>3. Len(pe) + Len(q) = Len(agenda) + Len(es)
    BY <1>3, <1>4, <1>5
  <2>4. ASSUME NEW W PROVE Count(pe \o q, W) = Count(agenda, W) + Count(es, W)
    <3>1. Count(pe \o q, W) = Count(pe, W) + Count(q, W)
      BY <1>4, <1>5, CountConcat
    <3>2. Count(p, W) \in Nat /\ Count(q, W) \in Nat /\ Count(es, W) \in Nat
      BY <1>4, CountFacts
    <3>3. Count(agenda, W) = Count(p, W) + Count(q, W)
      BY <1>4
    <3>4. Count(pe, W) = Count(p, W) + Count(es, W)
      BY <1>5
    <3> QED
      BY <3>1, <3>2, <3>3, <3>4
  <2> QED
    BY <2>1, <2>2, <2>3, <2>4
<1> HIDE DEF t
<1>7. ASSUME NEW k \in 1 .. Len(agenda) + Len(es)
      PROVE  \/ k <= n /\ k \in 1 .. Len(agenda) /\ t[k] = agenda[k]
             \/ /\ k > n /\ k <= n + Len(es)
                /\ k - n \in 1 .. Len(es) /\ t[k] = es[k - n]
             \/ /\ k > n + Len(es) /\ k - Len(es) \in n + 1 .. Len(agenda)
                /\ k - Len(es) \in 1 .. Len(agenda) /\ t[k] = agenda[k - Len(es)]
  <2>0. Len(pe) + Len(q) = Len(agenda) + Len(es) /\ Len(pe) = n + Len(es)
    BY <1>3, <1>4, <1>5
  <2>1. CASE k <= n
    <3>1. k \in 1 .. n /\ k \in 1 .. Len(agenda) /\ k <= Len(pe)
      BY <1>3, <2>0, <2>1
    <3>2. t[k] = pe[k]
      BY <1>6, <2>0, <3>1
    <3>3. pe[k] = agenda[k]
      BY <1>5, <3>1
    <3> QED
      BY <2>1, <3>1, <3>2, <3>3
  <2>2. CASE k > n /\ k <= n + Len(es)
    <3>1. k - n \in 1 .. Len(es) /\ n + (k - n) = k
      BY <1>3, <2>2
    <3>2. t[k] = pe[k]
      BY <1>6, <2>0, <2>2
    <3> QED
      BY <1>5, <2>2, <3>1, <3>2
  <2>3. CASE k > n + Len(es)
    <3>1. t[k] = q[k - (n + Len(es))]
      BY <1>3, <1>6, <2>0, <2>3
    <3>2. /\ k - (n + Len(es)) \in 1 .. Len(agenda) - n
          /\ n + (k - (n + Len(es))) = k - Len(es)
          /\ k - Len(es) \in n + 1 .. Len(agenda)
          /\ k - Len(es) \in 1 .. Len(agenda)
      BY <1>3, <2>3
    <3> QED
      BY <1>4, <2>3, <3>1, <3>2
  <2>4. k <= n \/ (k > n /\ k <= n + Len(es)) \/ k > n + Len(es)
    BY <1>3
  <2> QED
    BY <2>1, <2>2, <2>3, <2>4
<1>8. ASSUME NEW k \in 1 .. Len(agenda) + Len(es)
      PROVE  t[k].due \in Int /\ t[k].priority \in Int
  BY <1>3, <1>7
<1>9. ASSUME NEW j \in 1 .. Len(agenda) + Len(es), NEW k \in 1 .. Len(agenda) + Len(es),
             j < k
      PROVE  NotAfter(t[j], t[k])
  <2>1. /\ j \in Nat /\ k \in Nat /\ n \in Nat /\ Len(es) \in Nat
        /\ Len(agenda) \in Nat
    BY <1>3
  <2>2. /\ k <= n => k \in 1 .. Len(agenda) /\ t[k] = agenda[k]
        /\ k > n /\ k <= n + Len(es) => k - n \in 1 .. Len(es) /\ t[k] = es[k - n]
        /\ k > n + Len(es) =>
              /\ k - Len(es) \in n + 1 .. Len(agenda)
              /\ k - Len(es) \in 1 .. Len(agenda) /\ t[k] = agenda[k - Len(es)]
    <3>1. \/ k <= n /\ k \in 1 .. Len(agenda) /\ t[k] = agenda[k]
          \/ /\ k > n /\ k <= n + Len(es)
             /\ k - n \in 1 .. Len(es) /\ t[k] = es[k - n]
          \/ /\ k > n + Len(es) /\ k - Len(es) \in n + 1 .. Len(agenda)
             /\ k - Len(es) \in 1 .. Len(agenda) /\ t[k] = agenda[k - Len(es)]
      BY <1>7
    <3> QED
      BY <2>1, <3>1
  <2>3. /\ j <= n => j \in 1 .. n /\ j \in 1 .. Len(agenda) /\ t[j] = agenda[j]
        /\ j > n /\ j <= n + Len(es) => j - n \in 1 .. Len(es) /\ t[j] = es[j - n]
        /\ j > n + Len(es) =>
              j - Len(es) \in 1 .. Len(agenda) /\ t[j] = agenda[j - Len(es)]
    <3>1. \/ j <= n /\ j \in 1 .. Len(agenda) /\ t[j] = agenda[j]
          \/ /\ j > n /\ j <= n + Len(es)
             /\ j - n \in 1 .. Len(es) /\ t[j] = es[j - n]
          \/ /\ j > n + Len(es) /\ j - Len(es) \in n + 1 .. Len(agenda)
             /\ j - Len(es) \in 1 .. Len(agenda) /\ t[j] = agenda[j - Len(es)]
      BY <1>7
    <3> QED
      BY <2>1, <3>1
  <2>4. CASE k <= n
    <3>1. k \in 1 .. Len(agenda) /\ t[k] = agenda[k]
      BY <2>2, <2>4
    <3>2. j <= n
      BY <1>9, <2>1, <2>4
    <3>3. j \in 1 .. Len(agenda) /\ t[j] = agenda[j]
      BY <2>3, <3>2
    <3> QED
      BY <1>9, <3>1, <3>3 DEF Ordered
  <2>5. CASE k > n /\ k <= n + Len(es) /\ j <= n
    <3>1. j \in 1 .. n /\ t[j] = agenda[j] /\ k - n \in 1 .. Len(es) /\ t[k] = es[k - n]
      BY <2>2, <2>3, <2>5
    <3>2. NotAfter(agenda[j], e)
      BY <1>1, <3>1
    <3> QED
      BY <3>1, <3>2 DEF NotAfter
  <2>6. CASE k > n /\ k <= n + Len(es) /\ j > n
    <3>1. j <= n + Len(es)
      BY <1>9, <2>1, <2>6
    <3>2. /\ j - n \in 1 .. Len(es) /\ t[j] = es[j - n]
          /\ k - n \in 1 .. Len(es) /\ t[k] = es[k - n]
      BY <2>2, <2>3, <2>6, <3>1
    <3> QED
      BY <3>2 DEF NotAfter
  <2>7. CASE k > n + Len(es) /\ j > n + Len(es)
    <3>1. /\ j - Len(es) \in 1 .. Len(agenda) /\ k - Len(es) \in 1 .. Len(agenda)
          /\ t[j] = agenda[j - Len(es)] /\ t[k] = agenda[k - Len(es)]
      BY <2>2, <2>3, <2>7
    <3>2. j - Len(es) < k - Len(es)
      BY <1>9, <2>1
    <3> QED
      BY <3>1, <3>2 DEF Ordered
  <2>8. CASE k > n + Len(es) /\ j <= n
    <3>1. j \in 1 .. Len(agenda) /\ t[j] = agenda[j]
      BY <2>3, <2>8
    <3>2. k - Len(es) \in 1 .. Len(agenda) /\ t[k] = agenda[k - Len(es)]
      BY <2>2, <2>8
    <3>3. j < k - Len(es)
      BY <2>1, <2>8
    <3> QED
      BY <3>1, <3>2, <3>3 DEF Ordered
  <2>9. CASE k > n + Len(es) /\ j > n /\ j <= n + Len(es)
    <3>1. /\ k - Len(es) \in n + 1 .. Len(agenda) /\ k - Len(es) \in 1 .. Len(agenda)
          /\ t[k] = agenda[k - Len(es)]
          /\ j - n \in 1 .. Len(es) /\ t[j] = es[j - n]
      BY <2>2, <2>3, <2>9
    <3>2. ~NotAfter(agenda[k - Len(es)], e)
      BY <1>1, <3>1
    <3>3. t[k].due \in Int /\ t[k].priority \in Int /\ ~NotAfter(t[k], e)
      BY <1>8, <3>1, <3>2
    <3>4. t[j].due = e.due /\ t[j].priority = e.priority
      BY <3>1
    <3> QED
      BY <3>3, <3>4 DEF NotAfter
  <2>10. \/ k <= n
         \/ k > n /\ k <= n + Len(es) /\ j <= n
         \/ k > n /\ k <= n + Len(es) /\ j > n
         \/ k > n + Len(es) /\ j > n + Len(es)
         \/ k > n + Len(es) /\ j <= n
         \/ k > n + Len(es) /\ j > n /\ j <= n + Len(es)
    BY <2>1
  <2> QED
    BY <2>4, <2>5, <2>6, <2>7, <2>8, <2>9, <2>10
<1>10. IsAgenda(t, S) /\ Ordered(t)
  BY <1>6, <1>8, <1>9 DEF IsAgenda, Ordered
<1>11. \A k \in 1 .. Len(agenda) + Len(es) :
          \/ \E j \in 1 .. Len(agenda) : t[k] = agenda[j]
          \/ \E j \in 1 .. Len(es) : t[k] = es[j]
  BY <1>7
<1> QED
  BY <1>2, <1>6, <1>10, <1>11 DEF IsMerge

\* Cancelling an event keeps the firing order and counts it off.
LEMMA RemoveAtFacts ==
    ASSUME NEW S, NEW agenda, IsAgenda(agenda, S), Ordered(agenda),
           NEW i \in 1 .. Len(agenda)
    PROVE  /\ IsAgenda(RemoveAt(agenda, i), S)
           /\ Ordered(RemoveAt(agenda, i))
           /\ \A W : Count(RemoveAt(agenda, i), W)
                        = Count(agenda, W) - (IF agenda[i] \in W THEN 1 ELSE 0)
           /\ \A k \in 1 .. Len(RemoveAt(agenda, i)) :
                 \E j \in 1 .. Len(agenda) : RemoveAt(agenda, i)[k] = agenda[j]
<1> DEFINE p == SubSeq(agenda, 1, i)
           f == SubSeq(agenda, 1, i - 1)
           q == SubSeq(agenda, i + 1, Len(agenda))
           t == RemoveAt(agenda, i)
<1>1. /\ agenda \in Seq(S) /\ Len(agenda) \in Nat /\ i \in Nat /\ i >= 1
      /\ i <= Len(agenda)
      /\ \A k \in 1 .. Len(agenda) :
            agenda[k].due \in Int /\ agenda[k].priority \in Int
  BY DEF IsAgenda
<1>2. t = f \o q
  BY DEF RemoveAt
<1>3. /\ p \in Seq(S) /\ Len(p) = i
      /\ \A k \in 1 .. i : p[k] = agenda[k]
      /\ q \in Seq(S) /\ Len(q) = Len(agenda) - i
      /\ \A k \in 1 .. Len(agenda) - i : q[k] = agenda[i + k]
      /\ \A W : Count(agenda, W) = Count(p, W) + Count(q, W)
  <2>1. i \in 0 .. Len(agenda)
    BY <1>1
  <2> QED
    BY <1>1, <2>1, PartFacts, CountParts
<1>4. /\ f \in Seq(S) /\ Len(f) = i - 1
      /\ \A k \in 1 .. i - 1 : f[k] = agenda[k]
  <2> DEFINE m == i - 1
  <2>1. m \in 0 .. Len(agenda)
    BY <1>1
  <2> HIDE DEF m
  <2>2. /\ SubSeq(agenda, 1, m) \in Seq(S) /\ Len(SubSeq(agenda, 1, m)) = m
        /\ \A k \in 1 .. m : SubSeq(agenda, 1, m)[k] = agenda[k]
    BY <1>1, <2>1, PartFacts
  <2> QED
    BY <2>2 DEF m
<1> HIDE DEF p, q, f, t
<1>5. p = Append(f, agenda[i]) /\ agenda[i] \in S
  BY <1>1, <1>3, <1>4, SMTT(30)
<1>6. /\ t \in Seq(S) /\ Len(t) = Len(agenda) - 1
      /\ \A k \in 1 .. Len(f) + Len(q) :
            t[k] = IF k <= Len(f) THEN f[k] ELSE q[k - Len(f)]
      /\ Len(f) + Len(q) = Len(agenda) - 1
  <2>1. Len(f) + Len(q) = Len(agenda) - 1
    BY <1>1, <1>3, <1>4
  <2> QED
    BY <1>2, <1>3, <1>4, <2>1, ConcatProperties, ZenonT(40)
<1>7. ASSUME NEW W
      PROVE  Count(t, W) = Count(agenda, W) - (IF agenda[i] \in W THEN 1 ELSE 0)
  <2>1. Count(t, W) = Count(f, W) + Count(q, W)
    BY <1>2, <1>3, <1>4, CountConcat
  <2>2. Count(p, W) = Count(f, W) + (IF agenda[i] \in W THEN 1 ELSE 0)
    BY <1>4, <1>5, CountAppend
  <2>3. Count(f, W) \in Nat /\ Count(q, W) \in Nat
    BY <1>3, <1>4, CountFacts
  <2>4. Count(agenda, W) = Count(p, W) + Count(q, W)
    BY <1>3
  <2>5. CASE agenda[i] \in W
    BY <2>1, <2>2, <2>3, <2>4, <2>5
  <2>6. CASE agenda[i] \notin W
    BY <2>1, <2>2, <2>3, <2>4, <2>6
  <2> QED
    BY <2>5, <2>6
<1>8. ASSUME NEW k \in 1 .. Len(agenda) - 1
      PROVE  \/ k < i /\ k \in 1 .. Len(agenda) /\ t[k] = agenda[k]
             \/ k >= i /\ k + 1 \in 1 .. Len(agenda) /\ t[k] = agenda[k + 1]
  <2>1. CASE k < i
    BY <1>1, <1>4, <1>6, <2>1, SMTT(30)
  <2>2. CASE k >= i
    <3>1. t[k] = q[k - (i - 1)]
      BY <1>1, <1>4, <1>6, <2>2
    <3>2. /\ k - (i - 1) \in 1 .. Len(agenda) - i /\ i + (k - (i - 1)) = k + 1
          /\ k + 1 \in 1 .. Len(agenda)
      BY <1>1, <2>2
    <3> QED
      BY <1>3, <2>2, <3>1, <3>2
  <2>3. k < i \/ k >= i
    BY <1>1
  <2> QED
    BY <2>1, <2>2, <2>3
<1>9. ASSUME NEW j \in 1 .. Len(agenda) - 1, NEW k \in 1 .. Len(agenda) - 1, j < k
      PROVE  NotAfter(t[j], t[k])
  <2>1. PICK x \in {j, j + 1} : x \in 1 .. Len(agenda) /\ t[j] = agenda[x]
                                /\ (j < i => x = j) /\ (j >= i => x = j + 1)
    BY <1>1, <1>8
  <2>2. PICK y \in {k, k + 1} : y \in 1 .. Len(agenda) /\ t[k] = agenda[y]
                                /\ (k < i => y = k) /\ (k >= i => y = k + 1)
    BY <1>1, <1>8
  <2>3. x < y
    BY <1>1, <1>9, <2>1, <2>2
  <2> QED
    BY <2>1, <2>2, <2>3 DEF Ordered
<1>10. ASSUME NEW k \in 1 .. Len(t)
       PROVE  \E j \in 1 .. Len(agenda) : t[k] = agenda[j]
  BY <1>6, <1>8
<1>11. IsAgenda(t, S)
  BY <1>1, <1>6, <1>10 DEF IsAgenda
<1>12. Ordered(t)
  BY <1>6, <1>9 DEF Ordered
<1> QED
  BY <1>7, <1>10, <1>11, <1>12 DEF t

-----------------------------------------------------------------------------
(* Time.                                                                   *)

\* Time that passes changes the times relative to it and nothing else.
LEMMA ElapsedFacts ==
    ASSUME NEW S, NEW agenda, IsAgenda(agenda, S), Ordered(agenda),
           NEW delta \in Int,
           \A k \in 1 .. Len(agenda) : {"due", "priority"} \subseteq DOMAIN agenda[k]
    PROVE  /\ Len(Elapsed(agenda, delta)) = Len(agenda)
           /\ DOMAIN Elapsed(agenda, delta) = 1 .. Len(agenda)
           /\ \A k \in 1 .. Len(agenda) :
                 Elapsed(agenda, delta)[k] =
                    [agenda[k] EXCEPT !.due = agenda[k].due - delta]
           /\ \A R : (\A k \in 1 .. Len(agenda) : Elapsed(agenda, delta)[k] \in R)
                 => Elapsed(agenda, delta) \in Seq(R)
           /\ Ordered(Elapsed(agenda, delta))
<1>1. /\ Len(agenda) \in Nat /\ DOMAIN agenda = 1 .. Len(agenda)
      /\ \A k \in 1 .. Len(agenda) :
            agenda[k].due \in Int /\ agenda[k].priority \in Int
  BY DEF IsAgenda
<1>2. Elapsed(agenda, delta) =
         [k \in 1 .. Len(agenda) |-> [agenda[k] EXCEPT !.due = agenda[k].due - delta]]
  BY <1>1 DEF Elapsed
<1> DEFINE t == Elapsed(agenda, delta)
<1> HIDE DEF t
<1>3. /\ DOMAIN t = 1 .. Len(agenda)
      /\ \A k \in 1 .. Len(agenda) : t[k] = [agenda[k] EXCEPT !.due = agenda[k].due - delta]
  BY <1>2 DEF t
<1>4. t = [k \in 1 .. Len(agenda) |-> t[k]]
  BY <1>2 DEF t
<1>5. \A R : (\A k \in 1 .. Len(agenda) : t[k] \in R) => t \in Seq(R)
  BY <1>1, <1>4
<1>6. Len(t) = Len(agenda)
  BY <1>1, <1>4
<1>7. ASSUME NEW k \in 1 .. Len(agenda)
      PROVE  t[k].due = agenda[k].due - delta /\ t[k].priority = agenda[k].priority
  BY <1>3
<1>8. Ordered(t)
  <2> SUFFICES ASSUME NEW j \in 1 .. Len(agenda), NEW k \in 1 .. Len(agenda), j < k
               PROVE  NotAfter(t[j], t[k])
    BY <1>6 DEF Ordered
  <2>1. NotAfter(agenda[j], agenda[k])
    BY DEF Ordered
  <2> QED
    BY <1>1, <1>7, <2>1 DEF NotAfter
<1> QED
  BY <1>3, <1>5, <1>6, <1>8 DEF t

\* The agenda behind its head is one in firing order, and nothing on it is due
\* before the head.
LEMMA TailOrdered ==
    ASSUME NEW S, NEW agenda, IsAgenda(agenda, S), Ordered(agenda), agenda # <<>>
    PROVE  /\ IsAgenda(Tail(agenda), S) /\ Ordered(Tail(agenda))
           /\ Len(Tail(agenda)) = Len(agenda) - 1
           /\ \A k \in 1 .. Len(agenda) - 1 :
                 /\ Tail(agenda)[k] = agenda[k + 1] /\ k + 1 \in 1 .. Len(agenda)
                 /\ agenda[k + 1].due >= Head(agenda).due
           /\ Head(agenda) = agenda[1] /\ 1 \in 1 .. Len(agenda)
           /\ Head(agenda).due \in Int
<1>1. /\ agenda \in Seq(S) /\ Len(agenda) \in Nat /\ Len(agenda) > 0
      /\ \A k \in 1 .. Len(agenda) :
            agenda[k].due \in Int /\ agenda[k].priority \in Int
  BY DEF IsAgenda
<1> DEFINE t == Tail(agenda)
<1>2. /\ t \in Seq(S) /\ Len(t) = Len(agenda) - 1
      /\ \A k \in 1 .. Len(agenda) - 1 : t[k] = agenda[k + 1]
      /\ Head(agenda) = agenda[1]
  BY <1>1
<1> HIDE DEF t
<1>3. ASSUME NEW k \in 1 .. Len(agenda) - 1
      PROVE  /\ k + 1 \in 1 .. Len(agenda)
             /\ t[k].due \in Int /\ t[k].priority \in Int
             /\ agenda[k + 1].due >= agenda[1].due
  <2>1. k + 1 \in 1 .. Len(agenda) /\ 1 \in 1 .. Len(agenda) /\ 1 < k + 1
    BY <1>1
  <2>2. NotAfter(agenda[1], agenda[k + 1])
    BY <2>1 DEF Ordered
  <2> QED
    BY <1>1, <1>2, <2>1, <2>2 DEF NotAfter
<1>4. ASSUME NEW j \in 1 .. Len(agenda) - 1, NEW k \in 1 .. Len(agenda) - 1, j < k
      PROVE  NotAfter(t[j], t[k])
  <2>1. j + 1 \in 1 .. Len(agenda) /\ k + 1 \in 1 .. Len(agenda) /\ j + 1 < k + 1
    BY <1>1, <1>4
  <2> QED
    BY <1>2, <2>1 DEF Ordered
<1>5. Head(agenda).due \in Int /\ 1 \in 1 .. Len(agenda)
  BY <1>1, <1>2
<1>6. IsAgenda(t, S)
  BY <1>2, <1>3 DEF IsAgenda
<1>7. Ordered(t)
  BY <1>2, <1>4 DEF Ordered
<1> QED
  BY <1>2, <1>3, <1>5, <1>6, <1>7 DEF t

\* Firing removes the head; nothing left on the agenda lies in the past.
LEMMA AfterHeadFacts ==
    ASSUME NEW S, NEW agenda, IsAgenda(agenda, S), Ordered(agenda), agenda # <<>>,
           \A k \in 1 .. Len(agenda) : {"due", "priority"} \subseteq DOMAIN agenda[k]
    PROVE  /\ Len(AfterHead(agenda)) = Len(agenda) - 1
           /\ DOMAIN AfterHead(agenda) = 1 .. Len(agenda) - 1
           /\ \A k \in 1 .. Len(agenda) - 1 :
                 /\ k + 1 \in 1 .. Len(agenda)
                 /\ AfterHead(agenda)[k] =
                       [agenda[k + 1] EXCEPT !.due = @ - Head(agenda).due]
                 /\ agenda[k + 1].due - Head(agenda).due \in Nat
           /\ \A R : (\A k \in 1 .. Len(agenda) - 1 : AfterHead(agenda)[k] \in R)
                 => AfterHead(agenda) \in Seq(R)
           /\ Ordered(AfterHead(agenda))
           /\ Head(agenda) = agenda[1] /\ 1 \in 1 .. Len(agenda)
<1> DEFINE t == Tail(agenda)
           delta == Head(agenda).due
<1>1. /\ IsAgenda(t, S) /\ Ordered(t) /\ Len(t) = Len(agenda) - 1
      /\ \A k \in 1 .. Len(agenda) - 1 :
            /\ t[k] = agenda[k + 1] /\ k + 1 \in 1 .. Len(agenda)
            /\ agenda[k + 1].due >= delta
      /\ Head(agenda) = agenda[1] /\ 1 \in 1 .. Len(agenda)
      /\ delta \in Int
  BY TailOrdered
<1>2. AfterHead(agenda) = Elapsed(t, delta)
  BY DEF AfterHead
<1>3. \A k \in 1 .. Len(agenda) : agenda[k].due \in Int
  BY DEF IsAgenda
<1> HIDE DEF t, delta
<1>4. \A k \in 1 .. Len(t) : {"due", "priority"} \subseteq DOMAIN t[k]
  BY <1>1
<1>5. /\ Len(Elapsed(t, delta)) = Len(t)
      /\ DOMAIN Elapsed(t, delta) = 1 .. Len(t)
      /\ \A k \in 1 .. Len(t) :
            Elapsed(t, delta)[k] = [t[k] EXCEPT !.due = t[k].due - delta]
      /\ \A R : (\A k \in 1 .. Len(t) : Elapsed(t, delta)[k] \in R)
            => Elapsed(t, delta) \in Seq(R)
      /\ Ordered(Elapsed(t, delta))
  BY <1>1, <1>4, ElapsedFacts
<1>6. ASSUME NEW k \in 1 .. Len(agenda) - 1
      PROVE  /\ AfterHead(agenda)[k] =
                   [agenda[k + 1] EXCEPT !.due = agenda[k + 1].due - delta]
             /\ agenda[k + 1].due - delta \in Nat
  BY <1>1, <1>2, <1>3, <1>5
<1> QED
  BY <1>1, <1>2, <1>5, <1>6 DEF delta

\* The number of events of a kind does not change with time.
LEMMA CountElapsed ==
    ASSUME NEW S, NEW agenda \in Seq(S), Ordered(agenda),
           NEW delta \in Int, NEW W, Timeless(W, S)
    PROVE  /\ IsAgenda(Elapsed(agenda, delta), S)
           /\ Ordered(Elapsed(agenda, delta))
           /\ Count(Elapsed(agenda, delta), W) = Count(agenda, W)
<1> DEFINE t == Elapsed(agenda, delta)
<1>1. \A k \in 1 .. Len(agenda) : agenda[k] \in S
  OBVIOUS
<1>2. /\ IsAgenda(agenda, S)
      /\ \A k \in 1 .. Len(agenda) : {"due", "priority"} \subseteq DOMAIN agenda[k]
  BY <1>1 DEF IsAgenda, Timeless
<1>3. /\ Len(t) = Len(agenda)
      /\ DOMAIN t = 1 .. Len(agenda)
      /\ \A k \in 1 .. Len(agenda) :
            t[k] = [agenda[k] EXCEPT !.due = agenda[k].due - delta]
      /\ \A R : (\A k \in 1 .. Len(agenda) : t[k] \in R) => t \in Seq(R)
      /\ Ordered(t)
  BY <1>2, ElapsedFacts
<1> HIDE DEF t
<1>4. ASSUME NEW k \in 1 .. Len(agenda)
      PROVE  t[k] \in S /\ (t[k] \in W <=> agenda[k] \in W)
  <2>1. agenda[k] \in S /\ agenda[k].due - delta \in Int
    BY <1>1 DEF Timeless
  <2> QED
    BY <1>3, <2>1 DEF Timeless
<1>5. t \in Seq(S)
  BY <1>3, <1>4
<1>6. IsAgenda(t, S)
  BY <1>3, <1>4, <1>5 DEF IsAgenda, Timeless
<1>7. {k \in DOMAIN t : t[k] \in W} = {k \in DOMAIN agenda : agenda[k] \in W}
  BY <1>3, <1>4
<1> QED
  BY <1>3, <1>6, <1>7 DEF Count, t

\* Firing takes one event of the head's kinds.
LEMMA CountAfterHead ==
    ASSUME NEW S, NEW agenda \in Seq(S), Ordered(agenda), agenda # <<>>,
           NEW W, Timeless(W, S)
    PROVE  /\ IsAgenda(AfterHead(agenda), S)
           /\ Ordered(AfterHead(agenda))
           /\ Count(AfterHead(agenda), W)
                = Count(agenda, W) - (IF Head(agenda) \in W THEN 1 ELSE 0)
<1>1. \A k \in 1 .. Len(agenda) : agenda[k] \in S
  OBVIOUS
<1>2. IsAgenda(agenda, S)
  BY <1>1 DEF IsAgenda, Timeless
<1>3. /\ IsAgenda(Tail(agenda), S) /\ Ordered(Tail(agenda))
      /\ Head(agenda).due \in Int
  BY <1>2, TailOrdered
<1>4. Tail(agenda) \in Seq(S)
  BY <1>3 DEF IsAgenda
<1>5. /\ IsAgenda(AfterHead(agenda), S)
      /\ Ordered(AfterHead(agenda))
      /\ Count(AfterHead(agenda), W) = Count(Tail(agenda), W)
  BY <1>3, <1>4, CountElapsed DEF AfterHead
<1> QED
  BY <1>5, CountTail
=============================================================================
