-------------------------- MODULE CopyEngineProofs --------------------------
(***************************************************************************)
(* Proofs about CopyEngine: for every size of pipes, queues and credits,   *)
(* a completed read finds its slot in the compute pipe, and every line is  *)
(* in one place.  Both hold together: the number of reads in flight counts *)
(* the lines being read only because no line is read twice at a time.      *)
(***************************************************************************)
EXTENDS CopyEngine, FiniteSetTheorems, TLAPS

Distinct(q) == \A j, k \in DOMAIN q : q[j] = q[k] => j = k

\* Sets that are pairwise disjoint and make up the lines produced.
Spread(a, b, c, d, e, f) ==
    /\ a \cap b = {}
    /\ (a \cup b) \cap c = {}
    /\ (a \cup b \cup c) \cap d = {}
    /\ (a \cup b \cup c \cup d) \cap e = {}
    /\ (a \cup b \cup c \cup d \cup e) \cap f = {}
    /\ a \cup b \cup c \cup d \cup e \cup f = 1 .. produced

Located ==
    /\ produced \in 0 .. NLines
    /\ issueQ \in Seq(Lines) /\ Distinct(issueQ)
    /\ Spread(issue, SetOf(issueQ), reading, loaded, compute, stored)

\* Every accepted write has its callback before it or behind it.
StoresCounted ==
    /\ storesDue \subseteq stored
    /\ writesAccepted \in Nat
    /\ writesAccepted + Cardinality(storesDue) = Cardinality(stored)

CopyInv == Located /\ StoresCounted /\ SlotsReserved

-----------------------------------------------------------------------------
LEMMA Constants ==
    /\ NLines \in Nat
    /\ IssueSlots \in Nat \ {0} /\ QueueDepth \in Nat \ {0}
    /\ ComputeSlots \in Nat \ {0} /\ MaxOutstanding \in Nat \ {0}
    /\ ReadQueue \in Nat \ {0} /\ WriteQueue \in Nat \ {0}
  BY CopyAssumption

\* Taking n lines from a queue of distinct lines.
LEMMA GottenFacts ==
    ASSUME NEW q \in Seq(Lines), Distinct(q), NEW n \in 0 .. Len(q)
    PROVE  /\ AfterGets(q, n) \in Seq(Lines) /\ Distinct(AfterGets(q, n))
           /\ SetOf(q) = Gotten(q, n) \cup SetOf(AfterGets(q, n))
           /\ Gotten(q, n) \cap SetOf(AfterGets(q, n)) = {}
           /\ IsFiniteSet(Gotten(q, n)) /\ Cardinality(Gotten(q, n)) = n
<1> DEFINE rest == AfterGets(q, n)
<1>1. /\ rest \in Seq(Lines) /\ Len(rest) = Len(q) - n
      /\ \A k \in 1 .. Len(q) - n : rest[k] = q[k + n]
  BY DEF AfterGets
<1>2. Len(q) \in Nat /\ n \in Nat /\ n <= Len(q) /\ DOMAIN q = 1 .. Len(q)
  OBVIOUS
<1>3. DOMAIN rest = 1 .. Len(q) - n
  BY <1>1
<1>4. \A j, k \in 1 .. Len(q) : q[j] = q[k] => j = k
  BY <1>2 DEF Distinct
<1> HIDE DEF rest
<1>5. Distinct(rest)
  BY <1>1, <1>2, <1>3, <1>4 DEF Distinct
<1>6. SetOf(rest) = {q[k] : k \in n + 1 .. Len(q)}
  <2>1. SetOf(rest) = {rest[k] : k \in 1 .. Len(q) - n}
    BY <1>1 DEF SetOf, Gotten
  <2>2. \A k \in n + 1 .. Len(q) : k - n \in 1 .. Len(q) - n
                                  /\ rest[k - n] = q[k]
    BY <1>1, <1>2
  <2>3. \A k \in 1 .. Len(q) - n : k + n \in n + 1 .. Len(q)
                                  /\ rest[k] = q[k + n]
    BY <1>1, <1>2
  <2> QED
    BY <2>1, <2>2, <2>3
<1>7. SetOf(q) = Gotten(q, n) \cup SetOf(rest)
  <2>1. SetOf(q) = {q[k] : k \in 1 .. Len(q)}
        /\ Gotten(q, n) = {q[k] : k \in 1 .. n}
    BY DEF SetOf, Gotten
  <2>2. 1 .. Len(q) = (1 .. n) \cup (n + 1 .. Len(q))
    BY <1>2
  <2> QED
    BY <2>1, <2>2, <1>6
<1>8. Gotten(q, n) \cap SetOf(rest) = {}
  BY <1>2, <1>4, <1>6 DEF Gotten
<1>9. IsFiniteSet(Gotten(q, n)) /\ Cardinality(Gotten(q, n)) = n
  <2> DEFINE f == [k \in 1 .. n |-> q[k]]
  <2>1. f \in Bijection(1 .. n, Gotten(q, n))
    <3>1. f \in [1 .. n -> Gotten(q, n)]
      BY DEF Gotten
    <3>2. \A j, k \in 1 .. n : f[j] = f[k] => j = k
      BY <1>2, <1>4
    <3>3. \A x \in Gotten(q, n) : \E k \in 1 .. n : f[k] = x
      BY DEF Gotten
    <3> HIDE DEF f
    <3> QED
      BY <3>1, <3>2, <3>3 DEF Bijection, Injection, Surjection, IsInjective
  <2>2. ExistsBijection(1 .. n, Gotten(q, n))
    BY <2>1 DEF ExistsBijection
  <2> QED
    BY <2>2, <1>2, FS_NatBijection, FS_CountingElements
<1> QED
  BY <1>1, <1>5, <1>7, <1>8, <1>9 DEF rest

LEMMA PutFacts ==
    ASSUME NEW q \in Seq(Lines), Distinct(q),
           NEW line \in Lines, line \notin SetOf(q)
    PROVE  /\ Put(q, line) \in Seq(Lines) /\ Distinct(Put(q, line))
           /\ SetOf(Put(q, line)) = SetOf(q) \cup {line}
<1> DEFINE longer == Put(q, line)
<1>1. /\ longer \in Seq(Lines) /\ Len(longer) = Len(q) + 1
      /\ \A k \in 1 .. Len(q) : longer[k] = q[k]
      /\ longer[Len(q) + 1] = line
  BY DEF Put
<1>2. Len(q) \in Nat /\ DOMAIN q = 1 .. Len(q)
      /\ DOMAIN longer = 1 .. Len(q) + 1
  BY <1>1
<1>3. \A k \in 1 .. Len(q) : q[k] # line
  BY DEF SetOf, Gotten
<1> HIDE DEF longer
<1>4. Distinct(longer)
  BY <1>1, <1>2, <1>3 DEF Distinct
<1>5. SetOf(longer) = SetOf(q) \cup {line}
  BY <1>1, <1>2 DEF SetOf, Gotten
<1> QED
  BY <1>1, <1>4, <1>5 DEF longer

\* What is spread over the places is finite.
LEMMA Finite ==
    ASSUME CopyInv
    PROVE  /\ IsFiniteSet(issue) /\ IsFiniteSet(SetOf(issueQ))
           /\ IsFiniteSet(reading) /\ IsFiniteSet(loaded)
           /\ IsFiniteSet(compute) /\ IsFiniteSet(stored)
           /\ IsFiniteSet(storesDue)
<1>1. produced \in Int /\ IsFiniteSet(1 .. produced)
  BY Constants, FS_Interval DEF CopyInv, Located
<1>2. /\ issue \subseteq 1 .. produced /\ SetOf(issueQ) \subseteq 1 .. produced
      /\ reading \subseteq 1 .. produced /\ loaded \subseteq 1 .. produced
      /\ compute \subseteq 1 .. produced /\ stored \subseteq 1 .. produced
      /\ storesDue \subseteq 1 .. produced
  BY DEF CopyInv, Located, Spread, StoresCounted
<1> QED
  BY <1>1, <1>2, FS_Subset

\* What the read pump does when nothing is held: lines move from the queue to
\* the DRAM, as many as the credits allow.
LEMMA PumpFacts ==
    ASSUME NEW q \in Seq(Lines), Distinct(q),
           NEW inflight \in Nat, NEW pipe, IsFiniteSet(pipe),
           IsFiniteSet(reading), SetOf(q) \cap reading = {},
           inflight <= MaxOutstanding,
           inflight + Cardinality(pipe) <= ComputeSlots,
           PumpReads(q, inflight, pipe, <<>>)
    PROVE  /\ heldCompute' = <<>> /\ compute' = pipe
           /\ issueQ' \in Seq(Lines) /\ Distinct(issueQ')
           /\ SetOf(issueQ') \cup reading' = SetOf(q) \cup reading
           /\ SetOf(issueQ') \cap reading' = {}
           /\ IsFiniteSet(reading')
           /\ readsInflight' \in Nat
           /\ readsInflight' + Cardinality(reading)
                = inflight + Cardinality(reading')
           /\ readsInflight' <= MaxOutstanding
           /\ readsInflight' + Cardinality(pipe) <= ComputeSlots
<1>1. PICK d \in 0 .. Len(<<>>), n \in 0 .. Len(q) :
         /\ compute' = pipe \cup Gotten(<<>>, d)
         /\ heldCompute' = AfterGets(<<>>, d)
         /\ \A k \in 0 .. n - 1 : IssuesOn(k, q, inflight, pipe, <<>>)
         /\ issueQ' = AfterGets(q, n)
         /\ reading' = reading \cup Gotten(q, n)
         /\ readsInflight' = inflight + n
  BY DEF PumpReads
<1>2. d = 0
  OBVIOUS
<1>3. heldCompute' = <<>> /\ compute' = pipe
  BY <1>1, <1>2 DEF AfterGets, Gotten
<1>4. n \in Nat /\ Cardinality(reading) \in Nat /\ Cardinality(pipe) \in Nat
  BY FS_CardinalityType
<1>5. /\ issueQ' \in Seq(Lines) /\ Distinct(issueQ')
      /\ SetOf(q) = Gotten(q, n) \cup SetOf(issueQ')
      /\ Gotten(q, n) \cap SetOf(issueQ') = {}
      /\ IsFiniteSet(Gotten(q, n)) /\ Cardinality(Gotten(q, n)) = n
  BY <1>1, GottenFacts
<1>6. /\ SetOf(issueQ') \cup reading' = SetOf(q) \cup reading
      /\ SetOf(issueQ') \cap reading' = {}
  BY <1>1, <1>5
<1>7. IsFiniteSet(reading') /\ Cardinality(reading') = Cardinality(reading) + n
  <2>1. reading \cap Gotten(q, n) = {}
    BY <1>5
  <2> QED
    <3>1. Cardinality(reading \cap Gotten(q, n)) = 0
      BY <2>1, FS_EmptySet
    <3>2. /\ IsFiniteSet(reading \cup Gotten(q, n))
          /\ Cardinality(reading \cup Gotten(q, n))
               = Cardinality(reading) + Cardinality(Gotten(q, n))
                 - Cardinality(reading \cap Gotten(q, n))
      BY <1>5, FS_Union
    <3> QED
      BY <3>1, <3>2, <1>1, <1>4, <1>5
<1>8. inflight + n <= MaxOutstanding
      /\ inflight + n + Cardinality(pipe) <= ComputeSlots
  <2>1. CASE n = 0
    BY <2>1
  <2>2. CASE n > 0
    <3>1. n - 1 \in 0 .. n - 1
      BY <2>2, <1>4
    <3>2. IssuesOn(n - 1, q, inflight, pipe, <<>>)
      BY <3>1, <1>1
    <3>3. /\ inflight + (n - 1) < MaxOutstanding
          /\ inflight + (n - 1) + Cardinality(pipe) + 0 < ComputeSlots
      BY <3>2 DEF IssuesOn, Reserved
    <3> QED
      BY <3>3, <1>4, Constants
  <2> QED
    BY <2>1, <2>2, <1>4
<1> QED
  BY <1>1, <1>3, <1>4, <1>5, <1>6, <1>7, <1>8

LEMMA InitCopy == Init => CopyInv
<1> SUFFICES ASSUME Init PROVE CopyInv
  OBVIOUS
<1>1. SetOf(issueQ) = {} /\ Cardinality({}) = 0
  BY FS_EmptySet DEF Init, SetOf, Gotten
<1>2. Located
  BY <1>1, Constants DEF Init, Located, Spread, Distinct
<1>3. StoresCounted /\ SlotsReserved
  BY <1>1, Constants DEF Init, StoresCounted, SlotsReserved, Reserved
<1> QED
  BY <1>2, <1>3 DEF CopyInv

\* A refill produces the lines that follow and puts them into the issue pipe.
LEMMA FillIssueStep ==
    ASSUME CopyInv, FillIssue
    PROVE  CopyInv'
<1>1. PICK n \in 0 .. NLines - produced :
         /\ produced' = produced + n
         /\ issue' = issue \cup (produced + 1 .. produced + n)
  BY DEF FillIssue
<1>2. UNCHANGED <<issueQ, readsInflight, reading, loaded, compute,
                  heldCompute, writing, storesDue, writesAccepted, stored>>
  BY DEF FillIssue
<1>3. produced \in Nat /\ produced <= NLines /\ n \in Nat
  BY Constants DEF CopyInv, Located
<1>4. produced' \in 0 .. NLines
  BY <1>1, <1>3, Constants
<1>5. /\ 1 .. produced' = (1 .. produced) \cup (produced + 1 .. produced + n)
      /\ (1 .. produced) \cap (produced + 1 .. produced + n) = {}
  BY <1>1, <1>3
<1>6. SetOf(issueQ)' = SetOf(issueQ)
  BY <1>2 DEF SetOf
<1>7. Spread(issue, SetOf(issueQ), reading, loaded, compute, stored)'
  BY <1>1, <1>2, <1>5, <1>6 DEF CopyInv, Located, Spread
<1> QED
  BY <1>2, <1>4, <1>7
     DEF CopyInv, Located, StoresCounted, SlotsReserved, Reserved

\* A line moves from the issue pipe into the FIFO, or on to the DRAM.
LEMMA OnIssueStep ==
    ASSUME CopyInv, NEW line \in Lines, OnIssue(line)
    PROVE  CopyInv'
<1> DEFINE q == Put(issueQ, line)
<1>1. /\ line \in issue /\ issue' = issue \ {line}
      /\ UNCHANGED <<produced, loaded, writing, storesDue, writesAccepted,
                     stored>>
  BY DEF OnIssue
<1>2. Located /\ SlotsReserved /\ StoresCounted
  BY DEF CopyInv
<1>3. /\ line \notin SetOf(issueQ)
      /\ SetOf(issueQ) \cap reading = {} /\ line \notin reading
  BY <1>1, <1>2 DEF Located, Spread
<1>4. /\ q \in Seq(Lines) /\ Distinct(q)
      /\ SetOf(q) = SetOf(issueQ) \cup {line}
  BY <1>2, <1>3, PutFacts DEF Located
<1>5. /\ heldCompute = <<>>
      /\ readsInflight = Cardinality(reading) + Cardinality(loaded)
      /\ readsInflight <= MaxOutstanding
      /\ readsInflight + Cardinality(compute) + 0 <= ComputeSlots
  BY <1>2 DEF SlotsReserved, Reserved
<1>6. /\ Cardinality(reading) \in Nat /\ Cardinality(loaded) \in Nat
      /\ Cardinality(compute) \in Nat
  BY Finite, FS_CardinalityType
<1>7. PumpReads(q, readsInflight, compute, <<>>)
  BY <1>5 DEF OnIssue
<1> HIDE DEF q
<1>8. /\ heldCompute' = <<>> /\ compute' = compute
      /\ issueQ' \in Seq(Lines) /\ Distinct(issueQ')
      /\ SetOf(issueQ') \cup reading' = SetOf(q) \cup reading
      /\ SetOf(issueQ') \cap reading' = {}
      /\ IsFiniteSet(reading')
      /\ readsInflight' \in Nat
      /\ readsInflight' + Cardinality(reading)
           = readsInflight + Cardinality(reading')
      /\ readsInflight' <= MaxOutstanding
      /\ readsInflight' + Cardinality(compute) <= ComputeSlots
  BY <1>3, <1>4, <1>5, <1>6, <1>7, Finite, PumpFacts
<1>9. Located'
  <2>1. /\ issue' \cap SetOf(issueQ') = {}
        /\ (issue' \cup SetOf(issueQ')) \cap reading' = {}
        /\ (issue' \cup SetOf(issueQ') \cup reading')
             = issue \cup SetOf(issueQ) \cup reading
    BY <1>1, <1>2, <1>3, <1>4, <1>8 DEF Located, Spread
  <2> QED
    BY <2>1, <1>1, <1>2, <1>8 DEF Located, Spread, SetOf
<1>10. Cardinality(reading') \in Nat
  BY <1>8, FS_CardinalityType
<1>11. SlotsReserved'
  <2>1. readsInflight' = Cardinality(reading') + Cardinality(loaded')
    <3>1. Cardinality(loaded') = Cardinality(loaded)
      BY <1>1
    <3>2. readsInflight' + Cardinality(reading)
            = readsInflight + Cardinality(reading')
      BY <1>8
    <3> QED
      BY <3>1, <3>2, <1>5, <1>6, <1>8, <1>10, SMTT(30)
  <2>2. readsInflight' + Cardinality(compute') + Len(heldCompute')
          <= ComputeSlots
    BY <1>6, <1>8, Constants
  <2> QED
    BY <2>1, <2>2, <1>8 DEF SlotsReserved, Reserved
<1> QED
  BY <1>1, <1>2, <1>9, <1>11 DEF CopyInv, StoresCounted

\* A read returns and its line enters the compute pipe, where its slot is.
LEMMA OnLoadStep ==
    ASSUME CopyInv, NEW line \in Lines, OnLoad(line)
    PROVE  CopyInv'
<1> DEFINE pipe == compute \cup {line}
<1>1. /\ line \in loaded /\ loaded' = loaded \ {line}
      /\ UNCHANGED <<produced, refills, issue, writing, storesDue,
                     writesAccepted, stored>>
  BY DEF OnLoad
<1>2. Located /\ SlotsReserved /\ StoresCounted
  BY DEF CopyInv
<1>3. /\ heldCompute = <<>>
      /\ readsInflight = Cardinality(reading) + Cardinality(loaded)
      /\ readsInflight <= MaxOutstanding
      /\ readsInflight + Cardinality(compute) + 0 <= ComputeSlots
  BY <1>2 DEF SlotsReserved, Reserved
<1>4. /\ Cardinality(reading) \in Nat /\ Cardinality(loaded) \in Nat
      /\ Cardinality(compute) \in Nat
      /\ IsFiniteSet(reading) /\ IsFiniteSet(loaded) /\ IsFiniteSet(compute)
  BY Finite, FS_CardinalityType
<1>5. Cardinality(loaded') = Cardinality(loaded) - 1 /\ Cardinality(loaded') \in Nat
  <2>1. /\ IsFiniteSet(loaded \ {line})
        /\ Cardinality(loaded \ {line}) = Cardinality(loaded) - 1
    BY <1>1, <1>4, FS_RemoveElement
  <2>2. Cardinality(loaded \ {line}) \in Nat
    BY <2>1, FS_CardinalityType
  <2> QED
    BY <2>1, <2>2, <1>1
<1>6. IsFiniteSet(pipe) /\ Cardinality(pipe) = Cardinality(compute) + 1
  <2>1. line \notin compute
    BY <1>1, <1>2 DEF Located, Spread
  <2> QED
    BY <2>1, <1>4, FS_AddElement
<1>7. Cardinality(compute) < ComputeSlots
  BY <1>3, <1>4, <1>5, Constants
<1>8. PumpReads(issueQ, readsInflight - 1, pipe, <<>>)
  <2>1. PICK d \in 0 .. Len(heldCompute) :
           LET longer == compute \cup Gotten(heldCompute, d)
               held == AfterGets(heldCompute, d)
               fits == Cardinality(longer) < ComputeSlots
           IN PumpReads(issueQ, readsInflight - 1,
                        IF fits THEN longer \cup {line} ELSE longer,
                        IF fits THEN held ELSE Put(held, line))
    BY DEF OnLoad
  <2>2. d = 0 /\ compute \cup Gotten(heldCompute, 0) = compute
        /\ AfterGets(heldCompute, 0) = <<>>
    BY <2>1, <1>3 DEF Gotten, AfterGets
  <2> QED
    BY <2>1, <2>2, <1>7
<1> HIDE DEF pipe
<1>9. /\ issueQ \in Seq(Lines) /\ Distinct(issueQ)
      /\ SetOf(issueQ) \cap reading = {}
  BY <1>2 DEF Located, Spread
<1>10. /\ readsInflight - 1 \in Nat /\ readsInflight - 1 <= MaxOutstanding
       /\ readsInflight - 1 + Cardinality(pipe) <= ComputeSlots
  BY <1>3, <1>4, <1>5, <1>6, Constants, SMTT(30)
<1>11. /\ heldCompute' = <<>> /\ compute' = pipe
       /\ issueQ' \in Seq(Lines) /\ Distinct(issueQ')
       /\ SetOf(issueQ') \cup reading' = SetOf(issueQ) \cup reading
       /\ SetOf(issueQ') \cap reading' = {}
       /\ IsFiniteSet(reading')
       /\ readsInflight' \in Nat
       /\ readsInflight' + Cardinality(reading)
            = (readsInflight - 1) + Cardinality(reading')
       /\ readsInflight' <= MaxOutstanding
       /\ readsInflight' + Cardinality(pipe) <= ComputeSlots
  BY <1>4, <1>6, <1>8, <1>9, <1>10, PumpFacts
<1>12. Located'
  <2>1. /\ issue \cap SetOf(issueQ') = {}
        /\ (issue \cup SetOf(issueQ')) \cap reading' = {}
        /\ (issue \cup SetOf(issueQ') \cup reading')
             = issue \cup SetOf(issueQ) \cup reading
    BY <1>2, <1>11 DEF Located, Spread
  <2>2. compute' = compute \cup {line}
    BY <1>11 DEF pipe
  <2> QED
    BY <2>1, <2>2, <1>1, <1>2, <1>11 DEF Located, Spread, SetOf
<1>13. Cardinality(reading') \in Nat
  BY <1>11, FS_CardinalityType
<1>14. SlotsReserved'
  <2>1. readsInflight' = Cardinality(reading') + Cardinality(loaded')
    <3>1. readsInflight' + Cardinality(reading)
            = (readsInflight - 1) + Cardinality(reading')
      BY <1>11
    <3>2. PICK n \in Nat, r \in Nat, l \in Nat :
             /\ n = readsInflight'
             /\ r = Cardinality(reading') /\ l = Cardinality(loaded')
      BY <1>5, <1>11, <1>13
    <3>3. readsInflight - 1 = Cardinality(reading) + l
      BY <3>2, <1>3, <1>4, <1>5
    <3>4. n + Cardinality(reading) = Cardinality(reading) + l + r
      BY <3>1, <3>2, <3>3
    <3>5. n = r + l
      BY <3>4, <1>4
    <3> QED
      BY <3>2, <3>5
  <2>2. readsInflight' + Cardinality(compute') + Len(heldCompute')
          <= ComputeSlots
    BY <1>4, <1>6, <1>11, Constants
  <2> QED
    BY <2>1, <2>2, <1>11 DEF SlotsReserved, Reserved
<1> QED
  BY <1>1, <1>2, <1>12, <1>14 DEF CopyInv, StoresCounted

\* A line leaves the compute pipe with its write.
LEMMA TryStoreStep ==
    ASSUME CopyInv, NEW line \in Lines, TryStore(line)
    PROVE  CopyInv'
<1>1. /\ line \in compute /\ compute' = compute \ {line}
      /\ storesDue' = storesDue \cup {line} /\ stored' = stored \cup {line}
      /\ UNCHANGED <<produced, refills, issue, issueQ, readsInflight, reading,
                     loaded, heldCompute, writesAccepted>>
  BY DEF TryStore
<1>2. Located /\ SlotsReserved /\ StoresCounted
  BY DEF CopyInv
<1>3. line \notin stored /\ line \notin storesDue
  BY <1>1, <1>2 DEF Located, Spread, StoresCounted
<1>4. Located'
  BY <1>1, <1>2 DEF Located, Spread, SetOf
<1>5. /\ IsFiniteSet(compute) /\ IsFiniteSet(stored) /\ IsFiniteSet(storesDue)
      /\ Cardinality(compute) \in Nat /\ Cardinality(stored) \in Nat
      /\ Cardinality(storesDue) \in Nat
      /\ Cardinality(reading) \in Nat /\ Cardinality(loaded) \in Nat
  BY Finite, FS_CardinalityType
<1>6. /\ Cardinality(stored') = Cardinality(stored) + 1
      /\ Cardinality(storesDue') = Cardinality(storesDue) + 1
      /\ Cardinality(compute') = Cardinality(compute) - 1
  BY <1>1, <1>3, <1>5, FS_AddElement, FS_RemoveElement
<1>7. StoresCounted'
  BY <1>1, <1>2, <1>5, <1>6 DEF StoresCounted
<1>8. SlotsReserved'
  BY <1>1, <1>2, <1>5, <1>6, Constants DEF SlotsReserved, Reserved
<1> QED
  BY <1>4, <1>7, <1>8 DEF CopyInv

LEMMA OnStoreAcceptedStep ==
    ASSUME CopyInv, NEW line \in Lines, OnStoreAccepted(line)
    PROVE  CopyInv'
<1>1. /\ line \in storesDue /\ storesDue' = storesDue \ {line}
      /\ writesAccepted' = writesAccepted + 1
      /\ UNCHANGED <<produced, refills, issue, loaded, writing, stored>>
  BY DEF OnStoreAccepted
<1>2. Located /\ SlotsReserved /\ StoresCounted
  BY DEF CopyInv
<1>3. /\ heldCompute = <<>>
      /\ readsInflight = Cardinality(reading) + Cardinality(loaded)
      /\ readsInflight <= MaxOutstanding
      /\ readsInflight + Cardinality(compute) + 0 <= ComputeSlots
  BY <1>2 DEF SlotsReserved, Reserved
<1>4. /\ Cardinality(reading) \in Nat /\ Cardinality(loaded) \in Nat
      /\ Cardinality(compute) \in Nat /\ Cardinality(storesDue) \in Nat
      /\ IsFiniteSet(reading) /\ IsFiniteSet(compute) /\ IsFiniteSet(storesDue)
  BY Finite, FS_CardinalityType
<1>5. StoresCounted'
  <2>1. Cardinality(storesDue') = Cardinality(storesDue) - 1
    BY <1>1, <1>4, FS_RemoveElement
  <2> QED
    BY <2>1, <1>1, <1>2, <1>4 DEF StoresCounted
<1>6. PumpReads(issueQ, readsInflight, compute, <<>>)
  BY <1>3 DEF OnStoreAccepted
<1>7. /\ issueQ \in Seq(Lines) /\ Distinct(issueQ)
      /\ SetOf(issueQ) \cap reading = {}
  BY <1>2 DEF Located, Spread
<1>8. /\ readsInflight \in Nat
      /\ readsInflight + Cardinality(compute) <= ComputeSlots
  BY <1>3, <1>4, Constants
<1>9. /\ heldCompute' = <<>> /\ compute' = compute
      /\ issueQ' \in Seq(Lines) /\ Distinct(issueQ')
      /\ SetOf(issueQ') \cup reading' = SetOf(issueQ) \cup reading
      /\ SetOf(issueQ') \cap reading' = {}
      /\ IsFiniteSet(reading')
      /\ readsInflight' \in Nat
      /\ readsInflight' + Cardinality(reading)
           = readsInflight + Cardinality(reading')
      /\ readsInflight' <= MaxOutstanding
      /\ readsInflight' + Cardinality(compute) <= ComputeSlots
  BY <1>3, <1>4, <1>6, <1>7, <1>8, PumpFacts
<1>10. Located'
  <2>1. /\ issue \cap SetOf(issueQ') = {}
        /\ (issue \cup SetOf(issueQ')) \cap reading' = {}
        /\ (issue \cup SetOf(issueQ') \cup reading')
             = issue \cup SetOf(issueQ) \cup reading
    BY <1>2, <1>9 DEF Located, Spread
  <2> QED
    BY <2>1, <1>1, <1>2, <1>9 DEF Located, Spread, SetOf
<1>11. Cardinality(reading') \in Nat
  BY <1>9, FS_CardinalityType
<1>12. SlotsReserved'
  <2>1. readsInflight' = Cardinality(reading') + Cardinality(loaded')
    <3>1. Cardinality(loaded') = Cardinality(loaded)
      BY <1>1
    <3>2. readsInflight' + Cardinality(reading)
            = readsInflight + Cardinality(reading')
      BY <1>9
    <3>3. readsInflight' \in Nat
      BY <1>9
    <3> QED
      BY <3>1, <3>2, <3>3, <1>3, <1>4, <1>11
  <2>2. readsInflight' + Cardinality(compute') + Len(heldCompute')
          <= ComputeSlots
    BY <1>4, <1>9, Constants
  <2> QED
    BY <2>1, <2>2, <1>9 DEF SlotsReserved, Reserved
<1> QED
  BY <1>5, <1>10, <1>12 DEF CopyInv

\* The DRAM services a read: its line is loaded, and still in flight.
LEMMA ServiceReadStep ==
    ASSUME CopyInv, NEW line \in Lines, ServiceRead(line)
    PROVE  CopyInv'
<1>1. /\ line \in reading /\ reading' = reading \ {line}
      /\ loaded' = loaded \cup {line}
      /\ UNCHANGED <<produced, refills, issue, issueQ, readsInflight, compute,
                     heldCompute, writing, storesDue, writesAccepted, stored>>
  BY DEF ServiceRead
<1>2. Located /\ SlotsReserved /\ StoresCounted
  BY DEF CopyInv
<1>3. line \notin loaded
  BY <1>1, <1>2 DEF Located, Spread
<1>4. Located'
  BY <1>1, <1>2 DEF Located, Spread, SetOf
<1>5. /\ IsFiniteSet(reading) /\ IsFiniteSet(loaded)
      /\ Cardinality(reading) \in Nat /\ Cardinality(loaded) \in Nat
  BY Finite, FS_CardinalityType
<1>6. /\ Cardinality(reading') = Cardinality(reading) - 1
      /\ Cardinality(loaded') = Cardinality(loaded) + 1
  BY <1>1, <1>3, <1>5, FS_AddElement, FS_RemoveElement
<1>7. SlotsReserved'
  BY <1>1, <1>2, <1>5, <1>6 DEF SlotsReserved, Reserved
<1> QED
  BY <1>1, <1>2, <1>4, <1>7 DEF CopyInv, StoresCounted

LEMMA CopyInvariant == Spec => []CopyInv
<1>1. CopyInv /\ [Next]_vars => CopyInv'
  <2> SUFFICES ASSUME CopyInv, [Next]_vars
               PROVE  CopyInv'
    OBVIOUS
  <2>1. CASE FillIssue
    BY <2>1, FillIssueStep
  <2>2. CASE Issue
    BY <2>2, OnIssueStep DEF Issue
  <2>3. CASE Load
    BY <2>3, OnLoadStep DEF Load
  <2>4. CASE Store
    BY <2>4, TryStoreStep DEF Store
  <2>5. CASE StoreAccepted
    BY <2>5, OnStoreAcceptedStep DEF StoreAccepted
  <2>6. ASSUME NEW line \in Lines, ServiceRead(line)
        PROVE  CopyInv'
    BY <2>6, ServiceReadStep
  <2>7. ASSUME NEW line \in Lines, ServiceWrite(line)
        PROVE  CopyInv'
    BY <2>7 DEF ServiceWrite, CopyInv, Located, Spread, StoresCounted,
               SlotsReserved, Reserved, SetOf
  <2>8. CASE UNCHANGED vars
    BY <2>8 DEF vars, CopyInv, Located, Spread, StoresCounted, SlotsReserved,
               Reserved, SetOf
  <2> QED
    BY <2>1, <2>2, <2>3, <2>4, <2>5, <2>6, <2>7, <2>8
       DEF Next, Service, Finished
<1> QED
  BY <1>1, InitCopy, PTL DEF Spec

\* A completion finds a free compute slot, with every size of pipes and queues
\* and every number of credits (_pump_reads(), _compute_reserved()).
THEOREM CreditsCorrect == Spec => []SlotsReserved
<1>1. CopyInv => SlotsReserved
  BY DEF CopyInv
<1> QED
  BY <1>1, CopyInvariant, PTL

\* No line is dropped or copied twice between pipes, queue, credits and DRAM
\* (the handlers of CopyEngine in pipe_fifo_dram.py).
THEOREM LinesCorrect == Spec => []EachLineOnce
<1>1. CopyInv => EachLineOnce
  <2> SUFFICES ASSUME CopyInv PROVE EachLineOnce
    OBVIOUS
  <2>1. Located /\ StoresCounted /\ SlotsReserved
    BY DEF CopyInv
  <2>2. SetOf(heldCompute) = {}
    BY <2>1 DEF SlotsReserved, SetOf, Gotten
  <2>3. ASSUME NEW line \in Lines
        PROVE  Cardinality(Places(line)) = (IF line <= produced THEN 1 ELSE 0)
    <3> DEFINE place == <<issue, SetOf(issueQ), reading, loaded, compute,
                          SetOf(heldCompute), stored>>
    <3>1. /\ place[1] = issue /\ place[2] = SetOf(issueQ)
          /\ place[3] = reading /\ place[4] = loaded /\ place[5] = compute
          /\ place[6] = {} /\ place[7] = stored
      BY <2>2
    <3>2. Places(line) = {k \in 1 .. 7 : line \in place[k]}
      BY DEF Places
    <3>3. line \in 1 .. produced <=> line <= produced
      BY <2>1, Constants DEF Located, Lines
    <3> HIDE DEF place
    <3>4. \A j, k \in Places(line) : j = k
      BY <3>1, <3>2, <2>1 DEF Located, Spread
    <3>5. Places(line) # {} <=> line \in 1 .. produced
      BY <3>1, <3>2, <2>1 DEF Located, Spread
    <3>6. CASE Places(line) = {}
      BY <3>3, <3>5, <3>6, FS_EmptySet
    <3>7. CASE Places(line) # {}
      <4>1. PICK k : Places(line) = {k}
        BY <3>4, <3>7
      <4>2. Cardinality({k}) = 1
        BY FS_Singleton
      <4> QED
        BY <4>1, <4>2, <3>3, <3>5, <3>7
    <3> QED
      BY <3>6, <3>7
  <2>4. Len(issueQ) = Cardinality(SetOf(issueQ))
    <3>1. issueQ \in Seq(Lines) /\ Distinct(issueQ)
          /\ Len(issueQ) \in 0 .. Len(issueQ)
      BY <2>1 DEF Located
    <3> QED
      BY <3>1, GottenFacts DEF SetOf
  <2> QED
    BY <2>1, <2>3, <2>4 DEF EachLineOnce, StoresCounted
<1> QED
  BY <1>1, CopyInvariant, PTL
=============================================================================
