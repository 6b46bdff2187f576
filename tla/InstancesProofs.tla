-------------------------- MODULE InstancesProofs ---------------------------
(***************************************************************************)
(* Proofs about Instances: for any number of systems, and lists of any     *)
(* length, an instance reads and resets its own statistics only.  The      *)
(* inductive invariant adds to the two properties that a range ends within *)
(* the list, so that what is registered later lies outside of it.          *)
(***************************************************************************)
EXTENDS Instances, SequenceTheorems, TLAPS

Stat == [owner : Systems, valid : BOOLEAN, count : Nat]

\* Types, which the properties alone do not give.
StatsTypeOK ==
    /\ allStats \in Seq(Stat)
    /\ live \subseteq Systems
    /\ begin \in [Systems -> Nat] /\ end \in [Systems -> Nat]
    /\ counted \in [Systems -> Nat]

RangesEnd == \A s \in live : end[s] <= Len(allStats)

StatsInv == StatsTypeOK /\ RangesEnd /\ StatsAreOwn /\ CountsAreOwn

\* What was registered before stays where it was, and the new objects follow.
LEMMA RegisteredFacts ==
    ASSUME allStats \in Seq(Stat),
           NEW s \in Systems, NEW n \in Nat, NEW valid \in BOOLEAN
    PROVE  /\ Registered(s, n, valid) \in Seq(Stat)
           /\ Len(Registered(s, n, valid)) = Len(allStats) + n
           /\ \A k \in 1 .. Len(allStats) :
                 Registered(s, n, valid)[k] = allStats[k]
           /\ \A k \in Len(allStats) + 1 .. Len(allStats) + n :
                 Registered(s, n, valid)[k]
                     = [owner |-> s, valid |-> valid, count |-> 0]
<1> DEFINE new == [k \in 1 .. n |->
                     [owner |-> s, valid |-> valid, count |-> 0]]
<1>1. new \in Seq(Stat) /\ Len(new) = n
  BY DEF Stat
<1>2. Registered(s, n, valid) = allStats \o new
  BY DEF Registered
<1> HIDE DEF new
<1>3. /\ allStats \o new \in Seq(Stat)
      /\ Len(allStats \o new) = Len(allStats) + n
  BY <1>1
<1>4. \A k \in 1 .. Len(allStats) + n :
         (allStats \o new)[k] = IF k <= Len(allStats) THEN allStats[k]
                                ELSE new[k - Len(allStats)]
  BY <1>1
<1>5. \A k \in Len(allStats) + 1 .. Len(allStats) + n :
         new[k - Len(allStats)] = [owner |-> s, valid |-> valid, count |-> 0]
  BY DEF new
<1> QED
  BY <1>2, <1>3, <1>4, <1>5

\* The list as a function, and its entries.
LEMMA StatsTyped ==
    ASSUME StatsInv
    PROVE  /\ allStats \in Seq(Stat) /\ Len(allStats) \in Nat
           /\ DOMAIN allStats = 1 .. Len(allStats)
           /\ \A k \in DOMAIN allStats : allStats[k] \in Stat
  BY DEF StatsInv, StatsTypeOK

\* A list changed entry by entry keeps its length.
LEMMA Updated ==
    ASSUME StatsInv, NEW f \in [DOMAIN allStats -> Stat]
    PROVE  f \in Seq(Stat) /\ Len(f) = Len(allStats)
<1>1. f \in [1 .. Len(allStats) -> Stat] /\ Len(allStats) \in Nat
  BY StatsTyped
<1>2. f \in Seq(Stat)
  BY <1>1, SeqDef
<1> QED
  BY <1>1, <1>2

LEMMA InitStats == Init => StatsInv
  BY DEF Init, StatsInv, StatsTypeOK, RangesEnd, StatsAreOwn, CountsAreOwn,
         Zero, Stat

\* A new system has no statistics before, and all of the new ones.
LEMMA ConstructStep ==
    ASSUME StatsInv, NEW s \in Systems, NEW n \in Nat, Construct(s, n)
    PROVE  StatsInv'
<1> DEFINE len == Len(allStats)
<1>1. /\ allStats' = Registered(s, n, TRUE)
      /\ s \notin live /\ live' = live \cup {s}
      /\ begin' = [begin EXCEPT ![s] = len]
      /\ end' = [end EXCEPT ![s] = Len(allStats')]
      /\ counted' = [counted EXCEPT ![s] = 0]
  BY DEF Construct
<1>2. /\ allStats' \in Seq(Stat)
      /\ Len(allStats') = len + n
      /\ \A k \in 1 .. len : allStats'[k] = allStats[k]
      /\ \A k \in len + 1 .. len + n :
            allStats'[k] = [owner |-> s, valid |-> TRUE, count |-> 0]
  BY <1>1, StatsTyped, RegisteredFacts
<1>3. len \in Nat /\ DOMAIN allStats = 1 .. len /\ DOMAIN allStats' = 1 .. len + n
  BY <1>2, StatsTyped
<1>4. /\ live \subseteq Systems
      /\ begin \in [Systems -> Nat] /\ end \in [Systems -> Nat]
      /\ counted \in [Systems -> Nat]
      /\ \A t \in live : end[t] <= len
  BY DEF StatsInv, StatsTypeOK, RangesEnd
<1>5. StatsTypeOK' /\ RangesEnd'
  <2> HIDE DEF len
  <2>0. /\ begin' = [begin EXCEPT ![s] = len]
        /\ end' = [end EXCEPT ![s] = len + n]
        /\ live' = live \cup {s} /\ len \in Nat
    BY <1>1, <1>2, <1>3
  <2>1. begin' \in [Systems -> Nat] /\ end' \in [Systems -> Nat]
    BY <2>0, <1>4
  <2>2. \A t \in live' : end'[t] <= len + n
    BY <2>0, <1>4
  <2> QED
    BY <2>1, <2>2, <1>1, <1>2, <1>4 DEF StatsTypeOK, RangesEnd
<1>6. \A t \in live : Slice(t)' = Slice(t) /\ counted'[t] = counted[t] /\ t # s
  BY <1>1 DEF Slice, StatsInv, StatsTypeOK
<1>7. Slice(s)' = len + 1 .. len + n /\ counted'[s] = 0
  BY <1>1, <1>2 DEF Slice, StatsInv, StatsTypeOK
<1> HIDE DEF len
<1>8. StatsAreOwn'
  <2> SUFFICES ASSUME NEW t \in Systems
               PROVE  {k \in DOMAIN allStats' :
                          allStats'[k].valid /\ allStats'[k].owner = t}
                        = (IF t \in live' THEN Slice(t)' ELSE {})
    BY DEF StatsAreOwn
  <2> DEFINE old == {k \in DOMAIN allStats :
                        allStats[k].valid /\ allStats[k].owner = t}
  <2>1. old = (IF t \in live THEN Slice(t) ELSE {})
    BY DEF StatsInv, StatsAreOwn
  <2>2. {k \in DOMAIN allStats' :
            allStats'[k].valid /\ allStats'[k].owner = t}
          = old \cup (IF t = s THEN len + 1 .. len + n ELSE {})
    <3>1. \A k \in len + 1 .. len + n :
             allStats'[k].valid /\ allStats'[k].owner = s
      BY <1>2
    <3> QED
      BY <1>2, <1>3, <3>1
  <2> HIDE DEF old
  <2>3. CASE t = s
    BY <2>1, <2>2, <2>3, <1>1, <1>7
  <2>4. CASE t # s
    BY <2>1, <2>2, <2>4, <1>1, <1>6
  <2> QED
    BY <2>3, <2>4
<1>9. CountsAreOwn'
  <2>1. \A t \in live : Slice(t) \subseteq DOMAIN allStats
    BY DEF StatsInv, StatsAreOwn, StatsTypeOK
  <2>2. \A t \in live : \A k \in Slice(t) : allStats'[k].count = counted'[t]
    BY <2>1, <1>2, <1>3, <1>6 DEF StatsInv, CountsAreOwn
  <2>3. \A k \in Slice(s)' : allStats'[k].count = counted'[s]
    BY <1>2, <1>7
  <2> QED
    BY <2>2, <2>3, <1>1, <1>6 DEF CountsAreOwn
<1> QED
  BY <1>5, <1>8, <1>9 DEF StatsInv

\* What a failed construction leaves in the list is valid for nobody.
LEMMA ConstructFailingStep ==
    ASSUME StatsInv, NEW s \in Systems, NEW n \in Nat, ConstructFailing(s, n)
    PROVE  StatsInv'
<1> DEFINE len == Len(allStats)
<1>1. /\ allStats' = Registered(s, n, FALSE)
      /\ UNCHANGED <<live, begin, end, counted>>
  BY DEF ConstructFailing
<1>2. /\ allStats' \in Seq(Stat)
      /\ Len(allStats') = len + n
      /\ \A k \in 1 .. len : allStats'[k] = allStats[k]
      /\ \A k \in len + 1 .. len + n :
            allStats'[k] = [owner |-> s, valid |-> FALSE, count |-> 0]
  BY <1>1, StatsTyped, RegisteredFacts
<1>3. len \in Nat /\ DOMAIN allStats = 1 .. len /\ DOMAIN allStats' = 1 .. len + n
  BY <1>2, StatsTyped
<1>4. StatsTypeOK' /\ RangesEnd'
  <2>1. \A t \in live : end[t] <= len
    BY DEF StatsInv, RangesEnd
  <2> HIDE DEF len
  <2>2. live \subseteq Systems /\ end \in [Systems -> Nat]
    BY DEF StatsInv, StatsTypeOK
  <2>3. \A t \in live : end[t] <= len + n
    BY <2>1, <2>2, <1>3
  <2> QED
    BY <2>3, <1>1, <1>2 DEF StatsInv, StatsTypeOK, RangesEnd
<1>5. \A t \in Systems : Slice(t)' = Slice(t)
  BY <1>1 DEF Slice
<1> HIDE DEF len
<1>6. \A k \in len + 1 .. len + n : ~allStats'[k].valid
  BY <1>2
<1>7. \A t \in Systems :
         {k \in DOMAIN allStats' :
             allStats'[k].valid /\ allStats'[k].owner = t}
           = {k \in DOMAIN allStats :
                allStats[k].valid /\ allStats[k].owner = t}
  BY <1>2, <1>3, <1>6
<1>8. StatsAreOwn'
  BY <1>1, <1>5, <1>7 DEF StatsInv, StatsAreOwn
<1>9. CountsAreOwn'
  <2>1. \A t \in live : Slice(t) \subseteq DOMAIN allStats
    BY DEF StatsInv, StatsAreOwn, StatsTypeOK
  <2>2. live \subseteq Systems /\ \A t \in live : \A k \in Slice(t) :
           allStats[k].count = counted[t]
    BY <2>1 DEF StatsInv, StatsTypeOK, CountsAreOwn
  <2> QED
    BY <2>1, <2>2, <1>1, <1>2, <1>3, <1>5, ZenonT(40) DEF CountsAreOwn
<1> QED
  BY <1>4, <1>8, <1>9 DEF StatsInv

\* Two systems never share a statistic.
LEMMA SlicesApart ==
    ASSUME StatsInv, NEW s \in live, NEW t \in live, s # t
    PROVE  Slice(s) \cap Slice(t) = {}
  BY DEF StatsInv, StatsTypeOK, StatsAreOwn

LEMMA DestroyStep ==
    ASSUME StatsInv, NEW s \in Systems, Destroy(s)
    PROVE  StatsInv'
<1>1. /\ live' = live \ {s}
      /\ allStats' = [k \in DOMAIN allStats |->
                        IF allStats[k].owner = s
                          THEN [allStats[k] EXCEPT !.valid = FALSE]
                          ELSE allStats[k]]
      /\ begin' = [begin EXCEPT ![s] = 0] /\ end' = [end EXCEPT ![s] = 0]
      /\ counted' = [counted EXCEPT ![s] = 0]
  BY DEF Destroy
<1>2. /\ DOMAIN allStats' = DOMAIN allStats
      /\ \A k \in DOMAIN allStats :
            /\ allStats'[k] \in Stat
            /\ allStats'[k].owner = allStats[k].owner
            /\ allStats'[k].count = allStats[k].count
            /\ allStats'[k].valid = IF allStats[k].owner = s THEN FALSE
                                    ELSE allStats[k].valid
  BY <1>1, StatsTyped DEF Stat
<1>3. allStats' \in Seq(Stat) /\ Len(allStats') = Len(allStats)
  <2>1. allStats' \in [DOMAIN allStats -> Stat]
    BY <1>1, <1>2
  <2> QED
    BY <2>1, Updated
<1>4. StatsTypeOK' /\ RangesEnd'
  BY <1>1, <1>3 DEF StatsInv, StatsTypeOK, RangesEnd
<1>5. \A t \in live' : Slice(t)' = Slice(t) /\ counted'[t] = counted[t] /\ t # s
  BY <1>1 DEF Slice, StatsInv, StatsTypeOK
<1>6. StatsAreOwn'
  BY <1>1, <1>2, <1>5 DEF StatsInv, StatsAreOwn
<1>7. CountsAreOwn'
  BY <1>1, <1>2, <1>5 DEF StatsInv, CountsAreOwn
<1> QED
  BY <1>4, <1>6, <1>7 DEF StatsInv

\* Counting and resetting keep the list, its owners and what is valid.
LEMMA SameOwners ==
    ASSUME StatsInv, UNCHANGED <<live, begin, end>>,
           allStats' \in Seq(Stat), Len(allStats') = Len(allStats),
           \A k \in DOMAIN allStats :
              /\ allStats'[k].owner = allStats[k].owner
              /\ allStats'[k].valid = allStats[k].valid
    PROVE  /\ RangesEnd' /\ StatsAreOwn'
           /\ DOMAIN allStats' = DOMAIN allStats
           /\ \A t \in Systems : Slice(t)' = Slice(t)
<1>1. DOMAIN allStats' = DOMAIN allStats
  BY DEF StatsInv, StatsTypeOK
<1>2. \A t \in Systems : Slice(t)' = Slice(t)
  BY DEF Slice
<1> QED
  BY <1>1, <1>2 DEF StatsInv, RangesEnd, StatsAreOwn

LEMMA CountStep ==
    ASSUME StatsInv, NEW s \in Systems, Count(s)
    PROVE  StatsInv'
<1>1. /\ s \in live /\ UNCHANGED <<live, begin, end>>
      /\ counted' = [counted EXCEPT ![s] = @ + 1]
      /\ allStats' = [k \in DOMAIN allStats |->
                        IF allStats[k].valid /\ allStats[k].owner = s
                          THEN [allStats[k] EXCEPT !.count = @ + 1]
                          ELSE allStats[k]]
  BY DEF Count
<1>2. /\ DOMAIN allStats' = DOMAIN allStats
      /\ \A k \in DOMAIN allStats :
            /\ allStats'[k] \in Stat
            /\ allStats'[k].owner = allStats[k].owner
            /\ allStats'[k].valid = allStats[k].valid
            /\ allStats'[k].count = IF k \in Slice(s) THEN allStats[k].count + 1
                                    ELSE allStats[k].count
  <2>1. \A k \in DOMAIN allStats :
           (allStats[k].valid /\ allStats[k].owner = s) <=> k \in Slice(s)
    BY <1>1 DEF StatsInv, StatsAreOwn
  <2>2. allStats' = [k \in DOMAIN allStats |->
                       IF k \in Slice(s)
                         THEN [allStats[k] EXCEPT !.count = @ + 1]
                         ELSE allStats[k]]
    BY <2>1, <1>1
  <2> QED
    BY <2>2, StatsTyped, SMTT(30) DEF Stat
<1>3. allStats' \in Seq(Stat) /\ Len(allStats') = Len(allStats)
  <2>1. allStats' \in [DOMAIN allStats -> Stat]
    BY <1>1, <1>2
  <2> QED
    BY <2>1, Updated
<1>4. /\ RangesEnd' /\ StatsAreOwn'
      /\ \A t \in Systems : Slice(t)' = Slice(t)
  BY <1>1, <1>2, <1>3, SameOwners
<1>5. StatsTypeOK'
  BY <1>1, <1>3 DEF StatsInv, StatsTypeOK
<1>6. CountsAreOwn'
  <2>1. \A t \in live : t # s => Slice(t) \cap Slice(s) = {}
    BY <1>1, SlicesApart
  <2>2. /\ live \subseteq Systems /\ counted \in [Systems -> Nat]
        /\ \A t \in live : \A k \in Slice(t) :
              k \in DOMAIN allStats => allStats[k].count = counted[t]
    BY DEF StatsInv, StatsTypeOK, CountsAreOwn
  <2>3. \A t \in live : counted'[t] = IF t = s THEN counted[t] + 1
                                       ELSE counted[t]
    BY <2>2, <1>1
  <2>4. ASSUME NEW t \in live, NEW k \in Slice(t), k \in DOMAIN allStats
        PROVE  allStats'[k].count = counted'[t]
    <3>1. allStats[k].count = counted[t]
      BY <2>2, <2>4
    <3>2. k \in Slice(s) <=> t = s
      BY <2>1, <2>4
    <3> QED
      BY <2>3, <2>4, <3>1, <3>2, <1>2
  <2> QED
    BY <2>2, <2>4, <1>1, <1>2, <1>4 DEF CountsAreOwn
<1> QED
  BY <1>4, <1>5, <1>6 DEF StatsInv

LEMMA ResetStep ==
    ASSUME StatsInv, NEW s \in Systems, ResetStats(s)
    PROVE  StatsInv'
<1>1. /\ s \in live /\ UNCHANGED <<live, begin, end>>
      /\ counted' = [counted EXCEPT ![s] = 0]
      /\ allStats' = [k \in DOMAIN allStats |->
                        IF k \in Slice(s) THEN [allStats[k] EXCEPT !.count = 0]
                        ELSE allStats[k]]
  BY DEF ResetStats, Zeroed
<1>2. /\ DOMAIN allStats' = DOMAIN allStats
      /\ \A k \in DOMAIN allStats :
            /\ allStats'[k] \in Stat
            /\ allStats'[k].owner = allStats[k].owner
            /\ allStats'[k].valid = allStats[k].valid
            /\ allStats'[k].count = IF k \in Slice(s) THEN 0
                                    ELSE allStats[k].count
  BY <1>1, StatsTyped DEF Stat
<1>3. allStats' \in Seq(Stat) /\ Len(allStats') = Len(allStats)
  <2>1. allStats' \in [DOMAIN allStats -> Stat]
    BY <1>1, <1>2
  <2> QED
    BY <2>1, Updated
<1>4. /\ RangesEnd' /\ StatsAreOwn'
      /\ \A t \in Systems : Slice(t)' = Slice(t)
  BY <1>1, <1>2, <1>3, SameOwners
<1>5. StatsTypeOK'
  BY <1>1, <1>3 DEF StatsInv, StatsTypeOK
<1>6. CountsAreOwn'
  <2>1. \A t \in live : t # s => Slice(t) \cap Slice(s) = {}
    BY <1>1, SlicesApart
  <2>2. /\ live \subseteq Systems /\ counted \in [Systems -> Nat]
        /\ \A t \in live : \A k \in Slice(t) :
              k \in DOMAIN allStats => allStats[k].count = counted[t]
    BY DEF StatsInv, StatsTypeOK, CountsAreOwn
  <2> QED
    BY <2>1, <2>2, <1>1, <1>2, <1>4 DEF CountsAreOwn
<1> QED
  BY <1>4, <1>5, <1>6 DEF StatsInv

LEMMA StatsInvariant == Spec => []StatsInv
<1>1. StatsInv /\ [Next]_vars => StatsInv'
  <2> SUFFICES ASSUME StatsInv, [Next]_vars
               PROVE  StatsInv'
    OBVIOUS
  <2>1. ASSUME NEW s \in Systems, NEW n \in 0 .. MaxStats,
               Construct(s, n) \/ ConstructFailing(s, n)
        PROVE  StatsInv'
    BY <2>1, ConstructStep, ConstructFailingStep, InstancesAssumption
  <2>2. ASSUME NEW s \in Systems, Destroy(s) \/ Count(s) \/ ResetStats(s)
        PROVE  StatsInv'
    BY <2>2, DestroyStep, CountStep, ResetStep
  <2>3. CASE ResetSole
    BY <2>3, ResetStep DEF ResetSole, SoleLive, StatsInv, StatsTypeOK
  <2>4. CASE UNCHANGED vars
    BY <2>4 DEF vars, StatsInv, StatsTypeOK, RangesEnd, StatsAreOwn,
               CountsAreOwn, Slice
  <2> QED
    BY <2>1, <2>2, <2>3, <2>4 DEF Next
<1> QED
  BY <1>1, InitStats, PTL DEF Spec

\* The range of every live instance holds its own statistics, all of them and
\* no others, for any number of systems and statistics (stats_slice()).
THEOREM OwnStats == Spec => []StatsAreOwn
<1>1. StatsInv => StatsAreOwn
  BY DEF StatsInv
<1> QED
  BY <1>1, StatsInvariant, PTL

\* What an instance reports is what it did since its own last reset
\* (get_stats(), reset_stats(), and the module-level reset_stats()).
THEOREM OwnCounts == Spec => []CountsAreOwn
<1>1. StatsInv => CountsAreOwn
  BY DEF StatsInv
<1> QED
  BY <1>1, StatsInvariant, PTL
=============================================================================
