----------------------------- MODULE DramProofs -----------------------------
(***************************************************************************)
(* Proofs about Dram for every set of requests, period, burst, batch and   *)
(* agenda.  The invariant counts the events of each kind and bounds when   *)
(* they are due; what the engine still owes its clients is counted over    *)
(* the three places it can be.                                             *)
(***************************************************************************)
EXTENDS Dram, AgendaProofs

Timed == [due : Int, priority : {0}, run : {"tick", "client"}]
Idling == [due : Int, priority : {0}, run : {"idle"}, id : {0, 1}]
Answers ==
    [due : Int, priority : {CompletionPriority}, run : {"done"}, req : Requests]
Event == Timed \cup Idling \cup Answers

Ticks == {e \in Event : e.run = "tick"}
Idles == {e \in Event : e.run = "idle"}
AnswersTo(r) == {e \in Answers : e.req = r}

\* The idle events that no stored id names.
Strays == {e \in Idles : e.id # idleEventId}

\* When the events of a kind are due.
Dues(a, W) == {a[k].due : k \in {j \in DOMAIN a : a[j] \in W}}

\* The events are those of this module, in firing order.
Sane(a) == a \in Seq(Event) /\ Ordered(a)

\* The numbers of the constants, one by one.
LEMMA Constants ==
    /\ Reads \subseteq Requests /\ Writes \subseteq Requests
    /\ Reads \cap Writes = {} /\ Silent \subseteq Requests
    /\ Queue \in Nat /\ BurstCap \in Nat /\ BurstCap >= 1
    /\ Period \in Nat /\ Period >= 1
    /\ IdleBatch \in Nat /\ IdleBatch >= 1
    /\ MaxIdleBatch \in Nat /\ MaxIdleBatch >= IdleBatch
    /\ MaxBehind \in Nat /\ MaxBehind >= MaxIdleBatch * Period
    /\ CompletionPriority \in Int /\ None \notin Int
    /\ IdleModes \subseteq BOOLEAN /\ Delays \subseteq Nat /\ MaxRefreshes \in Nat
  BY DramAssumption DEF Requests

-----------------------------------------------------------------------------
(* Events.                                                                 *)

LEMMA EventFacts ==
    ASSUME NEW e \in Event
    PROVE  /\ {"due", "priority"} \subseteq DOMAIN e
           /\ e.due \in Int /\ e.priority \in Int
           /\ e.run \in {"tick", "idle", "client", "done"}
           /\ e \in Answers <=> e.run = "done"
           /\ e.run = "done" => e.req \in Requests
           /\ e.run = "idle" => e.id \in {0, 1}
           /\ \A d \in Int : /\ [e EXCEPT !.due = d] \in Event
                             /\ [e EXCEPT !.due = d].due = d
                             /\ [e EXCEPT !.due = d].run = e.run
                             /\ e.run = "done" => [e EXCEPT !.due = d].req = e.req
                             /\ e.run = "idle" => [e EXCEPT !.due = d].id = e.id
<1>1. CASE e \in Timed
  <2>1. /\ {"due", "priority"} \subseteq DOMAIN e
        /\ e.due \in Int /\ e.priority = 0
        /\ e.run \in {"tick", "client"}
    BY <1>1 DEF Timed
  <2>2. ASSUME NEW d \in Int
        PROVE  /\ [e EXCEPT !.due = d] \in Timed
               /\ [e EXCEPT !.due = d].due = d
               /\ [e EXCEPT !.due = d].run = e.run
    BY <1>1 DEF Timed
  <2>3. e.run # "done" /\ e \notin Answers
    BY <2>1 DEF Answers
  <2> QED
    BY <2>1, <2>2, <2>3 DEF Event
<1>2. CASE e \in Answers
  <2>1. /\ {"due", "priority"} \subseteq DOMAIN e
        /\ e.due \in Int /\ e.priority \in Int
        /\ e.run = "done" /\ e.req \in Requests
    BY <1>2, Constants DEF Answers
  <2>2. ASSUME NEW d \in Int
        PROVE  /\ [e EXCEPT !.due = d] \in Answers
               /\ [e EXCEPT !.due = d].due = d
               /\ [e EXCEPT !.due = d].run = e.run
               /\ [e EXCEPT !.due = d].req = e.req
    BY <1>2 DEF Answers
  <2> QED
    BY <1>2, <2>1, <2>2 DEF Event
<1>3. CASE e \in Idling
  <2>1. /\ {"due", "priority"} \subseteq DOMAIN e
        /\ e.due \in Int /\ e.priority = 0
        /\ e.run = "idle" /\ e.id \in {0, 1}
    BY <1>3 DEF Idling
  <2>2. ASSUME NEW d \in Int
        PROVE  /\ [e EXCEPT !.due = d] \in Idling
               /\ [e EXCEPT !.due = d].due = d
               /\ [e EXCEPT !.due = d].run = e.run
               /\ [e EXCEPT !.due = d].id = e.id
    BY <1>3 DEF Idling
  <2>3. e \notin Answers
    BY <2>1 DEF Answers
  <2> QED
    BY <2>1, <2>2, <2>3 DEF Event
<1> QED
  BY <1>1, <1>2, <1>3 DEF Event

\* The kinds of events the invariant counts do not depend on the time.
LEMMA Kinds ==
    /\ Timeless(Event, Event)
    /\ Timeless(Ticks, Event) /\ Timeless(Idles, Event)
    /\ Timeless(Answers, Event) /\ Timeless(Strays, Event)
    /\ \A r : Timeless(AnswersTo(r), Event)
<1>1. Timeless(Event, Event)
  BY EventFacts DEF Timeless
<1>2. Timeless(Ticks, Event) /\ Timeless(Idles, Event)
  BY EventFacts DEF Timeless, Ticks, Idles
<1>3. Timeless(Answers, Event)
  <2>1. ASSUME NEW e \in Event, NEW d \in Int
        PROVE  [e EXCEPT !.due = d] \in Answers <=> e \in Answers
    <3>1. /\ [e EXCEPT !.due = d] \in Event /\ [e EXCEPT !.due = d].run = e.run
          /\ e \in Answers <=> e.run = "done"
      BY EventFacts
    <3>2. [e EXCEPT !.due = d] \in Answers <=> [e EXCEPT !.due = d].run = "done"
      BY <3>1, EventFacts
    <3> QED
      BY <3>1, <3>2
  <2> HIDE DEF Answers, Event
  <2> QED
    BY <1>1, <2>1 DEF Timeless
<1>4. ASSUME NEW r PROVE Timeless(AnswersTo(r), Event)
  BY EventFacts DEF Timeless, AnswersTo
<1>5. Timeless(Strays, Event)
  BY EventFacts DEF Timeless, Strays, Idles
<1> QED
  BY <1>1, <1>2, <1>3, <1>4, <1>5

LEMMA NewEvents ==
    /\ TickEvent \in Event /\ TickEvent.due = Period
    /\ TickEvent \in Ticks /\ TickEvent \notin Idles /\ TickEvent \notin Answers
    /\ \A c \in Nat, i \in {0, 1} :
          /\ IdleEvent(c, i) \in Event /\ IdleEvent(c, i).due = c * Period
          /\ IdleEvent(c, i) \in Idles /\ IdleEvent(c, i).id = i
          /\ IdleEvent(c, i) \notin Ticks /\ IdleEvent(c, i) \notin Answers
    /\ \A d \in Nat : /\ ClientEvent(d) \in Event /\ ClientEvent(d).due = d
                      /\ ClientEvent(d) \notin Ticks /\ ClientEvent(d) \notin Idles
                      /\ ClientEvent(d) \notin Answers
    /\ \A r \in Requests : /\ DoneEvent(r) \in Event /\ DoneEvent(r) \in Answers
                           /\ DoneEvent(r).due = 0
                           /\ DoneEvent(r).priority = CompletionPriority
                           /\ DoneEvent(r) \notin Ticks /\ DoneEvent(r) \notin Idles
                           /\ \A s : DoneEvent(r) \in AnswersTo(s) <=> r = s
<1>1. /\ TickEvent \in Timed /\ TickEvent.due = Period /\ TickEvent.run = "tick"
  BY Constants DEF TickEvent, Timed
<1>2. ASSUME NEW c \in Nat, NEW i \in {0, 1}
      PROVE  /\ IdleEvent(c, i) \in Idling /\ IdleEvent(c, i).due = c * Period
             /\ IdleEvent(c, i).run = "idle" /\ IdleEvent(c, i).id = i
  <2>1. c * Period \in Int
    BY Constants
  <2> QED
    BY <2>1 DEF IdleEvent, Idling
<1>3. ASSUME NEW d \in Nat
      PROVE  /\ ClientEvent(d) \in Timed /\ ClientEvent(d).due = d
             /\ ClientEvent(d).run = "client"
  BY DEF ClientEvent, Timed
<1>4. ASSUME NEW r \in Requests
      PROVE  /\ DoneEvent(r) \in Answers /\ DoneEvent(r).due = 0
             /\ DoneEvent(r).priority = CompletionPriority
             /\ DoneEvent(r).run = "done" /\ DoneEvent(r).req = r
  BY Constants DEF DoneEvent, Answers
<1>5. ASSUME NEW e \in Timed \cup Idling PROVE e \notin Answers
  BY DEF Timed, Idling, Answers
<1>6. /\ TickEvent \in Event
      /\ TickEvent \in Ticks /\ TickEvent \notin Idles /\ TickEvent \notin Answers
  BY <1>1, <1>5 DEF Event, Ticks, Idles
<1>7. ASSUME NEW c \in Nat, NEW i \in {0, 1}
      PROVE  /\ IdleEvent(c, i) \in Event /\ IdleEvent(c, i) \in Idles
             /\ IdleEvent(c, i) \notin Ticks /\ IdleEvent(c, i) \notin Answers
  BY <1>2, <1>5 DEF Event, Ticks, Idles
<1>8. ASSUME NEW d \in Nat
      PROVE  /\ ClientEvent(d) \in Event
             /\ ClientEvent(d) \notin Ticks /\ ClientEvent(d) \notin Idles
             /\ ClientEvent(d) \notin Answers
  BY <1>3, <1>5 DEF Event, Ticks, Idles
<1>9. ASSUME NEW r \in Requests
      PROVE  /\ DoneEvent(r) \in Event
             /\ DoneEvent(r) \notin Ticks /\ DoneEvent(r) \notin Idles
             /\ \A s : DoneEvent(r) \in AnswersTo(s) <=> r = s
  BY <1>4 DEF Event, Ticks, Idles, AnswersTo
<1> QED
  BY <1>1, <1>2, <1>3, <1>4, <1>6, <1>7, <1>8, <1>9

LEMMA NewIdFacts == NewId \in {0, 1}
  BY DEF NewId

LEMMA SaneFacts ==
    ASSUME NEW a, Sane(a)
    PROVE  /\ IsAgenda(a, Event) /\ Ordered(a) /\ a \in Seq(Event)
           /\ Len(a) \in Nat /\ DOMAIN a = 1 .. Len(a)
           /\ \A k \in 1 .. Len(a) :
                 /\ a[k] \in Event /\ a[k].due \in Int
                 /\ {"due", "priority"} \subseteq DOMAIN a[k]
<1>1. a \in Seq(Event) /\ Ordered(a)
  BY DEF Sane
<1>2. \A k \in 1 .. Len(a) : a[k] \in Event
  BY <1>1
<1>3. IsAgenda(a, Event)
  BY <1>1, <1>2, EventFacts DEF IsAgenda
<1> QED
  BY <1>1, <1>2, <1>3, EventFacts

\* When events are due, position by position.
LEMMA DuesFacts ==
    ASSUME NEW a, Sane(a), NEW W
    PROVE  /\ \A d : d \in Dues(a, W) <=>
                        \E k \in 1 .. Len(a) : a[k] \in W /\ d = a[k].due
           /\ Dues(a, W) \subseteq Int
           /\ Dues(a, W) \subseteq Dues(a, Event)
           /\ Count(a, W) \in Nat
           /\ Count(a, W) = 0 <=> Dues(a, W) = {}
           /\ Count(a, W) = 1 =>
                 \A j, k \in 1 .. Len(a) : a[j] \in W /\ a[k] \in W => j = k
<1>1. /\ a \in Seq(Event) /\ DOMAIN a = 1 .. Len(a)
      /\ \A k \in 1 .. Len(a) : a[k] \in Event /\ a[k].due \in Int
  BY SaneFacts
<1>2. \A d : d \in Dues(a, W) <=> \E k \in 1 .. Len(a) : a[k] \in W /\ d = a[k].due
  BY <1>1 DEF Dues
<1>3. Dues(a, W) \subseteq Int /\ Dues(a, W) \subseteq Dues(a, Event)
  BY <1>1 DEF Dues
<1> DEFINE A == {k \in DOMAIN a : a[k] \in W}
<1>4. /\ IsFiniteSet(A) /\ Count(a, W) \in Nat
      /\ Count(a, W) = 0 <=> \A k \in DOMAIN a : a[k] \notin W
  BY <1>1, CountFacts
<1>5. Count(a, W) = 0 <=> Dues(a, W) = {}
  BY <1>1, <1>2, <1>4
<1>6. ASSUME Count(a, W) = 1, NEW j \in 1 .. Len(a), NEW k \in 1 .. Len(a),
             a[j] \in W, a[k] \in W
      PROVE  j = k
  <2>1. j \in A /\ k \in A /\ Cardinality(A) = 1
    BY <1>1, <1>6 DEF Count
  <2> HIDE DEF A
  <2>2. PICK x : A = {x}
    BY <1>4, <2>1, FS_Singleton
  <2> QED
    BY <2>1, <2>2
<1> QED
  BY <1>2, <1>3, <1>4, <1>5, <1>6

-----------------------------------------------------------------------------
(* What the steps do to the agenda.                                        *)

\* An event is scheduled.
LEMMA ScheduleFacts ==
    ASSUME NEW a, Sane(a), NEW e \in Event
    PROVE  /\ Sane(Inserted(a, e))
           /\ \A W : Count(Inserted(a, e), W)
                        = Count(a, W) + (IF e \in W THEN 1 ELSE 0)
           /\ \A W : \A d \in Dues(Inserted(a, e), W) :
                 d \in Dues(a, W) \/ (e \in W /\ d = e.due)
<1>1. IsAgenda(a, Event) /\ Ordered(a) /\ e.due \in Int /\ e.priority \in Int
  BY SaneFacts, EventFacts
<1>2. Sane(Inserted(a, e))
  BY <1>1, InsertedOrdered DEF IsAgenda, Sane
<1>3. ASSUME NEW W
      PROVE  Count(Inserted(a, e), W) = Count(a, W) + (IF e \in W THEN 1 ELSE 0)
  BY <1>1, CountInserted
<1>4. PICK n \in 0 .. Len(a) : IsInsertion(Inserted(a, e), a, n, e)
  BY <1>1, InsertedFacts
<1>5. ASSUME NEW W, NEW d \in Dues(Inserted(a, e), W)
      PROVE  d \in Dues(a, W) \/ (e \in W /\ d = e.due)
  <2>1. PICK k \in 1 .. Len(Inserted(a, e)) :
            Inserted(a, e)[k] \in W /\ d = Inserted(a, e)[k].due
    BY <1>2, DuesFacts
  <2>2. \/ \E j \in 1 .. Len(a) : Inserted(a, e)[k] = a[j]
        \/ Inserted(a, e)[k] = e
    BY <1>4 DEF IsInsertion
  <2> QED
    BY <2>1, <2>2, DuesFacts
<1> QED
  BY <1>2, <1>3, <1>5

\* Time passes.
LEMMA PassFacts ==
    ASSUME NEW a, Sane(a), NEW delta \in Int
    PROVE  /\ Sane(Elapsed(a, delta)) /\ Len(Elapsed(a, delta)) = Len(a)
           /\ \A W : Timeless(W, Event) =>
                 /\ Count(Elapsed(a, delta), W) = Count(a, W)
                 /\ \A d \in Dues(Elapsed(a, delta), W) : d + delta \in Dues(a, W)
<1> DEFINE t == Elapsed(a, delta)
<1>1. a \in Seq(Event) /\ Ordered(a) /\ IsAgenda(a, Event)
      /\ \A k \in 1 .. Len(a) : /\ a[k] \in Event /\ a[k].due \in Int
                                /\ {"due", "priority"} \subseteq DOMAIN a[k]
  BY SaneFacts
<1>2. Sane(t)
  BY <1>1, Kinds, CountElapsed DEF IsAgenda, Sane
<1>3. /\ Len(t) = Len(a)
      /\ \A k \in 1 .. Len(a) : t[k] = [a[k] EXCEPT !.due = a[k].due - delta]
  BY <1>1, ElapsedFacts
<1> HIDE DEF t
<1>4. ASSUME NEW k \in 1 .. Len(a) PROVE t[k].due + delta = a[k].due
  <2>1. a[k] \in Event /\ a[k].due - delta \in Int
    BY <1>1
  <2>2. t[k].due = a[k].due - delta
    BY <1>3, <2>1, EventFacts
  <2> QED
    BY <1>1, <2>2
<1>5. ASSUME NEW W, Timeless(W, Event), NEW d \in Dues(t, W)
      PROVE  d + delta \in Dues(a, W)
  <2>1. PICK k \in 1 .. Len(a) : t[k] \in W /\ d = t[k].due
    BY <1>2, <1>3, DuesFacts
  <2>2. a[k] \in Event /\ a[k].due - delta \in Int
    BY <1>1
  <2>3. a[k] \in W
    <3>1. [a[k] EXCEPT !.due = a[k].due - delta] \in W <=> a[k] \in W
      BY <1>5, <2>2 DEF Timeless
    <3> QED
      BY <1>3, <2>1, <3>1
  <2> QED
    BY <1>4, <2>1, <2>3, DuesFacts
<1>6. ASSUME NEW W, Timeless(W, Event) PROVE Count(t, W) = Count(a, W)
  BY <1>1, <1>6, CountElapsed DEF t
<1> QED
  BY <1>2, <1>3, <1>5, <1>6 DEF t

\* The head fires.  No event is left in the past.
LEMMA FireFacts ==
    ASSUME NEW a, Sane(a), a # <<>>
    PROVE  /\ Sane(AfterHead(a))
           /\ Head(a) \in Event /\ Head(a).due \in Int
           /\ \A W : Head(a) \in W => Head(a).due \in Dues(a, W)
           /\ \A W : Timeless(W, Event) =>
                 /\ Count(AfterHead(a), W)
                      = Count(a, W) - (IF Head(a) \in W THEN 1 ELSE 0)
                 /\ \A d \in Dues(AfterHead(a), W) :
                       d + Head(a).due \in Dues(a, W) /\ d >= 0
<1> DEFINE u == Tail(a)
           h == Head(a).due
<1>1. a \in Seq(Event) /\ Ordered(a) /\ IsAgenda(a, Event) /\ DOMAIN a = 1 .. Len(a)
      /\ \A k \in 1 .. Len(a) : a[k] \in Event /\ a[k].due \in Int
  BY SaneFacts
<1>2. /\ IsAgenda(u, Event) /\ Ordered(u)
      /\ Len(u) = Len(a) - 1
      /\ \A k \in 1 .. Len(a) - 1 :
            /\ u[k] = a[k + 1] /\ k + 1 \in 1 .. Len(a)
            /\ a[k + 1].due >= h
      /\ Head(a) = a[1] /\ 1 \in 1 .. Len(a)
      /\ h \in Int
  BY <1>1, TailOrdered
<1> HIDE DEF u
<1>3. Sane(u)
  BY <1>2 DEF Sane, IsAgenda
<1>4. ASSUME NEW W, NEW d \in Dues(u, W) PROVE d \in Dues(a, W) /\ d >= h
  <2>1. PICK k \in 1 .. Len(a) - 1 : u[k] \in W /\ d = u[k].due
    BY <1>2, <1>3, DuesFacts
  <2> QED
    BY <1>2, <2>1, DuesFacts
<1>5. AfterHead(a) = Elapsed(u, h)
  BY DEF AfterHead, u
<1>6. Sane(AfterHead(a))
  BY <1>2, <1>3, <1>5, PassFacts
<1>7. ASSUME NEW W, Timeless(W, Event), NEW d \in Dues(AfterHead(a), W)
      PROVE  d + h \in Dues(a, W) /\ d >= 0
  <2>1. d + h \in Dues(u, W)
    BY <1>2, <1>3, <1>5, <1>7, PassFacts
  <2>2. d \in Int
    BY <1>6, DuesFacts
  <2>3. d + h \in Dues(a, W) /\ d + h >= h
    BY <1>4, <2>1
  <2> QED
    BY <1>2, <2>2, <2>3
<1>8. ASSUME NEW W, Timeless(W, Event)
      PROVE  Count(AfterHead(a), W) = Count(a, W) - (IF Head(a) \in W THEN 1 ELSE 0)
  BY <1>1, <1>8, CountAfterHead
<1>9. ASSUME NEW W, Head(a) \in W PROVE h \in Dues(a, W)
  BY <1>2, <1>9, DuesFacts
<1> QED
  BY <1>1, <1>2, <1>6, <1>7, <1>8, <1>9

\* Completions become events that are due now.
LEMMA DeliverFacts ==
    ASSUME NEW a, Sane(a), NEW cs \in Seq(Requests)
    PROVE  /\ Sane(Delivered(a, cs))
           /\ Count(Delivered(a, cs), Ticks) = Count(a, Ticks)
           /\ Count(Delivered(a, cs), Idles) = Count(a, Idles)
           /\ \A r : Count(Delivered(a, cs), AnswersTo(r))
                        = Count(a, AnswersTo(r)) + Count(cs, {r})
           /\ \A W : \A d \in Dues(Delivered(a, cs), W) :
                 d \in Dues(a, W) \/ (d = 0 /\ W \cap Answers # {})
<1> DEFINE es == [k \in DOMAIN cs |-> DoneEvent(cs[k])]
           t == Delivered(a, cs)
<1>1. IsAgenda(a, Event) /\ Ordered(a) /\ a \in Seq(Event)
  BY SaneFacts
<1>2. \A k \in 1 .. Len(cs) : cs[k] \in Requests
  OBVIOUS
<1>3. DOMAIN cs = 1 .. Len(cs) /\ Len(cs) \in Nat
  OBVIOUS
<1>4. \A k \in 1 .. Len(cs) : es[k] = DoneEvent(cs[k])
  BY <1>3
<1>5. es \in Seq(Event) /\ Len(es) = Len(cs) /\ DOMAIN es = 1 .. Len(cs)
  <2>1. \A k \in 1 .. Len(cs) : DoneEvent(cs[k]) \in Event
    BY <1>2, NewEvents
  <2> QED
    BY <1>3, <2>1
<1>6. t = InsertedAll(a, DoneTime, es)
  BY DEF Delivered
<1> HIDE DEF es
<1>7. DoneTime.due = 0 /\ DoneTime.priority = CompletionPriority
  BY DEF DoneTime
<1>8. \A k \in 1 .. Len(es) :
         es[k].due = DoneTime.due /\ es[k].priority = DoneTime.priority
  BY <1>2, <1>4, <1>5, <1>7, NewEvents
<1>9. /\ IsAgenda(t, Event) /\ Ordered(t)
      /\ \A W : Count(t, W) = Count(a, W) + Count(es, W)
      /\ Len(t) = Len(a) + Len(es)
      /\ \A k \in 1 .. Len(a) + Len(es) :
            \/ \E j \in 1 .. Len(a) : t[k] = a[j]
            \/ \E j \in 1 .. Len(es) : t[k] = es[j]
  <2>1. DoneTime.due \in Int /\ DoneTime.priority \in Int
    BY <1>7, Constants
  <2> QED
    <3> HIDE DEF t
    <3> DEFINE u == InsertedAll(a, DoneTime, es)
    <3>1. IsAgenda(u, Event) /\ Ordered(u)
      BY <1>1, <1>5, <1>8, <2>1, InsertedAllFacts
    <3>2. \A W : Count(u, W) = Count(a, W) + Count(es, W)
      BY <1>1, <1>5, <1>8, <2>1, InsertedAllFacts
    <3>3. IsMerge(u, a, es)
      BY <1>1, <1>5, <1>8, <2>1, InsertedAllFacts
    <3> HIDE DEF u
    <3>5. t = u
      BY <1>6 DEF u
    <3> QED
      BY <3>1, <3>2, <3>3, <3>5 DEF IsMerge
<1> HIDE DEF t
<1>10. Sane(t)
  BY <1>9 DEF Sane, IsAgenda
<1>11. Count(t, Ticks) = Count(a, Ticks) /\ Count(t, Idles) = Count(a, Idles)
  <2>1. \A k \in DOMAIN es : es[k] \notin Ticks /\ es[k] \notin Idles
    BY <1>2, <1>4, <1>5, NewEvents
  <2>2. Count(es, Ticks) = 0 /\ Count(es, Idles) = 0
    BY <1>5, <2>1, CountFacts
  <2>3. Count(a, Ticks) \in Nat /\ Count(a, Idles) \in Nat
    BY DuesFacts
  <2> QED
    BY <1>9, <2>2, <2>3
<1>12. ASSUME NEW r
       PROVE  Count(t, AnswersTo(r)) = Count(a, AnswersTo(r)) + Count(cs, {r})
  <2>1. {k \in DOMAIN es : es[k] \in AnswersTo(r)} = {k \in DOMAIN cs : cs[k] \in {r}}
    BY <1>2, <1>3, <1>4, <1>5, NewEvents
  <2>2. Count(es, AnswersTo(r)) = Count(cs, {r})
    BY <2>1 DEF Count
  <2> QED
    BY <1>9, <2>2
<1>13. ASSUME NEW W, NEW d \in Dues(t, W)
       PROVE  d \in Dues(a, W) \/ (d = 0 /\ W \cap Answers # {})
  <2>1. PICK k \in 1 .. Len(a) + Len(es) : t[k] \in W /\ d = t[k].due
    BY <1>9, <1>10, DuesFacts
  <2>2. CASE \E j \in 1 .. Len(a) : t[k] = a[j]
    BY <2>1, <2>2, DuesFacts
  <2>3. CASE \E j \in 1 .. Len(es) : t[k] = es[j]
    BY <1>2, <1>4, <1>5, <2>1, <2>3, NewEvents
  <2> QED
    BY <1>9, <2>2, <2>3
<1> QED
  BY <1>10, <1>11, <1>12, <1>13 DEF t

\* Cancelling the idle event that is there and named leaves the others.
LEMMA CancelFacts ==
    ASSUME NEW a, Sane(a), Count(a, Idles) = 1, Dues(a, Strays) = {}
    PROVE  /\ Sane(WithoutIdle(a))
           /\ Count(WithoutIdle(a), Ticks) = Count(a, Ticks)
           /\ Count(WithoutIdle(a), Idles) = 0
           /\ \A r : Count(WithoutIdle(a), AnswersTo(r)) = Count(a, AnswersTo(r))
           /\ \A W : Dues(WithoutIdle(a), W) \subseteq Dues(a, W)
<1>1. IsAgenda(a, Event) /\ Ordered(a) /\ DOMAIN a = 1 .. Len(a)
      /\ \A k \in 1 .. Len(a) : a[k] \in Event
  BY SaneFacts
<1> DEFINE N == {k \in DOMAIN a : a[k].run = "idle" /\ a[k].id = idleEventId}
           i == CHOOSE k \in N : TRUE
           t == RemoveAt(a, i)
<1>2. N # {}
  <2>1. PICK d : d \in Dues(a, Idles)
    BY DuesFacts
  <2>2. PICK k \in 1 .. Len(a) : a[k] \in Idles
    BY <2>1, DuesFacts
  <2>3. ASSUME a[k] \in Strays PROVE FALSE
    <3>1. a[k].due \in Dues(a, Strays)
      BY <1>1, <2>2, <2>3 DEF Dues
    <3> QED
      BY <3>1
  <2> QED
    BY <1>1, <2>2, <2>3 DEF Idles, Strays
<1>3. i \in 1 .. Len(a) /\ a[i].run = "idle"
  BY <1>1, <1>2
<1>4. t = WithoutIdle(a)
  BY <1>2 DEF WithoutIdle
<1> HIDE DEF i
<1>5. /\ IsAgenda(t, Event) /\ Ordered(t)
      /\ \A k \in 1 .. Len(t) : \E j \in 1 .. Len(a) : t[k] = a[j]
  BY <1>1, <1>3, RemoveAtFacts
<1>6. \A W : Count(t, W) = Count(a, W) - (IF a[i] \in W THEN 1 ELSE 0)
  BY <1>1, <1>3, RemoveAtFacts
<1> HIDE DEF t
<1>7. Sane(t)
  BY <1>5 DEF Sane, IsAgenda
<1>8. a[i] \in Idles /\ a[i] \notin Ticks /\ a[i] \notin Answers
  BY <1>1, <1>3, EventFacts DEF Idles, Ticks
<1>9. Count(t, Ticks) = Count(a, Ticks)
  <2>1. Count(a, Ticks) \in Nat /\ Count(t, Ticks) = Count(a, Ticks) - 0
    BY <1>6, <1>8, DuesFacts
  <2> QED
    BY <2>1
<1>10. Count(t, Idles) = 0
  BY <1>6, <1>8
<1>11. ASSUME NEW r PROVE Count(t, AnswersTo(r)) = Count(a, AnswersTo(r))
  <2>1. a[i] \notin AnswersTo(r)
    BY <1>8 DEF AnswersTo
  <2>2. /\ Count(a, AnswersTo(r)) \in Nat
        /\ Count(t, AnswersTo(r)) = Count(a, AnswersTo(r)) - 0
    BY <1>6, <2>1, DuesFacts
  <2> QED
    BY <2>2
<1>12. ASSUME NEW W, NEW d \in Dues(t, W) PROVE d \in Dues(a, W)
  <2>1. PICK k \in 1 .. Len(t) : t[k] \in W /\ d = t[k].due
    BY <1>7, DuesFacts
  <2> QED
    BY <1>5, <2>1, DuesFacts
<1> QED
  BY <1>4, <1>7, <1>9, <1>10, <1>11, <1>12

\* Whatever the flags say, as long as they are right about the events, one
\* tick is scheduled afterwards and no idle event.
LEMMA StartFacts ==
    ASSUME NEW a, Sane(a), NEW idle \in BOOLEAN, ticking \in BOOLEAN,
           Count(a, Ticks) = (IF ticking THEN 1 ELSE 0),
           Count(a, Idles) = (IF idle THEN 1 ELSE 0), ~(ticking /\ idle),
           idle => Dues(a, Strays) = {}
    PROVE  /\ Sane(TickingStarted(a, idle))
           /\ Count(TickingStarted(a, idle), Ticks) = 1
           /\ Count(TickingStarted(a, idle), Idles) = 0
           /\ \A r : Count(TickingStarted(a, idle), AnswersTo(r))
                        = Count(a, AnswersTo(r))
           /\ \A W : \A d \in Dues(TickingStarted(a, idle), W) :
                 \/ d \in Dues(a, W)
                 \/ ~ticking /\ TickEvent \in W /\ d = Period
<1> DEFINE t == TickingStarted(a, idle)
           b == IF idle THEN WithoutIdle(a) ELSE a
<1>1. CASE ticking
  <2>1. t = a
    BY <1>1 DEF TickingStarted
  <2>2. ~idle
    BY <1>1
  <2> QED
    BY <1>1, <2>1, <2>2
<1>2. CASE ~ticking
  <2>1. t = Inserted(b, TickEvent)
    BY <1>2 DEF TickingStarted
  <2>2. /\ Sane(b) /\ Count(b, Ticks) = 0 /\ Count(b, Idles) = 0
        /\ \A r : Count(b, AnswersTo(r)) = Count(a, AnswersTo(r))
        /\ \A W : Dues(b, W) \subseteq Dues(a, W)
    <3>1. CASE idle
      BY <1>2, <3>1, CancelFacts
    <3>2. CASE ~idle
      BY <1>2, <3>2
    <3> QED
      BY <3>1, <3>2
  <2> HIDE DEF b
  <2>3. /\ Sane(Inserted(b, TickEvent))
        /\ \A W : Count(Inserted(b, TickEvent), W)
                     = Count(b, W) + (IF TickEvent \in W THEN 1 ELSE 0)
        /\ \A W : \A d \in Dues(Inserted(b, TickEvent), W) :
              d \in Dues(b, W) \/ (TickEvent \in W /\ d = Period)
    <3>1. TickEvent \in Event /\ TickEvent.due = Period /\ Sane(b)
      BY <2>2, NewEvents
    <3>2. /\ Sane(Inserted(b, TickEvent))
          /\ \A W : Count(Inserted(b, TickEvent), W)
                       = Count(b, W) + (IF TickEvent \in W THEN 1 ELSE 0)
          /\ \A W : \A d \in Dues(Inserted(b, TickEvent), W) :
                d \in Dues(b, W) \/ (TickEvent \in W /\ d = TickEvent.due)
      BY <3>1, ScheduleFacts, ZenonT(40)
    <3> QED
      BY <3>1, <3>2, Zenon
  <2> HIDE DEF t
  <2>4. Count(t, Ticks) = 1 /\ Count(t, Idles) = 0
    BY <2>1, <2>2, <2>3, NewEvents
  <2>5. ASSUME NEW r PROVE Count(t, AnswersTo(r)) = Count(a, AnswersTo(r))
    <3>1. TickEvent \notin AnswersTo(r)
      BY NewEvents DEF AnswersTo
    <3>2. /\ Count(a, AnswersTo(r)) \in Nat
          /\ Count(t, AnswersTo(r)) = Count(a, AnswersTo(r)) + 0
      BY <2>1, <2>2, <2>3, <3>1, DuesFacts
    <3> QED
      BY <3>2
  <2>6. ASSUME NEW W, NEW d \in Dues(t, W)
        PROVE  d \in Dues(a, W) \/ (~ticking /\ TickEvent \in W /\ d = Period)
    BY <1>2, <2>1, <2>2, <2>3
  <2> QED
    BY <2>1, <2>3, <2>4, <2>5, <2>6 DEF t
<1> QED
  BY <1>1, <1>2

-----------------------------------------------------------------------------
(* Completions.                                                            *)

\* The engine reports each of the requests that has a callback once.
LEMMA CompletionsFacts ==
    ASSUME NEW rs \in SUBSET Requests, IsFiniteSet(rs)
    PROVE  /\ Completions(rs) \in Seq(Requests)
           /\ \A r : Count(Completions(rs), {r})
                        = (IF r \in rs \ Silent THEN 1 ELSE 0)
           /\ rs = {} => Completions(rs) = <<>>
<1> DEFINE S == rs \ Silent
           n == Cardinality(S)
           f == SetToSeq(S)
<1>1. IsFiniteSet(S)
  BY FS_Subset
<1>2. n \in Nat /\ ExistsBijection(1 .. n, S)
  BY <1>1, FS_CardinalityType
<1>3. \E g \in [1 .. n -> S] : IsInjective(g)
  BY <1>2 DEF ExistsBijection, Bijection, Injection
<1>4. f \in [1 .. n -> S] /\ IsInjective(f)
  BY <1>3 DEF SetToSeq
<1>5. IsFiniteSet(1 .. n) /\ Cardinality(1 .. n) = n
  BY <1>2, FS_Interval
<1>6. f \in Surjection(1 .. n, S)
  <2>1. f \in Injection(1 .. n, S)
    BY <1>4 DEF Injection
  <2> QED
    BY <1>1, <1>5, <2>1, FS_Injection
<1>7. f = Completions(rs)
  BY DEF Completions
<1>8. n = 0 <=> S = {}
  BY <1>1, FS_EmptySet
<1> HIDE DEF f, n
<1>9. f \in Seq(S) /\ DOMAIN f = 1 .. n /\ Len(f) = n
  BY <1>2, <1>4
<1>10. \A j, k \in 1 .. n : f[j] = f[k] => j = k
  BY <1>4 DEF IsInjective
<1>11. \A r \in S : \E k \in 1 .. n : f[k] = r
  BY <1>4, <1>6 DEF Surjection
<1>12. \A k \in 1 .. n : f[k] \in S
  BY <1>4
<1>13. f \in Seq(Requests)
  BY <1>2, <1>9, <1>12
<1>14. ASSUME NEW r PROVE Count(f, {r}) = (IF r \in S THEN 1 ELSE 0)
  <2> DEFINE A == {k \in DOMAIN f : f[k] \in {r}}
  <2>1. CASE r \in S
    <3>1. PICK k \in 1 .. n : f[k] = r
      BY <1>11, <2>1
    <3>2. A = {k}
      BY <1>9, <1>10, <3>1
    <3>3. Cardinality({k}) = 1
      BY FS_Singleton
    <3> QED
      BY <2>1, <3>2, <3>3 DEF Count
  <2>2. CASE r \notin S
    <3>1. A = {}
      BY <1>9, <1>12, <2>2
    <3> QED
      BY <2>2, <3>1, FS_EmptySet DEF Count
  <2> QED
    BY <2>1, <2>2
<1>15. ASSUME rs = {} PROVE f = <<>>
  BY <1>8, <1>9, <1>15
<1> QED
  BY <1>7, <1>13, <1>14, <1>15

-----------------------------------------------------------------------------
(* Bursts.                                                                 *)

\* A whole number of periods that fits into a time is not longer than it.
LEMMA WholePeriods ==
    ASSUME NEW t \in Nat, NEW p \in Nat, p >= 1, NEW m \in Nat, m <= t \div p
    PROVE  t \div p \in Nat /\ m * p <= t
<1> DEFINE q == t \div p
<1>1. q \in Nat /\ q * p <= t
  OBVIOUS
<1> HIDE DEF q
<1>2. m * p <= q * p
  <2>1. PICK x \in Nat : q = m + x
    <3>1. q - m \in Nat /\ q = m + (q - m)
      BY <1>1 DEF q
    <3> QED
      BY <3>1
  <2>2. q * p = m * p + x * p
    BY <2>1
  <2>3. x * p \in Nat /\ m * p \in Nat
    BY <2>1
  <2> QED
    BY <2>2, <2>3
<1>3. m * p \in Nat /\ q * p \in Nat
  BY <1>1
<1> QED
  BY <1>1, <1>2, <1>3 DEF q

\* No burst of two or more cycles reaches an event or passes the horizon.
LEMMA BurstFacts ==
    ASSUME NEW a, Sane(a), NEW until \in Nat \cup {-1, None},
           NEW m \in Nat, m >= 2, m <= MaxTickBurst(a, until)
    PROVE  /\ JumpOver(m) \in Nat /\ JumpOver(m) = (m - 1) * Period
           /\ JumpOver(m) >= 1
           /\ \A d \in Dues(a, Event) : d > JumpOver(m)
           /\ until # None => until \in Nat /\ JumpOver(m) <= until
<1> DEFINE byEvent == IF a = <<>> THEN BurstCap
                      ELSE IF Head(a).due <= 0 THEN 1
                      ELSE Least(BurstCap, (Head(a).due - 1) \div Period + 1)
<1>1. MaxTickBurst(a, until) = IF until = None THEN byEvent
                               ELSE IF until < 0 THEN 1
                               ELSE Least(byEvent, until \div Period + 1)
  BY DEF MaxTickBurst
<1>2. Period \in Nat /\ Period >= 1 /\ BurstCap \in Nat /\ None \notin Int
  BY Constants
<1>3. PICK j \in Nat : j = (m - 1) * Period /\ j >= 1
  <2>1. (m - 1) * Period \in Nat
    BY <1>2
  <2>2. (m - 1) * Period >= 1
    <3>1. PICK x \in Nat : m - 1 = x + 1
      <4>1. m - 2 \in Nat /\ m - 1 = (m - 2) + 1
        OBVIOUS
      <4> QED
        BY <4>1
    <3>2. (x + 1) * Period = x * Period + Period /\ x * Period \in Nat
      BY <1>2
    <3> QED
      BY <1>2, <3>1, <3>2
  <2> QED
    BY <2>1, <2>2
<1>4. JumpOver(m) = j
  BY <1>3 DEF JumpOver
<1>5. byEvent \in Int
  <2>1. CASE a = <<>>
    BY <1>2, <2>1
  <2>2. CASE a # <<>>
    <3>1. Head(a).due \in Int
      BY <2>2, FireFacts
    <3>2. (Head(a).due - 1) \div Period \in Int
      BY <1>2, <3>1
    <3> QED
      BY <1>2, <2>2, <3>1, <3>2 DEF Least
  <2> QED
    BY <2>1, <2>2
<1>6. m <= byEvent /\ (until # None => until \in Nat /\ m <= until \div Period + 1)
  <2> HIDE DEF byEvent
  <2>1. CASE until = None
    BY <1>1, <2>1
  <2>2. CASE until = -1
    BY <1>1, <1>2, <2>2
  <2>3. CASE until \in Nat
    <3>1. until \div Period \in Int /\ until # None /\ ~(until < 0)
      BY <1>2, <2>3
    <3> QED
      BY <1>1, <1>5, <2>3, <3>1 DEF Least
  <2> QED
    BY <2>1, <2>2, <2>3
<1>7. ASSUME until # None PROVE until \in Nat /\ j <= until
  <2>1. until \in Nat /\ m - 1 \in Nat /\ m - 1 <= until \div Period
    <3>1. until \in Nat /\ until \div Period \in Int
      BY <1>2, <1>6, <1>7
    <3> QED
      BY <1>6, <1>7, <3>1
  <2> QED
    BY <1>2, <1>3, <2>1, WholePeriods
<1>8. ASSUME NEW d \in Dues(a, Event) PROVE d > j
  <2>1. PICK k \in 1 .. Len(a) : d = a[k].due
    BY DuesFacts
  <2>2. a # <<>>
    BY <2>1
  <2>3. /\ Head(a) = a[1] /\ Len(a) \in Nat /\ Head(a).due \in Int
        /\ \A i \in 1 .. Len(a) - 1 : a[i + 1].due >= Head(a).due
    BY <2>2, SaneFacts, TailOrdered
  <2>4. d \in Int /\ d >= Head(a).due
    <3>1. d \in Int
      BY DuesFacts
    <3>2. CASE k = 1
      BY <2>1, <2>3, <3>2
    <3>3. CASE k # 1
      <4>1. k - 1 \in 1 .. Len(a) - 1 /\ (k - 1) + 1 = k
        BY <2>3, <3>3
      <4> QED
        BY <2>1, <2>3, <3>1, <4>1
    <3> QED
      BY <3>1, <3>2, <3>3
  <2>5. PICK h \in Int : h = Head(a).due
    BY <2>3
  <2>6. h > 0 /\ m <= (h - 1) \div Period + 1
    <3>1. byEvent = IF h <= 0 THEN 1
                    ELSE Least(BurstCap, (h - 1) \div Period + 1)
      BY <2>2, <2>5
    <3> HIDE DEF byEvent
    <3>2. (h - 1) \div Period \in Int
      BY <1>2
    <3>3. h > 0
      BY <1>6, <3>1
    <3> QED
      BY <1>2, <1>6, <3>1, <3>2, <3>3 DEF Least
  <2>7. h - 1 \in Nat /\ m - 1 \in Nat /\ m - 1 <= (h - 1) \div Period
    <3>1. h - 1 \in Nat /\ (h - 1) \div Period \in Int
      BY <1>2, <2>6
    <3> QED
      BY <2>6, <3>1
  <2>8. j <= h - 1
    <3>1. PICK t \in Nat : t = h - 1
      BY <2>7
    <3>2. PICK n \in Nat : n = m - 1
      BY <2>7
    <3>3. n <= t \div Period
      BY <2>7, <3>1, <3>2
    <3>4. n * Period <= t
      BY <1>2, <3>3, WholePeriods
    <3> QED
      BY <1>3, <3>1, <3>2, <3>4
  <2> QED
    BY <2>4, <2>5, <2>8
<1> QED
  BY <1>3, <1>4, <1>7, <1>8

\* A delay that has gone down stays one.
LEMMA LaterFacts ==
    ASSUME NEW t \in Nat \cup {-1, None}, NEW delta \in Nat
    PROVE  /\ Later(t, delta) \in Nat \cup {-1, None}
           /\ Later(t, delta) = None <=> t = None
<1>1. None \notin Int
  BY Constants
<1>2. CASE t = None
  BY <1>2 DEF Later
<1>3. CASE t # None
  <2>1. t \in Int /\ t - delta \in Int
    BY <1>3
  <2>2. Later(t, delta) = IF t - delta < 0 THEN -1 ELSE t - delta
    BY <1>3 DEF Later
  <2> QED
    BY <1>1, <1>3, <2>1, <2>2
<1> QED
  BY <1>2, <1>3

-----------------------------------------------------------------------------
(* The invariant.                                                          *)

Typed ==
    /\ idleRefresh \in IdleModes
    /\ horizon \in Nat \cup {-1, None}
    /\ inFlight \subseteq Requests /\ IsFiniteSet(inFlight)
    /\ Cardinality(inFlight) <= Queue
    /\ refreshes \in 0 .. MaxRefreshes
    /\ ticking \in BOOLEAN
    /\ idleTicking \in BOOLEAN
    /\ idleBatch \in IdleBatch .. MaxIdleBatch
    /\ completed \in Seq(Requests)
    /\ owed \subseteq Requests
    /\ behind \in Int

\* Each flag says if its one event is scheduled; one clock at a time.
OneEach ==
    /\ Count(agenda, Ticks) = (IF ticking THEN 1 ELSE 0)
    /\ Count(agenda, Idles) = (IF idleTicking THEN 1 ELSE 0)
    /\ ~(ticking /\ idleTicking)
    /\ idleRefresh => ticking \/ idleTicking

\* No event is in the past, completions are due now, and when the event of a
\* clock has run its cycles the engine is still not ahead of time.
Timely ==
    /\ \A d \in Dues(agenda, Event) : d >= 0
    /\ \A d \in Dues(agenda, Answers) : d = 0
    /\ behind >= 0
    /\ \A d \in Dues(agenda, Ticks) : behind + d >= Period
    /\ \A d \in Dues(agenda, Idles) : behind + d >= idleBatch * Period

\* How often the callback of r is on its way.
UnderWay(r) ==
    Count(agenda, AnswersTo(r)) + Count(completed, {r})
        + (IF r \in (inFlight \cap Reads) \ Silent THEN 1 ELSE 0)

\* Once if it is owed, and otherwise not at all; only the callbacks of a batch
\* of writes that failed are lost.
Accounted ==
    /\ owed \cap Silent = {}
    /\ \A r \in Requests :
          \/ UnderWay(r) = (IF r \in owed THEN 1 ELSE 0)
          \/ BadBatches /\ r \in Writes /\ UnderWay(r) = 0

\* Unless batches fail, what is pending is ticked, and completions are
\* delivered by the tick that finds them.
Driven == ~BadBatches => completed = <<>> /\ (inFlight # {} => ticking)

\* The idle event that is scheduled is the one _idle_event_id names.
Named == idleEventId \in {0, 1, None} /\ Dues(agenda, Strays) = {}

Counted ==
    Typed /\ Sane(agenda) /\ OneEach /\ Timely /\ Accounted /\ Driven

DramInv == Counted /\ Named

\* The events of the clocks move with time, however far it moves, and each
\* cycle that runs counts one period.
InPhase ==
    /\ \A d \in Dues(agenda, Ticks), f \in Dues(agenda', Ticks) :
          behind' + f = behind + d
    /\ behind' < MaxBehind =>
          \A d \in Dues(agenda, Idles), f \in Dues(agenda', Idles) :
             behind' + f - idleBatch' * Period = behind + d - idleBatch * Period

\* There is one time at most at which a clock's event is due.
LEMMA OneDue ==
    ASSUME Sane(agenda), OneEach
    PROVE  /\ \A d, f \in Dues(agenda, Ticks) : ticking /\ d = f
           /\ \A d, f \in Dues(agenda, Idles) : idleTicking /\ d = f
<1>1. ASSUME NEW d \in Dues(agenda, Ticks), NEW f \in Dues(agenda, Ticks)
      PROVE  ticking /\ d = f
  <2>1. Count(agenda, Ticks) # 0
    BY <1>1, DuesFacts
  <2>2. ticking /\ Count(agenda, Ticks) = 1
    BY <2>1 DEF OneEach
  <2> QED
    BY <1>1, <2>2, DuesFacts, SMTT(30)
<1>2. ASSUME NEW d \in Dues(agenda, Idles), NEW f \in Dues(agenda, Idles)
      PROVE  idleTicking /\ d = f
  <2>1. Count(agenda, Idles) # 0
    BY <1>2, DuesFacts
  <2>2. idleTicking /\ Count(agenda, Idles) = 1
    BY <2>1 DEF OneEach
  <2> QED
    BY <1>2, <2>2, DuesFacts
<1> QED
  BY <1>1, <1>2

LEMMA EmptyFacts ==
    /\ Sane(<<>>) /\ \A W : Count(<<>>, W) = 0 /\ Dues(<<>>, W) = {}
<1> DEFINE x == <<>>
<1>1. x \in Seq(Event) /\ Len(x) = 0 /\ DOMAIN x = {}
  OBVIOUS
<1> HIDE DEF x
<1>2. Sane(x)
  BY <1>1 DEF Sane, Ordered
<1>3. \A W : Count(x, W) = 0
  BY <1>1, CountFacts
<1>4. \A W : Dues(x, W) = {}
  BY <1>1 DEF Dues
<1> QED
  BY <1>2, <1>3, <1>4 DEF x

LEMMA SingleFacts ==
    ASSUME NEW e \in Event
    PROVE  /\ Sane(<<e>>)
           /\ \A W : /\ Count(<<e>>, W) = (IF e \in W THEN 1 ELSE 0)
                     /\ \A d \in Dues(<<e>>, W) : e \in W /\ d = e.due
<1> DEFINE x == <<e>>
<1>1. /\ x \in Seq(Event) /\ Len(x) = 1 /\ x[1] = e /\ DOMAIN x = 1 .. 1
      /\ x = Append(<<>>, e)
  OBVIOUS
<1> HIDE DEF x
<1>2. Sane(x)
  BY <1>1 DEF Sane, Ordered
<1>3. ASSUME NEW W PROVE Count(x, W) = (IF e \in W THEN 1 ELSE 0)
  <2>1. Count(Append(<<>>, e), W) = Count(<<>>, W) + (IF e \in W THEN 1 ELSE 0)
    <3>1. <<>> \in Seq(Event)
      OBVIOUS
    <3> QED
      BY <3>1, CountAppend
  <2> QED
    BY <1>1, <2>1, EmptyFacts
<1>4. ASSUME NEW W, NEW d \in Dues(x, W) PROVE e \in W /\ d = e.due
  <2>1. PICK k \in 1 .. 1 : x[k] \in W /\ d = x[k].due
    BY <1>1, <1>2, DuesFacts
  <2> QED
    BY <1>1, <2>1
<1> QED
  BY <1>2, <1>3, <1>4 DEF x

-----------------------------------------------------------------------------
(* It holds initially.                                                     *)

LEMMA InitFacts == Init => DramInv
<1> SUFFICES ASSUME Init PROVE DramInv
  OBVIOUS
<1>1. /\ idleRefresh \in BOOLEAN /\ idleRefresh \in IdleModes
      /\ agenda = IF idleRefresh THEN <<IdleEvent(IdleBatch, 0)>> ELSE <<>>
      /\ idleEventId = IF idleRefresh THEN 0 ELSE None
      /\ horizon = None /\ inFlight = {} /\ refreshes = 0
      /\ ticking = FALSE /\ idleTicking = idleRefresh /\ idleBatch = IdleBatch
      /\ completed = <<>> /\ owed = {} /\ behind = 0
  BY Constants DEF Init
<1>2. Typed
  <2>1. IsFiniteSet({}) /\ Cardinality({}) = 0
    BY FS_EmptySet
  <2>2. <<>> \in Seq(Requests)
    OBVIOUS
  <2> QED
    <3>1. /\ inFlight \subseteq Requests /\ IsFiniteSet(inFlight)
          /\ Cardinality(inFlight) <= Queue
      BY <1>1, <2>1, Constants
    <3>2. refreshes \in 0 .. MaxRefreshes /\ idleBatch \in IdleBatch .. MaxIdleBatch
      BY <1>1, Constants
    <3>3. completed \in Seq(Requests) /\ owed \subseteq Requests /\ behind \in Int
      BY <1>1, <2>2
    <3> QED
      BY <1>1, <3>1, <3>2, <3>3 DEF Typed
<1>3. PICK e \in Event : /\ e = IdleEvent(IdleBatch, 0) /\ e.id = 0
                         /\ e \in Idles /\ e \notin Ticks /\ e \notin Answers
                         /\ e.due = IdleBatch * Period
  BY Constants, NewEvents
<1>4. IdleBatch * Period \in Nat
  BY Constants
<1>5. /\ Sane(agenda) /\ Count(agenda, Ticks) = 0
      /\ Count(agenda, Idles) = (IF idleRefresh THEN 1 ELSE 0)
      /\ \A r : Count(agenda, AnswersTo(r)) = 0
      /\ \A W : \A d \in Dues(agenda, W) :
            d = IdleBatch * Period /\ W # Answers /\ W # Ticks
  <2>1. CASE idleRefresh
    <3>1. agenda = <<e>>
      BY <1>1, <1>3, <2>1
    <3>2. \A r : e \notin AnswersTo(r)
      BY <1>3 DEF AnswersTo
    <3> QED
      BY <1>3, <2>1, <3>1, <3>2, SingleFacts
  <2>2. CASE ~idleRefresh
    <3>1. agenda = <<>>
      BY <1>1, <2>2
    <3> QED
      BY <2>2, <3>1, EmptyFacts
  <2> QED
    BY <1>1, <2>1, <2>2
<1>6. OneEach
  BY <1>1, <1>5 DEF OneEach
<1>7. Timely
  BY <1>1, <1>4, <1>5 DEF Timely
<1>8. ASSUME NEW r PROVE UnderWay(r) = 0
  BY <1>1, <1>5, EmptyFacts DEF UnderWay
<1>9. Accounted
  BY <1>1, <1>8 DEF Accounted
<1>10. Driven
  BY <1>1 DEF Driven
<1>11. Named
  <2>1. CASE idleRefresh
    <3>1. e \notin Strays /\ agenda = <<e>> /\ idleEventId = 0
      BY <1>1, <1>3, <2>1 DEF Strays
    <3>2. Dues(agenda, Strays) = {}
      BY <3>1, SingleFacts
    <3> QED
      BY <3>1, <3>2 DEF Named
  <2>2. CASE ~idleRefresh
    BY <1>1, <2>2, EmptyFacts DEF Named
  <2> QED
    BY <2>1, <2>2
<1> QED
  BY <1>2, <1>5, <1>6, <1>7, <1>9, <1>10, <1>11 DEF DramInv, Counted

-----------------------------------------------------------------------------
(* Requests are sent.                                                      *)

LEMMA UnderWayFacts ==
    ASSUME Typed, Sane(agenda), NEW r
    PROVE  /\ Count(agenda, AnswersTo(r)) \in Nat
           /\ Count(completed, {r}) \in Nat
           /\ UnderWay(r) \in Nat
<1>1. Count(agenda, AnswersTo(r)) \in Nat
  BY DuesFacts
<1>2. Count(completed, {r}) \in Nat
  BY CountFacts DEF Typed
<1>3. (IF r \in (inFlight \cap Reads) \ Silent THEN 1 ELSE 0) \in Nat
  OBVIOUS
<1> QED
  BY <1>1, <1>2, <1>3 DEF UnderWay

\* What is sent is free, and the engine has room for it.
LEMMA SentFacts ==
    ASSUME DramInv, NEW rs \in SUBSET Requests, Acceptable(rs)
    PROVE  /\ rs # {} /\ IsFiniteSet(rs)
           /\ IsFiniteSet(inFlight \cup rs)
           /\ Cardinality(inFlight \cup rs) <= Queue
           /\ inFlight \cup rs \subseteq Requests
           /\ owed \cup (rs \ Silent) \subseteq Requests
           /\ (owed \cup (rs \ Silent)) \cap Silent = {}
           /\ \A r \in rs : /\ r \notin inFlight /\ r \notin owed
                            /\ UnderWay(r) = 0
                            /\ Count(agenda, AnswersTo(r)) = 0
                            /\ Count(completed, {r}) = 0
<1>1. Typed /\ Sane(agenda) /\ Accounted
  BY DEF DramInv, Counted
<1>2. rs # {} /\ IsFiniteSet(rs) /\ Cardinality(rs) <= Room /\ \A r \in rs : Free(r)
  BY DEF Acceptable
<1>3. /\ IsFiniteSet(inFlight \cup rs)
      /\ Cardinality(inFlight \cup rs) <= Queue
  <2>1. IsFiniteSet(inFlight) /\ Cardinality(inFlight) <= Queue
    BY <1>1 DEF Typed
  <2>2. PICK x \in Nat : x = Cardinality(inFlight)
    BY <2>1, FS_CardinalityType
  <2>3. PICK y \in Nat : y = Cardinality(rs)
    BY <1>2, FS_CardinalityType
  <2>4. PICK z \in Nat : z = Cardinality(inFlight \cap rs)
    BY <2>1, FS_Subset, FS_CardinalityType
  <2>5. /\ IsFiniteSet(inFlight \cup rs)
        /\ Cardinality(inFlight \cup rs) = x + y - z
    BY <1>2, <2>1, <2>2, <2>3, <2>4, FS_Union
  <2>6. y <= Queue - x
    BY <1>2, <2>2, <2>3 DEF Room
  <2> QED
    BY <2>5, <2>6, Constants
<1>4. ASSUME NEW r \in rs
      PROVE  /\ r \notin inFlight /\ r \notin owed
             /\ UnderWay(r) = 0
             /\ Count(agenda, AnswersTo(r)) = 0
             /\ Count(completed, {r}) = 0
  <2>1. r \notin inFlight /\ r \notin owed
    BY <1>2 DEF Free
  <2>2. UnderWay(r) = 0
    BY <1>1, <2>1 DEF Accounted
  <2>3. PICK x \in Nat : x = Count(agenda, AnswersTo(r))
    BY <1>1, UnderWayFacts
  <2>4. PICK y \in Nat : y = Count(completed, {r})
    BY <1>1, UnderWayFacts
  <2>5. x + y + 0 = 0
    BY <2>1, <2>2, <2>3, <2>4 DEF UnderWay
  <2> QED
    BY <2>1, <2>2, <2>3, <2>4, <2>5
<1>5. /\ inFlight \cup rs \subseteq Requests
      /\ owed \cup (rs \ Silent) \subseteq Requests
      /\ (owed \cup (rs \ Silent)) \cap Silent = {}
  BY <1>1 DEF Typed, Accounted
<1> QED
  BY <1>2, <1>3, <1>4, <1>5

\* The clock that is started leaves the lag as it is.
LEMMA StartedTimely ==
    ASSUME Typed, OneEach, NEW a, Sane(a),
           Count(a, Ticks) = (IF ticking THEN 1 ELSE 0),
           Count(a, Idles) = (IF idleTicking THEN 1 ELSE 0),
           \A d \in Dues(a, Event) : d >= 0,
           \A d \in Dues(a, Answers) : d = 0,
           \A d \in Dues(a, Ticks) : behind + d >= Period,
           behind >= 0, Dues(a, Strays) = {}
    PROVE  LET t == TickingStarted(a, idleTicking)
           IN /\ Sane(t)
              /\ Count(t, Ticks) = 1 /\ Count(t, Idles) = 0
              /\ \A r : Count(t, AnswersTo(r)) = Count(a, AnswersTo(r))
              /\ \A d \in Dues(t, Event) : d >= 0
              /\ \A d \in Dues(t, Answers) : d = 0
              /\ \A d \in Dues(t, Ticks) : behind + d >= Period
              /\ \A d \in Dues(t, Idles) : behind + d >= idleBatch * Period
<1> DEFINE t == TickingStarted(a, idleTicking)
<1>1. /\ Sane(t)
      /\ Count(t, Ticks) = 1 /\ Count(t, Idles) = 0
      /\ \A r : Count(t, AnswersTo(r)) = Count(a, AnswersTo(r))
      /\ \A W : \A d \in Dues(t, W) : d \in Dues(a, W) \/ (TickEvent \in W /\ d = Period)
  BY StartFacts DEF Typed, OneEach
<1> HIDE DEF t
<1>2. Dues(t, Idles) = {}
  BY <1>1, DuesFacts
<1>3. \A d \in Dues(t, Event) : d >= 0
  BY <1>1, Constants
<1>4. \A d \in Dues(t, Answers) : d = 0
  BY <1>1, NewEvents
<1>5. \A d \in Dues(t, Ticks) : behind + d >= Period
  BY <1>1, Constants DEF Typed
<1> QED
  BY <1>1, <1>2, <1>3, <1>4, <1>5 DEF t

LEMMA SendReadsFacts ==
    ASSUME DramInv, NEW rs \in SUBSET Reads, SendReads(rs), UNCHANGED idleRefresh
    PROVE  Counted' /\ InPhase
<1>1. /\ Acceptable(rs)
      /\ inFlight' = inFlight \cup rs
      /\ owed' = owed \cup (rs \ Silent)
      /\ agenda' = TickingStarted(agenda, idleTicking)
      /\ ticking' = TRUE /\ idleTicking' = FALSE
      /\ UNCHANGED <<horizon, refreshes, idleBatch, completed, behind, idleRefresh>>
  BY DEF SendReads
<1>2. Typed /\ Sane(agenda) /\ OneEach /\ Timely /\ Accounted /\ Driven /\ Named
  BY DEF DramInv, Counted
<1>3. rs \in SUBSET Requests /\ rs \cap Writes = {}
  BY Constants
<1>4. /\ IsFiniteSet(inFlight \cup rs)
      /\ Cardinality(inFlight \cup rs) <= Queue
      /\ inFlight \cup rs \subseteq Requests
      /\ owed \cup (rs \ Silent) \subseteq Requests
      /\ (owed \cup (rs \ Silent)) \cap Silent = {}
      /\ \A r \in rs : /\ r \notin inFlight /\ r \notin owed
                       /\ Count(agenda, AnswersTo(r)) = 0
                       /\ Count(completed, {r}) = 0
  BY <1>1, <1>3, SentFacts
<1>5. /\ Sane(agenda')
      /\ Count(agenda', Ticks) = 1 /\ Count(agenda', Idles) = 0
      /\ \A r : Count(agenda', AnswersTo(r)) = Count(agenda, AnswersTo(r))
      /\ \A d \in Dues(agenda', Event) : d >= 0
      /\ \A d \in Dues(agenda', Answers) : d = 0
      /\ \A d \in Dues(agenda', Ticks) : behind + d >= Period
      /\ \A d \in Dues(agenda', Idles) : behind + d >= idleBatch * Period
  BY <1>1, <1>2, StartedTimely DEF OneEach, Timely, Named
<1>6. Typed'
  BY <1>1, <1>2, <1>4 DEF Typed
<1>7. OneEach'
  BY <1>1, <1>5 DEF OneEach
<1>8. Timely'
  BY <1>1, <1>2, <1>5 DEF Timely
<1>9. Accounted'
  <2>1. owed' \cap Silent = {}
    BY <1>1, <1>4
  <2>2. ASSUME NEW r \in Requests
        PROVE  \/ UnderWay(r)' = (IF r \in owed' THEN 1 ELSE 0)
               \/ BadBatches /\ r \in Writes /\ UnderWay(r)' = 0
    <3>1. UnderWay(r)' = Count(agenda, AnswersTo(r)) + Count(completed, {r})
                            + (IF r \in (inFlight' \cap Reads) \ Silent THEN 1 ELSE 0)
      BY <1>1, <1>5 DEF UnderWay
    <3>2. CASE r \in rs
      <4>1. UnderWay(r)' = (IF r \in (inFlight' \cap Reads) \ Silent THEN 1 ELSE 0)
        BY <1>4, <3>1, <3>2
      <4>2. r \in (inFlight' \cap Reads) \ Silent <=> r \in owed'
        BY <1>1, <1>4, <3>2
      <4> QED
        BY <4>1, <4>2
    <3>3. CASE r \notin rs
      <4>1. UnderWay(r)' = UnderWay(r) /\ (r \in owed' <=> r \in owed)
        BY <1>1, <3>1, <3>3 DEF UnderWay
      <4> QED
        BY <1>2, <4>1 DEF Accounted
    <3> QED
      BY <3>2, <3>3
  <2> QED
    BY <2>1, <2>2 DEF Accounted
<1>10. Driven'
  BY <1>1, <1>2 DEF Driven
<1>11. InPhase
  <2>1. ASSUME NEW f \in Dues(agenda', Ticks) PROVE f \in Dues(agenda, Ticks) \/ ~ticking
    <3>1. \A W : \A d \in Dues(agenda', W) : d \in Dues(agenda, W) \/ ~ticking
      BY <1>1, <1>2, StartFacts DEF OneEach, Typed, Named
    <3> QED
      BY <2>1, <3>1
  <2>2. Dues(agenda', Idles) = {}
    BY <1>5, DuesFacts
  <2> QED
    BY <1>1, <1>2, <2>1, <2>2, OneDue DEF InPhase
<1> QED
  BY <1>5, <1>6, <1>7, <1>8, <1>9, <1>10, <1>11 DEF Counted

LEMMA SendWritesFacts ==
    ASSUME DramInv, NEW rs \in SUBSET Writes, SendWrites(rs), UNCHANGED idleRefresh
    PROVE  Counted' /\ InPhase
<1> DEFINE cs == completed \o Completions(rs)
           a == Delivered(agenda, cs)
<1>1. /\ Acceptable(rs)
      /\ inFlight' = inFlight \cup rs
      /\ owed' = owed \cup (rs \ Silent)
      /\ agenda' = TickingStarted(a, idleTicking)
      /\ ticking' = TRUE /\ idleTicking' = FALSE
      /\ completed' = <<>>
      /\ UNCHANGED <<horizon, refreshes, idleBatch, behind, idleRefresh>>
  BY DEF SendWrites
<1>2. Typed /\ Sane(agenda) /\ OneEach /\ Timely /\ Accounted /\ Driven /\ Named
  BY DEF DramInv, Counted
<1>3. rs \in SUBSET Requests /\ rs \cap Reads = {}
  BY Constants
<1>4. /\ IsFiniteSet(rs)
      /\ IsFiniteSet(inFlight \cup rs)
      /\ Cardinality(inFlight \cup rs) <= Queue
      /\ inFlight \cup rs \subseteq Requests
      /\ owed \cup (rs \ Silent) \subseteq Requests
      /\ (owed \cup (rs \ Silent)) \cap Silent = {}
      /\ \A r \in rs : /\ r \notin inFlight /\ r \notin owed
                       /\ Count(agenda, AnswersTo(r)) = 0
                       /\ Count(completed, {r}) = 0
  BY <1>1, <1>3, SentFacts
<1>5. /\ Completions(rs) \in Seq(Requests)
      /\ \A r : Count(Completions(rs), {r}) = (IF r \in rs \ Silent THEN 1 ELSE 0)
  BY <1>3, <1>4, CompletionsFacts
<1>6. /\ cs \in Seq(Requests)
      /\ \A r : Count(cs, {r}) = Count(completed, {r}) + Count(Completions(rs), {r})
  <2>1. completed \in Seq(Requests)
    BY <1>2 DEF Typed
  <2> QED
    BY <1>5, <2>1, ConcatFacts, CountConcat
<1> HIDE DEF cs
<1>7. /\ Sane(a)
      /\ Count(a, Ticks) = Count(agenda, Ticks)
      /\ Count(a, Idles) = Count(agenda, Idles)
      /\ \A r : Count(a, AnswersTo(r)) = Count(agenda, AnswersTo(r)) + Count(cs, {r})
      /\ \A W : \A d \in Dues(a, W) :
            d \in Dues(agenda, W) \/ (d = 0 /\ W \cap Answers # {})
  BY <1>2, <1>6, DeliverFacts
<1> HIDE DEF a
<1>8. /\ \A d \in Dues(a, Event) : d >= 0
      /\ \A d \in Dues(a, Answers) : d = 0
      /\ \A d \in Dues(a, Ticks) : behind + d >= Period
      /\ Dues(a, Strays) = {}
  <2>1. Ticks \cap Answers = {} /\ Strays \cap Answers = {}
    BY EventFacts DEF Ticks, Strays, Idles
  <2> QED
    BY <1>2, <1>7, <2>1 DEF Timely, Named
<1>9. /\ Sane(agenda')
      /\ Count(agenda', Ticks) = 1 /\ Count(agenda', Idles) = 0
      /\ \A r : Count(agenda', AnswersTo(r)) = Count(a, AnswersTo(r))
      /\ \A d \in Dues(agenda', Event) : d >= 0
      /\ \A d \in Dues(agenda', Answers) : d = 0
      /\ \A d \in Dues(agenda', Ticks) : behind + d >= Period
      /\ \A d \in Dues(agenda', Idles) : behind + d >= idleBatch * Period
  BY <1>1, <1>2, <1>7, <1>8, StartedTimely DEF OneEach, Timely
<1>10. Typed'
  <2>1. <<>> \in Seq(Requests)
    OBVIOUS
  <2> QED
    BY <1>1, <1>2, <1>4, <2>1 DEF Typed
<1>11. OneEach'
  BY <1>1, <1>9 DEF OneEach
<1>12. Timely'
  BY <1>1, <1>2, <1>9 DEF Timely
<1>13. Accounted'
  <2>1. owed' \cap Silent = {}
    BY <1>1, <1>4
  <2>2. ASSUME NEW r \in Requests
        PROVE  \/ UnderWay(r)' = (IF r \in owed' THEN 1 ELSE 0)
               \/ BadBatches /\ r \in Writes /\ UnderWay(r)' = 0
    <3>1. PICK x \in Nat : x = Count(agenda, AnswersTo(r))
      BY <1>2, UnderWayFacts
    <3>2. PICK y \in Nat : y = Count(completed, {r})
      BY <1>2, UnderWayFacts
    <3>3. PICK w \in {0, 1} : w = (IF r \in (inFlight \cap Reads) \ Silent THEN 1 ELSE 0)
      OBVIOUS
    <3>4. w = (IF r \in (inFlight' \cap Reads) \ Silent THEN 1 ELSE 0)
      BY <1>1, <1>3, <3>3
    <3>5. PICK z \in {0, 1} : z = (IF r \in rs \ Silent THEN 1 ELSE 0)
      OBVIOUS
    <3>6. Count(agenda', AnswersTo(r)) = x + (y + z)
      <4>1. Count(agenda', AnswersTo(r)) = Count(agenda, AnswersTo(r)) + Count(cs, {r})
        BY <1>7, <1>9
      <4>2. Count(cs, {r}) = y + z
        BY <1>5, <1>6, <3>2, <3>5
      <4> QED
        BY <3>1, <4>1, <4>2
    <3>7. Count(completed', {r}) = 0
      BY <1>1, EmptyFacts
    <3>8. UnderWay(r)' = x + (y + z) + 0 + w
      BY <3>4, <3>6, <3>7 DEF UnderWay
    <3>9. UnderWay(r) = x + y + w
      BY <3>1, <3>2, <3>3 DEF UnderWay
    <3>10. CASE r \in rs
      <4>1. x = 0 /\ y = 0
        BY <1>4, <3>1, <3>2, <3>10
      <4>2. w = 0
        BY <1>3, <3>3, <3>10
      <4>3. z = (IF r \in owed' THEN 1 ELSE 0)
        BY <1>1, <1>4, <3>5, <3>10
      <4> QED
        BY <3>8, <4>1, <4>2, <4>3
    <3>11. CASE r \notin rs
      <4>1. z = 0 /\ (r \in owed' <=> r \in owed)
        BY <1>1, <3>5, <3>11
      <4>2. UnderWay(r)' = UnderWay(r)
        BY <3>8, <3>9, <4>1
      <4> QED
        BY <1>2, <4>1, <4>2 DEF Accounted
    <3> QED
      BY <3>10, <3>11
  <2> QED
    BY <2>1, <2>2 DEF Accounted
<1>14. Driven'
  BY <1>1 DEF Driven
<1>15. InPhase
  <2>1. ASSUME NEW f \in Dues(agenda', Ticks) PROVE f \in Dues(agenda, Ticks) \/ ~ticking
    <3>1. \A W : \A d \in Dues(agenda', W) : d \in Dues(a, W) \/ ~ticking
      BY <1>1, <1>2, <1>7, <1>8, StartFacts DEF OneEach, Typed
    <3>2. Ticks \cap Answers = {}
      BY EventFacts DEF Ticks
    <3> QED
      BY <1>7, <2>1, <3>1, <3>2
  <2>2. Dues(agenda', Idles) = {}
    BY <1>9, DuesFacts
  <2> QED
    BY <1>1, <1>2, <2>1, <2>2, OneDue DEF InPhase
<1> QED
  BY <1>9, <1>10, <1>11, <1>12, <1>13, <1>14, <1>15 DEF Counted

\* A batch that fails half way: its writes are not called back.
LEMMA SendFailingFacts ==
    ASSUME DramInv, NEW rs \in SUBSET Requests, SendFailing(rs), UNCHANGED idleRefresh
    PROVE  Counted' /\ InPhase
<1>1. /\ BadBatches /\ Acceptable(rs)
      /\ rs \subseteq Reads \/ rs \subseteq Writes
      /\ inFlight' = inFlight \cup rs
      /\ owed' = owed \cup (rs \ Silent)
      /\ UNCHANGED <<agenda, horizon, refreshes, ticking, idleTicking,
                     idleBatch, completed, behind, idleRefresh>>
  BY DEF SendFailing
<1>2. Typed /\ Sane(agenda) /\ OneEach /\ Timely /\ Accounted /\ Driven /\ Named
  BY DEF DramInv, Counted
<1>3. /\ IsFiniteSet(inFlight \cup rs)
      /\ Cardinality(inFlight \cup rs) <= Queue
      /\ inFlight \cup rs \subseteq Requests
      /\ owed \cup (rs \ Silent) \subseteq Requests
      /\ (owed \cup (rs \ Silent)) \cap Silent = {}
      /\ \A r \in rs : /\ r \notin inFlight /\ r \notin owed
                       /\ Count(agenda, AnswersTo(r)) = 0
                       /\ Count(completed, {r}) = 0
  BY <1>1, SentFacts
<1>4. Typed'
  BY <1>1, <1>2, <1>3 DEF Typed
<1>5. Sane(agenda') /\ OneEach' /\ Timely'
  BY <1>1, <1>2 DEF OneEach, Timely
<1>6. Accounted'
  <2>1. owed' \cap Silent = {}
    BY <1>1, <1>3
  <2>2. ASSUME NEW r \in Requests
        PROVE  \/ UnderWay(r)' = (IF r \in owed' THEN 1 ELSE 0)
               \/ BadBatches /\ r \in Writes /\ UnderWay(r)' = 0
    <3>1. UnderWay(r)' = Count(agenda, AnswersTo(r)) + Count(completed, {r})
                            + (IF r \in (inFlight' \cap Reads) \ Silent THEN 1 ELSE 0)
      BY <1>1 DEF UnderWay
    <3>2. CASE r \in rs
      <4>1. UnderWay(r)' = (IF r \in (inFlight' \cap Reads) \ Silent THEN 1 ELSE 0)
        BY <1>3, <3>1, <3>2
      <4>2. CASE r \in Reads
        <5>1. r \in (inFlight' \cap Reads) \ Silent <=> r \in owed'
          BY <1>1, <1>3, <3>2, <4>2
        <5> QED
          BY <4>1, <5>1
      <4>3. CASE r \notin Reads
        <5>1. r \in Writes
          BY <1>1, <3>2, <4>3
        <5> QED
          BY <1>1, <4>1, <4>3, <5>1
      <4> QED
        BY <4>2, <4>3
    <3>3. CASE r \notin rs
      <4>1. UnderWay(r)' = UnderWay(r) /\ (r \in owed' <=> r \in owed)
        BY <1>1, <3>1, <3>3 DEF UnderWay
      <4> QED
        BY <1>2, <4>1 DEF Accounted
    <3> QED
      BY <3>2, <3>3
  <2> QED
    BY <2>1, <2>2 DEF Accounted
<1>7. Driven'
  BY <1>1 DEF Driven
<1>8. InPhase
  BY <1>1, <1>2, OneDue DEF InPhase
<1> QED
  BY <1>4, <1>5, <1>6, <1>7, <1>8 DEF Counted

LEMMA ScheduleClientFacts ==
    ASSUME DramInv, NEW delay \in Delays, ScheduleClient(delay), UNCHANGED idleRefresh
    PROVE  Counted' /\ InPhase
<1>1. /\ agenda' = Inserted(agenda, ClientEvent(delay))
      /\ UNCHANGED <<horizon, inFlight, refreshes, ticking, idleTicking,
                     idleBatch, completed, owed, behind, idleRefresh>>
  BY DEF ScheduleClient
<1>2. Typed /\ Sane(agenda) /\ OneEach /\ Timely /\ Accounted /\ Driven /\ Named
  BY DEF DramInv, Counted
<1>3. PICK e \in Event : /\ e = ClientEvent(delay) /\ e.due = delay
                         /\ e \notin Ticks /\ e \notin Idles /\ e \notin Answers
  BY Constants, NewEvents
<1>4. /\ Sane(agenda')
      /\ \A W : Count(agenda', W) = Count(agenda, W) + (IF e \in W THEN 1 ELSE 0)
      /\ \A W : \A d \in Dues(agenda', W) : d \in Dues(agenda, W) \/ (e \in W /\ d = e.due)
  BY <1>1, <1>2, <1>3, ScheduleFacts
<1>5. ASSUME NEW W, e \notin W PROVE Count(agenda', W) = Count(agenda, W)
  <2>1. Count(agenda', W) = Count(agenda, W) + 0 /\ Count(agenda, W) \in Nat
    BY <1>2, <1>4, <1>5, DuesFacts
  <2> QED
    BY <2>1
<1>6. OneEach'
  BY <1>1, <1>2, <1>3, <1>5 DEF OneEach
<1>7. Timely'
  <2>1. delay >= 0
    BY Constants
  <2> QED
    BY <1>1, <1>2, <1>3, <1>4, <2>1 DEF Timely
<1>8. Accounted'
  <2>1. ASSUME NEW r PROVE UnderWay(r)' = UnderWay(r)
    <3>1. e \notin AnswersTo(r)
      BY <1>3 DEF AnswersTo
    <3> QED
      BY <1>1, <1>5, <3>1 DEF UnderWay
  <2> QED
    BY <1>1, <1>2, <2>1 DEF Accounted
<1>9. Typed' /\ Driven'
  BY <1>1, <1>2 DEF Typed, Driven
<1>10. InPhase
  <2>1. Dues(agenda', Ticks) \subseteq Dues(agenda, Ticks)
    BY <1>3, <1>4
  <2>2. Dues(agenda', Idles) \subseteq Dues(agenda, Idles)
    BY <1>3, <1>4
  <2> QED
    BY <1>1, <1>2, <2>1, <2>2, OneDue DEF InPhase
<1> QED
  BY <1>4, <1>6, <1>7, <1>8, <1>9, <1>10 DEF Counted

LEMMA SetHorizonFacts ==
    ASSUME DramInv, NEW delay \in Delays \cup {None}, SetHorizon(delay),
           UNCHANGED idleRefresh
    PROVE  Counted' /\ InPhase
<1>1. /\ horizon' \in Nat \cup {-1, None}
      /\ UNCHANGED <<agenda, inFlight, refreshes, ticking, idleTicking,
                     idleBatch, completed, owed, behind, idleRefresh>>
  BY Constants DEF SetHorizon
<1>2. Typed /\ Sane(agenda) /\ OneEach /\ Timely /\ Accounted /\ Driven /\ Named
  BY DEF DramInv, Counted
<1>3. Typed'
  BY <1>1, <1>2 DEF Typed
<1>4. OneEach' /\ Timely' /\ Driven' /\ Sane(agenda')
  BY <1>1, <1>2 DEF OneEach, Timely, Driven
<1>5. Accounted'
  BY <1>1, <1>2 DEF Accounted, UnderWay
<1>6. InPhase
  BY <1>1, <1>2, OneDue DEF InPhase
<1> QED
  BY <1>3, <1>4, <1>5, <1>6 DEF Counted

-----------------------------------------------------------------------------
(* Events fire.                                                            *)

\* What firing the head leaves, and the lag the clocks' events then have.
LEMMA HeadFires ==
    ASSUME DramInv, agenda # <<>>
    PROVE  /\ Head(agenda) \in Event /\ Head(agenda).due \in Nat
           /\ Head(agenda).run = "tick" <=> Head(agenda) \in Ticks
           /\ Head(agenda).run = "idle" <=> Head(agenda) \in Idles
           /\ Head(agenda).run = "done" <=> Head(agenda) \in Answers
           /\ Sane(AfterHead(agenda))
           /\ \A W : Timeless(W, Event) =>
                 Count(AfterHead(agenda), W)
                   = Count(agenda, W) - (IF Head(agenda) \in W THEN 1 ELSE 0)
           /\ \A d \in Dues(AfterHead(agenda), Event) : d >= 0
           /\ \A d \in Dues(AfterHead(agenda), Answers) : d = 0
           /\ \A d \in Dues(AfterHead(agenda), Ticks) :
                 behind + Head(agenda).due + d >= Period
           /\ \A d \in Dues(AfterHead(agenda), Idles) :
                 behind + Head(agenda).due + d >= idleBatch * Period
           /\ Head(agenda) \in Ticks => behind + Head(agenda).due >= Period
           /\ Head(agenda) \in Idles =>
                 behind + Head(agenda).due >= idleBatch * Period
<1>1. Sane(agenda) /\ Timely /\ behind \in Int /\ idleBatch \in Nat
  BY Constants DEF DramInv, Counted, Typed
<1> DEFINE h == Head(agenda).due
           u == AfterHead(agenda)
<1>2. /\ Sane(u)
      /\ Head(agenda) \in Event /\ h \in Int
      /\ \A W : Head(agenda) \in W => h \in Dues(agenda, W)
      /\ \A W : Timeless(W, Event) =>
            /\ Count(u, W) = Count(agenda, W) - (IF Head(agenda) \in W THEN 1 ELSE 0)
            /\ \A d \in Dues(u, W) : d + h \in Dues(agenda, W) /\ d >= 0
  BY <1>1, FireFacts
<1> HIDE DEF u, h
<1>3. h \in Nat
  BY <1>1, <1>2 DEF Timely
<1>4. /\ \A d \in Dues(u, Event) : d >= 0
      /\ \A d \in Dues(u, Answers) : d + h \in Dues(agenda, Answers) /\ d >= 0
      /\ \A d \in Dues(u, Ticks) : d + h \in Dues(agenda, Ticks)
      /\ \A d \in Dues(u, Idles) : d + h \in Dues(agenda, Idles)
  BY <1>2, Kinds
<1>5. ASSUME NEW W, NEW d \in Dues(u, W) PROVE d \in Int
  BY <1>2, DuesFacts
<1>6. \A d \in Dues(u, Answers) : d = 0
  BY <1>1, <1>3, <1>4, <1>5 DEF Timely
<1>7. ASSUME NEW d \in Dues(u, Ticks) PROVE behind + h + d >= Period
  <2>1. d \in Int /\ behind + (d + h) >= Period
    BY <1>1, <1>4, <1>5 DEF Timely
  <2> QED
    BY <1>1, <1>3, <2>1, Constants
<1>8. ASSUME NEW d \in Dues(u, Idles) PROVE behind + h + d >= idleBatch * Period
  <2>1. d \in Int /\ behind + (d + h) >= idleBatch * Period
    BY <1>1, <1>4, <1>5 DEF Timely
  <2>2. behind + (d + h) = behind + h + d
    BY <1>1, <1>3, <2>1
  <2> QED
    BY <2>1, <2>2
<1>9. /\ Head(agenda) \in Ticks => behind + h >= Period
      /\ Head(agenda) \in Idles => behind + h >= idleBatch * Period
  BY <1>1, <1>2 DEF Timely
<1>10. /\ Head(agenda).run = "tick" <=> Head(agenda) \in Ticks
       /\ Head(agenda).run = "idle" <=> Head(agenda) \in Idles
       /\ Head(agenda).run = "done" <=> Head(agenda) \in Answers
  BY <1>2, EventFacts DEF Ticks, Idles
<1> QED
  BY <1>2, <1>3, <1>4, <1>6, <1>7, <1>8, <1>9, <1>10 DEF h, u

LEMMA OtherFiresFacts ==
    ASSUME DramInv, NEW run \in {"done", "client"}, OtherFires(run),
           UNCHANGED idleRefresh,
           owed' = IF run = "done" THEN owed \ {Head(agenda).req} ELSE owed
    PROVE  Counted' /\ InPhase
<1> DEFINE h == Head(agenda).due
           e == Head(agenda)
<1>1. /\ agenda # <<>> /\ e.run = run
      /\ agenda' = AfterHead(agenda)
      /\ horizon' = Later(horizon, h)
      /\ behind' = Capped(behind + h, ticking)
      /\ UNCHANGED <<inFlight, refreshes, ticking, idleTicking, idleBatch,
                     completed, idleRefresh>>
  BY DEF OtherFires, Fires
<1>2. Typed /\ Sane(agenda) /\ OneEach /\ Timely /\ Accounted /\ Driven /\ Named
  BY DEF DramInv, Counted
<1>3. /\ e \in Event /\ h \in Nat
      /\ e \notin Ticks /\ e \notin Idles /\ (run = "done" <=> e \in Answers)
      /\ Sane(agenda')
      /\ \A W : Timeless(W, Event) =>
            Count(agenda', W) = Count(agenda, W) - (IF e \in W THEN 1 ELSE 0)
      /\ \A d \in Dues(agenda', Event) : d >= 0
      /\ \A d \in Dues(agenda', Answers) : d = 0
      /\ \A d \in Dues(agenda', Ticks) : behind + h + d >= Period
      /\ \A d \in Dues(agenda', Idles) : behind + h + d >= idleBatch * Period
  BY <1>1, HeadFires
<1> HIDE DEF e, h
<1>4. ASSUME NEW W, Timeless(W, Event), e \notin W
      PROVE  Count(agenda', W) = Count(agenda, W)
  <2>1. Count(agenda', W) = Count(agenda, W) - 0 /\ Count(agenda, W) \in Nat
    BY <1>2, <1>3, <1>4, DuesFacts
  <2> QED
    BY <2>1
<1>5. OneEach'
  BY <1>1, <1>2, <1>3, <1>4, Kinds DEF OneEach
<1>6. /\ behind \in Int /\ behind >= 0 /\ idleBatch \in Nat /\ idleBatch <= MaxIdleBatch
  BY <1>2, Constants DEF Typed, Timely
<1>7. /\ behind' \in Int /\ behind' >= 0
      /\ behind' = behind + h \/ (~ticking /\ behind' = MaxBehind)
  BY <1>1, <1>3, <1>6, Constants DEF Capped
<1>8. Timely'
  <2>1. ASSUME NEW d \in Dues(agenda', Ticks) PROVE behind' + d >= Period
    <3>1. ticking
      <4>1. Count(agenda', Ticks) # 0
        BY <1>3, <2>1, DuesFacts
      <4> QED
        BY <1>1, <1>5, <4>1 DEF OneEach
    <3> QED
      BY <1>3, <1>7, <2>1, <3>1
  <2>2. ASSUME NEW d \in Dues(agenda', Idles) PROVE behind' + d >= idleBatch' * Period
    <3>1. CASE behind' = behind + h
      BY <1>1, <1>3, <2>2, <3>1
    <3>2. CASE behind' = MaxBehind
      <4>1. d \in Int /\ d >= 0
        BY <1>3, <2>2, DuesFacts
      <4>2. idleBatch * Period <= MaxIdleBatch * Period
        <5>1. PICK x \in Nat : MaxIdleBatch = idleBatch + x
          <6>1. MaxIdleBatch - idleBatch \in Nat
                /\ MaxIdleBatch = idleBatch + (MaxIdleBatch - idleBatch)
            BY <1>6, Constants
          <6> QED
            BY <6>1
        <5>2. MaxIdleBatch * Period = idleBatch * Period + x * Period
          BY <1>6, <5>1, Constants
        <5>3. x * Period \in Nat /\ idleBatch * Period \in Nat
          BY <1>6, Constants
        <5> QED
          BY <5>2, <5>3
      <4>3. PICK y \in Nat : y = idleBatch * Period
        BY <1>6, Constants
      <4>4. PICK z \in Nat : z = MaxIdleBatch * Period
        BY Constants
      <4>5. MaxBehind \in Nat /\ MaxBehind >= z /\ y <= z
        BY <4>2, <4>3, <4>4, Constants
      <4>6. MaxBehind + d >= y
        BY <4>1, <4>5
      <4> QED
        BY <1>1, <3>2, <4>3, <4>6
    <3> QED
      BY <1>7, <3>1, <3>2
  <2> QED
    BY <1>3, <1>7, <2>1, <2>2 DEF Timely
<1>9. Accounted'
  <2>1. owed' \cap Silent = {}
    BY <1>2 DEF Accounted
  <2>2. ASSUME NEW r \in Requests
        PROVE  \/ UnderWay(r)' = (IF r \in owed' THEN 1 ELSE 0)
               \/ BadBatches /\ r \in Writes /\ UnderWay(r)' = 0
    <3>1. UnderWay(r)' = Count(agenda', AnswersTo(r)) + Count(completed, {r})
                            + (IF r \in (inFlight \cap Reads) \ Silent THEN 1 ELSE 0)
      BY <1>1 DEF UnderWay
    <3>2. CASE e \in AnswersTo(r)
      <4>1. e \in Answers /\ e.req = r /\ r \notin owed'
        BY <1>3, <3>2 DEF AnswersTo, e
      <4>2. PICK x \in Nat : x = Count(agenda', AnswersTo(r))
        BY <1>3, DuesFacts
      <4>3. PICK z \in Nat : z = Count(agenda, AnswersTo(r))
        BY <1>2, UnderWayFacts
      <4>4. x = z - 1
        BY <1>3, <3>2, <4>2, <4>3, Kinds
      <4>5. PICK y \in Nat : y = Count(completed, {r})
        BY <1>2, UnderWayFacts
      <4>6. PICK w \in {0, 1} : w = (IF r \in (inFlight \cap Reads) \ Silent THEN 1 ELSE 0)
        OBVIOUS
      <4>7. UnderWay(r) = z + y + w /\ UnderWay(r)' = x + y + w
        BY <3>1, <4>2, <4>3, <4>5, <4>6 DEF UnderWay
      <4>8. z + y + w \in {0, 1}
        BY <1>2, <4>7 DEF Accounted
      <4>9. x + y + w = 0
        BY <4>4, <4>8
      <4> QED
        BY <4>1, <4>7, <4>9
    <3>3. CASE e \notin AnswersTo(r)
      <4>1. UnderWay(r)' = UnderWay(r)
        BY <1>4, <3>1, <3>3, Kinds DEF UnderWay
      <4>2. r \in owed' <=> r \in owed
        BY <1>3, <3>3 DEF AnswersTo, e
      <4> QED
        BY <1>2, <4>1, <4>2 DEF Accounted
    <3> QED
      BY <3>2, <3>3
  <2> QED
    BY <2>1, <2>2 DEF Accounted
<1>10. Typed'
  <2>1. horizon' \in Nat \cup {-1, None}
    BY <1>1, <1>2, <1>3, LaterFacts DEF Typed
  <2>2. owed' \subseteq Requests
    BY <1>2 DEF Typed
  <2> QED
    BY <1>1, <1>2, <1>7, <2>1, <2>2 DEF Typed
<1>11. Driven'
  BY <1>1, <1>2 DEF Driven
<1>12. InPhase
  <2>1. ASSUME NEW d \in Dues(agenda, Ticks), NEW f \in Dues(agenda', Ticks)
        PROVE  behind' + f = behind + d
    <3>1. f \in Int /\ f + h \in Dues(agenda, Ticks)
      BY <1>1, <1>2, <1>3, <2>1, DuesFacts, FireFacts, Kinds DEF h
    <3>2. ticking /\ d = f + h
      BY <1>2, <2>1, <3>1, OneDue
    <3> QED
      BY <1>3, <1>6, <1>7, <3>1, <3>2
  <2>2. ASSUME behind' < MaxBehind,
               NEW d \in Dues(agenda, Idles), NEW f \in Dues(agenda', Idles)
        PROVE  behind' + f - idleBatch' * Period = behind + d - idleBatch * Period
    <3>1. f \in Int /\ f + h \in Dues(agenda, Idles)
      BY <1>1, <1>2, <1>3, <2>2, DuesFacts, FireFacts, Kinds DEF h
    <3>2. d = f + h
      BY <1>2, <2>2, <3>1, OneDue
    <3>3. behind' = behind + h
      BY <1>7, <2>2, Constants
    <3>4. PICK y \in Nat : y = idleBatch * Period /\ y = idleBatch' * Period
      BY <1>1, <1>6, Constants
    <3>5. (behind + h) + (f - y) = behind + ((f + h) - y)
      BY <1>3, <1>6, <3>1
    <3> QED
      BY <3>2, <3>3, <3>4, <3>5
  <2> QED
    BY <2>1, <2>2 DEF InPhase
<1> QED
  BY <1>3, <1>5, <1>8, <1>9, <1>10, <1>11, <1>12 DEF Counted

\* Requests the engine services leave it, and the reads among them are
\* reported.
LEMMA ServicedFacts ==
    ASSUME Typed, NEW done \in SUBSET inFlight
    PROVE  /\ IsFiniteSet(inFlight \ done)
           /\ Cardinality(inFlight \ done) \in Nat
           /\ Cardinality(inFlight \ done) <= Queue
           /\ Cardinality(inFlight \ done) = 0 <=> inFlight \ done = {}
           /\ Completions(done \cap Reads) \in Seq(Requests)
           /\ completed \o Completions(done \cap Reads) \in Seq(Requests)
           /\ \A r : Count(completed \o Completions(done \cap Reads), {r})
                        = Count(completed, {r})
                            + (IF r \in (done \cap Reads) \ Silent THEN 1 ELSE 0)
           /\ done = {} => Completions(done \cap Reads) = <<>>
<1>1. IsFiniteSet(inFlight) /\ inFlight \subseteq Requests
      /\ Cardinality(inFlight) <= Queue /\ completed \in Seq(Requests)
  BY DEF Typed
<1>2. /\ IsFiniteSet(inFlight \ done)
      /\ Cardinality(inFlight \ done) \in Nat
      /\ Cardinality(inFlight \ done) <= Cardinality(inFlight)
      /\ Cardinality(inFlight) \in Nat
      /\ Cardinality(inFlight \ done) = 0 <=> inFlight \ done = {}
  <2>1. inFlight \ done \in SUBSET inFlight
    OBVIOUS
  <2> QED
    BY <1>1, <2>1, FS_Subset, FS_CardinalityType, FS_EmptySet
<1> DEFINE rs == done \cap Reads
           cs == Completions(rs)
<1>3. rs \in SUBSET Requests /\ IsFiniteSet(rs)
  BY <1>1, FS_Subset
<1>4. /\ cs \in Seq(Requests)
      /\ \A r : Count(cs, {r}) = (IF r \in rs \ Silent THEN 1 ELSE 0)
      /\ rs = {} => cs = <<>>
  BY <1>3, CompletionsFacts
<1> HIDE DEF cs
<1>5. completed \o cs \in Seq(Requests)
  BY <1>1, <1>4, ConcatFacts
<1>6. ASSUME NEW r PROVE Count(completed \o cs, {r})
                            = Count(completed, {r}) + (IF r \in rs \ Silent THEN 1 ELSE 0)
  <2>1. Count(completed \o cs, {r}) = Count(completed, {r}) + Count(cs, {r})
    BY <1>1, <1>4, CountConcat
  <2> QED
    BY <1>4, <2>1
<1>7. Cardinality(inFlight \ done) <= Queue
  BY <1>1, <1>2, Constants
<1> QED
  BY <1>2, <1>4, <1>5, <1>6, <1>7 DEF cs

LEMMA IdleTickFacts ==
    ASSUME DramInv, NEW done \in SUBSET inFlight, NEW own \in 0 .. MaxRefreshes,
           IdleTick(done, own), UNCHANGED idleRefresh
    PROVE  Counted' /\ InPhase
<1> DEFINE h == Head(agenda).due
           e == Head(agenda)
           rest == AfterHead(agenda)
           cs == completed \o Completions(done \cap Reads)
           busy == Pending(inFlight', own) > 0
<1>1. /\ agenda # <<>> /\ e.run = "idle"
      /\ inFlight' = inFlight \ done
      /\ refreshes' = own
      /\ completed' = cs
      /\ horizon' = Later(horizon, h)
      /\ behind' = behind + h - idleBatch * Period
      /\ busy => /\ idleTicking' = FALSE /\ idleBatch' = IdleBatch
                 /\ agenda' = TickingStarted(rest, FALSE) /\ ticking' = TRUE
      /\ ~busy => /\ idleBatch' = Least(idleBatch * 2, MaxIdleBatch)
                  /\ agenda' = Inserted(rest, IdleEvent(idleBatch', NewId))
                  /\ UNCHANGED <<ticking, idleTicking>>
      /\ owed' = owed
  BY DEF IdleTick, Fires
<1>2. Typed /\ Sane(agenda) /\ OneEach /\ Timely /\ Accounted /\ Driven /\ Named
  BY DEF DramInv, Counted
<1>3. /\ e \in Event /\ h \in Nat /\ e \in Idles /\ e \notin Ticks /\ e \notin Answers
      /\ Sane(rest)
      /\ \A W : Timeless(W, Event) =>
            Count(rest, W) = Count(agenda, W) - (IF e \in W THEN 1 ELSE 0)
      /\ \A d \in Dues(rest, Event) : d >= 0
      /\ \A d \in Dues(rest, Answers) : d = 0
      /\ behind + h >= idleBatch * Period
  BY <1>1, HeadFires
<1>4. /\ IsFiniteSet(inFlight')
      /\ Cardinality(inFlight') \in Nat
      /\ Cardinality(inFlight') <= Queue
      /\ cs \in Seq(Requests)
      /\ \A r : Count(cs, {r}) = Count(completed, {r})
                   + (IF r \in (done \cap Reads) \ Silent THEN 1 ELSE 0)
      /\ done = {} => Completions(done \cap Reads) = <<>>
  BY <1>1, <1>2, ServicedFacts
<1> HIDE DEF e, h, rest, busy
<1>5. ASSUME NEW W, Timeless(W, Event), e \notin W
      PROVE  Count(rest, W) = Count(agenda, W)
  <2>1. Count(rest, W) = Count(agenda, W) - 0 /\ Count(agenda, W) \in Nat
    BY <1>2, <1>3, <1>5, DuesFacts
  <2> QED
    BY <2>1
<1>6. /\ ticking = FALSE /\ idleTicking = TRUE
      /\ Count(rest, Ticks) = 0 /\ Count(rest, Idles) = 0
      /\ \A r : Count(rest, AnswersTo(r)) = Count(agenda, AnswersTo(r))
  <2>1. Count(rest, Idles) \in Nat /\ Count(rest, Idles) = Count(agenda, Idles) - 1
    BY <1>3, DuesFacts, Kinds
  <2>2. idleTicking
    BY <1>2, <2>1 DEF OneEach
  <2>3. ~ticking
    BY <1>2, <2>2 DEF OneEach
  <2>4. Count(rest, Idles) = 0
    BY <1>2, <2>1, <2>2 DEF OneEach
  <2>5. Count(rest, Ticks) = 0
    BY <1>2, <1>3, <1>5, <2>3, Kinds DEF OneEach
  <2>6. ASSUME NEW r PROVE Count(rest, AnswersTo(r)) = Count(agenda, AnswersTo(r))
    <3>1. e \notin AnswersTo(r)
      BY <1>3 DEF AnswersTo
    <3> QED
      BY <1>5, <3>1, Kinds
  <2> QED
    BY <1>2, <2>2, <2>3, <2>4, <2>5, <2>6 DEF Typed
<1>7. /\ idleBatch \in Nat /\ idleBatch >= IdleBatch /\ idleBatch <= MaxIdleBatch
      /\ behind \in Int
  BY <1>2, Constants DEF Typed
<1>8. behind' \in Int /\ behind' >= 0
  <2>1. PICK x \in Nat : x = idleBatch * Period
    BY <1>7, Constants
  <2> QED
    BY <1>1, <1>3, <1>7, <2>1
<1>9. idleBatch' \in IdleBatch .. MaxIdleBatch
  <2>1. CASE busy
    BY <1>1, <2>1, Constants
  <2>2. CASE ~busy
    BY <1>1, <1>7, <2>2, Constants DEF Least
  <2> QED
    BY <2>1, <2>2
<1>10. /\ Sane(agenda')
       /\ Count(agenda', Ticks) = (IF busy THEN 1 ELSE 0)
       /\ Count(agenda', Idles) = (IF busy THEN 0 ELSE 1)
       /\ \A r : Count(agenda', AnswersTo(r)) = Count(agenda, AnswersTo(r))
       /\ \A W : \A d \in Dues(agenda', W) :
             \/ d \in Dues(rest, W)
             \/ busy /\ TickEvent \in W /\ d = Period
             \/ ~busy /\ W # Answers /\ d = idleBatch' * Period
  <2>1. CASE busy
    <3>0. PICK no \in BOOLEAN : no = FALSE
      OBVIOUS
    <3>1. /\ Count(rest, Ticks) = (IF ticking THEN 1 ELSE 0)
          /\ Count(rest, Idles) = (IF no THEN 1 ELSE 0)
          /\ ticking \in BOOLEAN /\ ~(ticking /\ no)
          /\ agenda' = TickingStarted(rest, no)
          /\ no => Dues(rest, Strays) = {}
      BY <1>1, <1>6, <2>1, <3>0
    <3>2. /\ Sane(agenda')
          /\ Count(agenda', Ticks) = 1 /\ Count(agenda', Idles) = 0
          /\ \A r : Count(agenda', AnswersTo(r)) = Count(rest, AnswersTo(r))
          /\ \A W : \A d \in Dues(agenda', W) :
                \/ d \in Dues(rest, W)
                \/ ~ticking /\ TickEvent \in W /\ d = Period
      BY <1>3, <3>1, StartFacts
    <3> QED
      BY <1>6, <2>1, <3>2
  <2>2. CASE ~busy
    <3>1. idleBatch' \in Nat
      BY <1>9, Constants
    <3>2. PICK i \in Event : /\ i = IdleEvent(idleBatch', NewId)
                             /\ i.due = idleBatch' * Period
                             /\ i \in Idles /\ i \notin Ticks /\ i \notin Answers
      BY <3>1, NewIdFacts, NewEvents
    <3>3. /\ Sane(agenda')
          /\ \A W : Count(agenda', W) = Count(rest, W) + (IF i \in W THEN 1 ELSE 0)
          /\ \A W : \A d \in Dues(agenda', W) :
                d \in Dues(rest, W) \/ (i \in W /\ d = i.due)
      BY <1>1, <1>3, <2>2, <3>2, ScheduleFacts
    <3>4. Count(agenda', Ticks) = 0 /\ Count(agenda', Idles) = 1
      BY <1>6, <3>2, <3>3
    <3>5. ASSUME NEW r PROVE Count(agenda', AnswersTo(r)) = Count(agenda, AnswersTo(r))
      <4>1. i \notin AnswersTo(r)
        BY <3>2 DEF AnswersTo
      <4>2. Count(agenda', AnswersTo(r)) = Count(rest, AnswersTo(r)) + 0
        BY <3>3, <4>1
      <4>3. Count(rest, AnswersTo(r)) \in Nat
        BY <1>3, DuesFacts
      <4> QED
        BY <1>6, <4>2, <4>3
    <3>6. \A W : \A d \in Dues(agenda', W) :
             d \in Dues(rest, W) \/ (W # Answers /\ d = idleBatch' * Period)
      BY <3>2, <3>3
    <3> QED
      BY <2>2, <3>3, <3>4, <3>5, <3>6
  <2> QED
    BY <2>1, <2>2
<1>11. OneEach'
  <2>1. CASE busy
    BY <1>1, <1>10, <2>1 DEF OneEach
  <2>2. CASE ~busy
    BY <1>1, <1>6, <1>10, <2>2 DEF OneEach
  <2> QED
    BY <2>1, <2>2
<1>12. Timely'
  <2>1. idleBatch' * Period \in Nat
    <3>1. idleBatch' \in Nat
      BY <1>9, Constants
    <3>2. \A x \in Nat : x * Period \in Nat
      BY Constants
    <3> QED
      BY <3>1, <3>2
  <2>2. ASSUME NEW d \in Dues(agenda', Event) PROVE d >= 0
    BY <1>3, <1>10, <2>1, Constants
  <2>3. ASSUME NEW d \in Dues(agenda', Answers) PROVE d = 0
    BY <1>3, <1>10, NewEvents
  <2>4. Dues(rest, Ticks) = {} /\ Dues(rest, Idles) = {}
    BY <1>3, <1>6, DuesFacts
  <2>5. ASSUME NEW d \in Dues(agenda', Ticks) PROVE behind' + d >= Period
    <3>1. busy
      BY <1>10, <2>5, DuesFacts
    <3>2. d = Period
      BY <1>10, <2>4, <3>1
    <3>3. behind' \in Nat
      BY <1>8
    <3>4. \A x \in Nat : x + Period >= Period
      BY Constants
    <3> QED
      BY <3>2, <3>3, <3>4
  <2>6. ASSUME NEW d \in Dues(agenda', Idles) PROVE behind' + d >= idleBatch' * Period
    <3>1. d = idleBatch' * Period
      BY <1>10, <2>4, NewEvents
    <3> QED
      BY <1>8, <2>1, <3>1
  <2> QED
    BY <1>8, <2>2, <2>3, <2>5, <2>6 DEF Timely
<1>13. Accounted'
  <2>1. owed' \cap Silent = {}
    BY <1>1, <1>2 DEF Accounted
  <2>2. ASSUME NEW r \in Requests
        PROVE  \/ UnderWay(r)' = (IF r \in owed' THEN 1 ELSE 0)
               \/ BadBatches /\ r \in Writes /\ UnderWay(r)' = 0
    <3>1. PICK x \in Nat : x = Count(agenda, AnswersTo(r)) /\ x = Count(agenda', AnswersTo(r))
      BY <1>2, <1>10, UnderWayFacts
    <3>2. PICK y \in Nat : y = Count(completed, {r})
      BY <1>2, UnderWayFacts
    <3>3. PICK z \in {0, 1} : z = (IF r \in (done \cap Reads) \ Silent THEN 1 ELSE 0)
      OBVIOUS
    <3>4. PICK w \in {0, 1} : w = (IF r \in (inFlight \cap Reads) \ Silent THEN 1 ELSE 0)
      OBVIOUS
    <3>5. w - z = (IF r \in (inFlight' \cap Reads) \ Silent THEN 1 ELSE 0)
      BY <1>1, <3>3, <3>4
    <3>6. Count(completed', {r}) = y + z
      BY <1>1, <1>4, <3>2, <3>3
    <3>7. UnderWay(r)' = x + (y + z) + (w - z) /\ UnderWay(r) = x + y + w
      BY <3>1, <3>2, <3>4, <3>5, <3>6 DEF UnderWay
    <3>8. UnderWay(r)' = UnderWay(r)
      BY <3>7
    <3> QED
      BY <1>1, <1>2, <3>8 DEF Accounted
  <2> QED
    BY <2>1, <2>2 DEF Accounted
<1>14. Typed'
  <2>1. horizon' \in Nat \cup {-1, None}
    BY <1>1, <1>2, <1>3, LaterFacts DEF Typed
  <2>2. ticking' \in BOOLEAN /\ idleTicking' \in BOOLEAN
    BY <1>1, <1>6
  <2>3. inFlight' \subseteq Requests /\ owed' \subseteq Requests
    BY <1>1, <1>2 DEF Typed
  <2> QED
    BY <1>1, <1>2, <1>4, <1>8, <1>9, <2>1, <2>2, <2>3 DEF Typed
<1>15. Driven'
  <2> SUFFICES ASSUME ~BadBatches PROVE completed' = <<>> /\ inFlight' = {}
    BY DEF Driven
  <2>1. completed = <<>> /\ inFlight = {}
    BY <1>2, <1>6 DEF Driven
  <2>2. done = {} /\ Completions(done \cap Reads) = <<>>
    BY <1>4, <2>1
  <2> QED
    BY <1>1, <2>1, <2>2
<1>16. InPhase
  <2>1. Dues(agenda, Ticks) = {}
    BY <1>2, <1>6, DuesFacts DEF OneEach
  <2>2. ASSUME NEW d \in Dues(agenda, Idles), NEW f \in Dues(agenda', Idles)
        PROVE  behind' + f - idleBatch' * Period = behind + d - idleBatch * Period
    <3>1. d = h
      <4>1. h \in Dues(agenda, Idles)
        BY <1>1, <1>2, <1>3, FireFacts DEF e, h
      <4> QED
        BY <1>2, <2>2, <4>1, OneDue
    <3>2. f = idleBatch' * Period
      <4>1. Dues(rest, Idles) = {}
        BY <1>3, <1>6, DuesFacts
      <4> QED
        BY <1>10, <2>2, <4>1, NewEvents
    <3>3. \A x, y \in Int : x + y - y = x
      OBVIOUS
    <3>4. behind' \in Int /\ idleBatch' * Period \in Int
      <4>1. idleBatch' \in Nat
        BY <1>9, Constants
      <4>2. \A x \in Nat : x * Period \in Int
        BY Constants
      <4> QED
        BY <1>8, <4>1, <4>2
    <3>5. behind' + f - idleBatch' * Period = behind'
      BY <3>2, <3>3, <3>4
    <3> QED
      BY <1>1, <3>1, <3>5
  <2> QED
    BY <2>1, <2>2 DEF InPhase
<1> QED
  BY <1>10, <1>11, <1>12, <1>13, <1>14, <1>15, <1>16 DEF Counted

\* The agenda a burst of n cycles leaves, before the next event of a clock:
\* the completions are due now, and the other events come after the burst.
LEMMA BurstAgenda ==
    ASSUME DramInv, NEW n \in 1 .. BurstCap, NEW done \in SUBSET inFlight,
           NEW own \in 0 .. MaxRefreshes, Tick(n, done, own)
    PROVE  LET rest == AfterHead(agenda)
               jump == JumpOver(n)
               a == Delivered(Elapsed(rest, jump),
                              completed \o Completions(done \cap Reads))
           IN /\ Sane(a) /\ jump \in Nat
              /\ ticking = TRUE /\ idleTicking = FALSE
              /\ Count(a, Ticks) = 0 /\ Count(a, Idles) = 0
              /\ \A r : Count(a, AnswersTo(r))
                           = Count(agenda, AnswersTo(r)) + Count(completed, {r})
                               + (IF r \in (done \cap Reads) \ Silent THEN 1 ELSE 0)
              /\ \A d \in Dues(a, Event) : d >= 0
              /\ \A d \in Dues(a, Answers) : d = 0
              /\ behind + Head(agenda).due >= Period
              /\ jump = (n - 1) * Period
              /\ Later(Later(horizon, Head(agenda).due), jump) \in Nat \cup {-1, None}
<1> DEFINE h == Head(agenda).due
           e == Head(agenda)
           rest == AfterHead(agenda)
           jump == JumpOver(n)
           until == Later(horizon, h)
           b == Elapsed(rest, jump)
           cs == completed \o Completions(done \cap Reads)
           a == Delivered(b, cs)
<1>1. agenda # <<>> /\ e.run = "tick" /\ n <= MaxTickBurst(rest, until)
  BY DEF Tick, Fires
<1>2. Typed /\ Sane(agenda) /\ OneEach /\ Timely /\ Accounted
  BY DEF DramInv, Counted
<1>3. /\ e \in Event /\ h \in Nat /\ e \in Ticks /\ e \notin Idles /\ e \notin Answers
      /\ Sane(rest)
      /\ \A W : Timeless(W, Event) =>
            Count(rest, W) = Count(agenda, W) - (IF e \in W THEN 1 ELSE 0)
      /\ \A d \in Dues(rest, Event) : d >= 0
      /\ \A d \in Dues(rest, Answers) : d = 0
      /\ behind + h >= Period
  BY <1>1, HeadFires
<1>4. /\ cs \in Seq(Requests)
      /\ \A r : Count(cs, {r}) = Count(completed, {r})
                   + (IF r \in (done \cap Reads) \ Silent THEN 1 ELSE 0)
  BY <1>2, ServicedFacts
<1> HIDE DEF e, h, rest, cs
<1>5. ASSUME NEW W, Timeless(W, Event), e \notin W
      PROVE  Count(rest, W) = Count(agenda, W)
  <2>1. Count(rest, W) = Count(agenda, W) - 0 /\ Count(agenda, W) \in Nat
    BY <1>2, <1>3, <1>5, DuesFacts
  <2> QED
    BY <2>1
<1>6. /\ ticking = TRUE /\ idleTicking = FALSE
      /\ Count(rest, Ticks) = 0 /\ Count(rest, Idles) = 0
      /\ \A r : Count(rest, AnswersTo(r)) = Count(agenda, AnswersTo(r))
  <2>1. Count(rest, Ticks) \in Nat /\ Count(rest, Ticks) = Count(agenda, Ticks) - 1
    BY <1>3, DuesFacts, Kinds
  <2>2. ticking
    BY <1>2, <2>1 DEF OneEach
  <2>3. ~idleTicking
    BY <1>2, <2>2 DEF OneEach
  <2>4. Count(rest, Ticks) = 0
    BY <1>2, <2>1, <2>2 DEF OneEach
  <2>5. Count(rest, Idles) = 0
    BY <1>2, <1>3, <1>5, <2>3, Kinds DEF OneEach
  <2>6. ASSUME NEW r PROVE Count(rest, AnswersTo(r)) = Count(agenda, AnswersTo(r))
    <3>1. e \notin AnswersTo(r)
      BY <1>3 DEF AnswersTo
    <3> QED
      BY <1>5, <3>1, Kinds
  <2> QED
    BY <1>2, <2>2, <2>3, <2>4, <2>5, <2>6 DEF Typed
<1>7. until \in Nat \cup {-1, None}
  BY <1>2, <1>3, LaterFacts DEF Typed
<1> HIDE DEF until, jump
<1>8. /\ jump \in Nat /\ jump = (n - 1) * Period
      /\ \A d \in Dues(rest, Event) : d >= jump
      /\ \A d \in Dues(rest, Event) : d = 0 => jump = 0
  <2>1. CASE n = 1
    <3>1. jump = 0 /\ (n - 1) * Period = 0
      BY <2>1, Constants DEF jump, JumpOver
    <3> QED
      BY <1>3, <3>1
  <2>2. CASE n # 1
    <3>1. n \in Nat /\ n >= 2
      BY <2>2, Constants
    <3>2. /\ jump \in Nat /\ jump = (n - 1) * Period
          /\ \A d \in Dues(rest, Event) : d > jump
      BY <1>1, <1>3, <1>7, <3>1, BurstFacts DEF jump
    <3>3. \A d \in Dues(rest, Event) : d \in Int
      BY <1>3, DuesFacts
    <3> QED
      BY <3>2, <3>3
  <2> QED
    BY <2>1, <2>2
<1>9. /\ Sane(b)
      /\ Count(b, Ticks) = 0 /\ Count(b, Idles) = 0
      /\ \A r : Count(b, AnswersTo(r)) = Count(agenda, AnswersTo(r))
      /\ \A d \in Dues(b, Event) : d + jump \in Dues(rest, Event)
      /\ \A d \in Dues(b, Answers) : d + jump \in Dues(rest, Answers)
  BY <1>3, <1>6, <1>8, PassFacts, Kinds
<1> HIDE DEF b
<1>10. ASSUME NEW d \in Dues(b, Event) PROVE d >= 0
  <2>1. d \in Int /\ d + jump >= jump
    BY <1>8, <1>9, <1>10, DuesFacts
  <2> QED
    BY <1>8, <2>1
<1>11. ASSUME NEW d \in Dues(b, Answers) PROVE d = 0
  <2>1. d \in Int /\ d + jump = 0
    BY <1>3, <1>9, <1>11, DuesFacts
  <2>2. d + jump \in Dues(rest, Event)
    BY <1>3, <1>9, <1>11, DuesFacts
  <2>3. jump = 0
    BY <1>8, <2>1, <2>2
  <2> QED
    BY <2>1, <2>3
<1>12. /\ Sane(a)
       /\ Count(a, Ticks) = 0 /\ Count(a, Idles) = 0
       /\ \A r : Count(a, AnswersTo(r)) = Count(b, AnswersTo(r)) + Count(cs, {r})
       /\ \A W : \A d \in Dues(a, W) :
             d \in Dues(b, W) \/ (d = 0 /\ W \cap Answers # {})
  BY <1>4, <1>9, DeliverFacts
<1> HIDE DEF a
<1>13. /\ \A d \in Dues(a, Event) : d >= 0
       /\ \A d \in Dues(a, Answers) : d = 0
  BY <1>10, <1>11, <1>12
<1>14. ASSUME NEW r
       PROVE  Count(a, AnswersTo(r))
                = Count(agenda, AnswersTo(r)) + Count(completed, {r})
                    + (IF r \in (done \cap Reads) \ Silent THEN 1 ELSE 0)
  <2>1. PICK x \in Nat : x = Count(agenda, AnswersTo(r))
    BY <1>2, UnderWayFacts
  <2>2. PICK y \in Nat : y = Count(completed, {r})
    BY <1>2, UnderWayFacts
  <2>3. PICK z \in {0, 1} : z = (IF r \in (done \cap Reads) \ Silent THEN 1 ELSE 0)
    OBVIOUS
  <2>4. Count(cs, {r}) = y + z
    BY <1>4, <2>2, <2>3
  <2>5. Count(a, AnswersTo(r)) = x + (y + z)
    BY <1>9, <1>12, <2>1, <2>4
  <2>6. x + (y + z) = x + y + z
    OBVIOUS
  <2> QED
    BY <2>1, <2>2, <2>3, <2>5, <2>6
<1>15. Later(until, jump) \in Nat \cup {-1, None}
  BY <1>7, <1>8, LaterFacts
<1> QED
  BY <1>3, <1>6, <1>8, <1>12, <1>13, <1>14, <1>15
     DEF a, b, cs, rest, h, jump, until

LEMMA TickFacts ==
    ASSUME DramInv, NEW n \in 1 .. BurstCap, NEW done \in SUBSET inFlight,
           NEW own \in 0 .. MaxRefreshes, Tick(n, done, own), UNCHANGED idleRefresh
    PROVE  Counted' /\ InPhase
<1> DEFINE h == Head(agenda).due
           jump == JumpOver(n)
           a == Delivered(Elapsed(AfterHead(agenda), jump),
                          completed \o Completions(done \cap Reads))
           busy == Pending(inFlight \ done, own) > 0
           startIdle == ~busy /\ idleRefresh /\ ~idleTicking
<1>1. /\ agenda # <<>>
      /\ inFlight' = inFlight \ done
      /\ refreshes' = own
      /\ horizon' = Later(Later(horizon, h), jump)
      /\ behind' = behind + h + jump - n * Period
      /\ completed' = <<>>
      /\ ticking' = busy
      /\ idleTicking' = (idleTicking \/ startIdle)
      /\ idleBatch' = IF startIdle THEN RestartedBatch(idleBatch) ELSE idleBatch
      /\ agenda' = IF busy THEN Inserted(a, TickEvent)
                   ELSE IF startIdle THEN Inserted(a, IdleEvent(IdleBatch, NewId))
                   ELSE a
      /\ owed' = owed
  BY DEF Tick, Fires
<1>2. Typed /\ Sane(agenda) /\ OneEach /\ Timely /\ Accounted
  BY DEF DramInv, Counted
<1>3. /\ Sane(a) /\ jump \in Nat
      /\ ticking = TRUE /\ idleTicking = FALSE
      /\ Count(a, Ticks) = 0 /\ Count(a, Idles) = 0
      /\ \A r : Count(a, AnswersTo(r))
                   = Count(agenda, AnswersTo(r)) + Count(completed, {r})
                       + (IF r \in (done \cap Reads) \ Silent THEN 1 ELSE 0)
      /\ \A d \in Dues(a, Event) : d >= 0
      /\ \A d \in Dues(a, Answers) : d = 0
      /\ behind + h >= Period
      /\ jump = (n - 1) * Period
      /\ Later(Later(horizon, h), jump) \in Nat \cup {-1, None}
  BY BurstAgenda
<1>4. /\ IsFiniteSet(inFlight \ done)
      /\ Cardinality(inFlight \ done) \in Nat
      /\ Cardinality(inFlight \ done) <= Queue
      /\ Cardinality(inFlight \ done) = 0 <=> inFlight \ done = {}
  BY <1>2, ServicedFacts
<1>5. Head(agenda).due \in Nat /\ behind \in Int
  BY <1>1, <1>2, HeadFires DEF Typed
<1>6. ~busy => inFlight \ done = {}
  <2>1. own \in Nat
    BY Constants
  <2> QED
    BY <1>4, <2>1 DEF Pending
<1>7. busy \in BOOLEAN /\ startIdle \in BOOLEAN
  OBVIOUS
<1> HIDE DEF a, jump, busy
<1>8. behind' \in Nat
  <2>1. PICK x \in Int : x = n * Period
    BY Constants
  <2>2. jump = x - Period
    <3>1. (n - 1) * Period = n * Period - Period
      BY Constants
    <3> QED
      BY <1>3, <2>1, <3>1
  <2>3. PICK y \in Nat : y = h
    BY <1>5
  <2>4. behind + y >= Period
    BY <1>3, <2>3
  <2>5. behind + y + (x - Period) - x \in Nat
    BY <1>5, <2>4, Constants
  <2> QED
    BY <1>1, <2>1, <2>2, <2>3, <2>5
<1> HIDE DEF h
<1>9. /\ idleTicking' = startIdle /\ idleBatch' \in IdleBatch .. MaxIdleBatch
      /\ startIdle => idleBatch' = IdleBatch
  BY <1>1, <1>2, <1>3, Constants DEF Typed, RestartedBatch
<1>10. /\ Sane(agenda')
       /\ Count(agenda', Ticks) = (IF busy THEN 1 ELSE 0)
       /\ Count(agenda', Idles) = (IF startIdle THEN 1 ELSE 0)
       /\ \A r : Count(agenda', AnswersTo(r)) = Count(a, AnswersTo(r))
       /\ \A W : \A d \in Dues(agenda', W) :
             \/ d \in Dues(a, W)
             \/ busy /\ W # Answers /\ d = Period
             \/ startIdle /\ W # Answers /\ d = IdleBatch * Period
  <2>1. ASSUME NEW e \in Event, e \notin Answers, agenda' = Inserted(a, e)
        PROVE  /\ Sane(agenda')
               /\ \A W : Count(agenda', W) = Count(a, W) + (IF e \in W THEN 1 ELSE 0)
               /\ \A r : Count(agenda', AnswersTo(r)) = Count(a, AnswersTo(r))
               /\ \A W : \A d \in Dues(agenda', W) :
                     d \in Dues(a, W) \/ (W # Answers /\ d = e.due)
    <3>1. /\ Sane(agenda')
          /\ \A W : Count(agenda', W) = Count(a, W) + (IF e \in W THEN 1 ELSE 0)
          /\ \A W : \A d \in Dues(agenda', W) : d \in Dues(a, W) \/ (e \in W /\ d = e.due)
      BY <1>3, <2>1, ScheduleFacts
    <3>2. ASSUME NEW r PROVE Count(agenda', AnswersTo(r)) = Count(a, AnswersTo(r))
      <4>1. e \notin AnswersTo(r)
        BY <2>1 DEF AnswersTo
      <4>2. /\ Count(agenda', AnswersTo(r)) = Count(a, AnswersTo(r)) + 0
            /\ Count(a, AnswersTo(r)) \in Nat
        BY <1>3, <3>1, <4>1, DuesFacts
      <4> QED
        BY <4>2
    <3> QED
      BY <2>1, <3>1, <3>2
  <2>2. CASE busy
    <3>1. PICK e \in Event : /\ e = TickEvent /\ e \notin Answers /\ e.due = Period
                             /\ e \in Ticks /\ e \notin Idles
      BY NewEvents
    <3>2. agenda' = Inserted(a, e)
      BY <1>1, <2>2, <3>1
    <3>3. /\ Sane(agenda')
          /\ \A W : Count(agenda', W) = Count(a, W) + (IF e \in W THEN 1 ELSE 0)
          /\ \A r : Count(agenda', AnswersTo(r)) = Count(a, AnswersTo(r))
          /\ \A W : \A d \in Dues(agenda', W) :
                d \in Dues(a, W) \/ (W # Answers /\ d = e.due)
      BY <2>1, <3>1, <3>2
    <3>4. Count(agenda', Ticks) = 1 /\ Count(agenda', Idles) = 0
      BY <1>3, <3>1, <3>3
    <3> QED
      BY <2>2, <3>1, <3>3, <3>4
  <2>3. CASE startIdle
    <3>1. PICK e \in Event : /\ e = IdleEvent(IdleBatch, NewId) /\ e \notin Answers
                             /\ e.due = IdleBatch * Period
                             /\ e \notin Ticks /\ e \in Idles
      BY NewEvents, NewIdFacts, Constants
    <3>2. agenda' = Inserted(a, e)
      BY <1>1, <2>3, <3>1
    <3>3. /\ Sane(agenda')
          /\ \A W : Count(agenda', W) = Count(a, W) + (IF e \in W THEN 1 ELSE 0)
          /\ \A r : Count(agenda', AnswersTo(r)) = Count(a, AnswersTo(r))
          /\ \A W : \A d \in Dues(agenda', W) :
                d \in Dues(a, W) \/ (W # Answers /\ d = e.due)
      BY <2>1, <3>1, <3>2
    <3>4. Count(agenda', Ticks) = 0 /\ Count(agenda', Idles) = 1
      BY <1>3, <3>1, <3>3
    <3> QED
      BY <2>3, <3>1, <3>3, <3>4
  <2>4. CASE ~busy /\ ~startIdle
    <3>1. agenda' = a
      BY <1>1, <2>4
    <3> QED
      BY <1>3, <2>4, <3>1
  <2> QED
    BY <2>2, <2>3, <2>4
<1>11. OneEach'
  <2>1. ~(busy /\ startIdle) /\ (idleRefresh => busy \/ startIdle)
    BY <1>3
  <2> HIDE DEF startIdle
  <2> QED
    BY <1>1, <1>9, <1>10, <2>1 DEF OneEach
<1> HIDE DEF startIdle
<1>12. Timely'
  <2>1. IdleBatch * Period \in Nat
    BY Constants
  <2>2. ASSUME NEW d \in Dues(agenda', Event) PROVE d >= 0
    BY <1>3, <1>10, <2>1, Constants
  <2>3. ASSUME NEW d \in Dues(agenda', Answers) PROVE d = 0
    BY <1>3, <1>10
  <2>4. Dues(a, Ticks) = {} /\ Dues(a, Idles) = {}
    BY <1>3, DuesFacts
  <2>5. ASSUME NEW d \in Dues(agenda', Ticks) PROVE behind' + d >= Period
    <3>1. d = Period
      <4>1. Count(agenda', Ticks) # 0
        BY <1>10, <2>5, DuesFacts
      <4>2. busy /\ ~startIdle
        <5>1. busy
          BY <1>10, <4>1
        <5> QED
          BY <5>1 DEF startIdle
      <4> QED
        BY <1>10, <2>4, <2>5, <4>2
    <3>2. \A x \in Nat : x + Period >= Period
      BY Constants
    <3> QED
      BY <1>8, <3>1, <3>2
  <2>6. ASSUME NEW d \in Dues(agenda', Idles) PROVE behind' + d >= idleBatch' * Period
    <3>1. Count(agenda', Idles) # 0
      BY <1>10, <2>6, DuesFacts
    <3>2. startIdle /\ ~busy
      <4>1. startIdle
        BY <1>10, <3>1
      <4> QED
        BY <4>1 DEF startIdle
    <3>3. d = IdleBatch * Period /\ idleBatch' = IdleBatch
      BY <1>9, <1>10, <2>4, <2>6, <3>2
    <3>4. \A x, y \in Nat : x + y >= y
      OBVIOUS
    <3>5. behind' + IdleBatch * Period >= IdleBatch * Period
      BY <1>8, <2>1, <3>4
    <3> QED
      BY <3>3, <3>5
  <2> QED
    BY <1>8, <2>2, <2>3, <2>5, <2>6 DEF Timely
<1>13. Accounted'
  <2>1. owed' \cap Silent = {}
    BY <1>1, <1>2 DEF Accounted
  <2>2. ASSUME NEW r \in Requests
        PROVE  \/ UnderWay(r)' = (IF r \in owed' THEN 1 ELSE 0)
               \/ BadBatches /\ r \in Writes /\ UnderWay(r)' = 0
    <3>1. PICK x \in Nat : x = Count(agenda, AnswersTo(r))
      BY <1>2, UnderWayFacts
    <3>2. PICK y \in Nat : y = Count(completed, {r})
      BY <1>2, UnderWayFacts
    <3>3. PICK z \in {0, 1} : z = (IF r \in (done \cap Reads) \ Silent THEN 1 ELSE 0)
      OBVIOUS
    <3>4. PICK w \in {0, 1} : w = (IF r \in (inFlight \cap Reads) \ Silent THEN 1 ELSE 0)
      OBVIOUS
    <3>5. w - z = (IF r \in (inFlight' \cap Reads) \ Silent THEN 1 ELSE 0)
      BY <1>1, <3>3, <3>4
    <3>6. Count(completed', {r}) = 0
      BY <1>1, EmptyFacts
    <3>7. Count(agenda', AnswersTo(r)) = x + y + z
      BY <1>3, <1>10, <3>1, <3>2, <3>3
    <3>8. UnderWay(r)' = (x + y + z) + 0 + (w - z) /\ UnderWay(r) = x + y + w
      BY <3>1, <3>2, <3>4, <3>5, <3>6, <3>7 DEF UnderWay
    <3>9. UnderWay(r)' = UnderWay(r)
      BY <3>8
    <3> QED
      BY <1>1, <1>2, <3>9 DEF Accounted
  <2> QED
    BY <2>1, <2>2 DEF Accounted
<1>14. Typed'
  <2>1. <<>> \in Seq(Requests)
    OBVIOUS
  <2>2. ticking' \in BOOLEAN /\ idleTicking' \in BOOLEAN
    BY <1>1, <1>9 DEF startIdle, busy
  <2>3. inFlight' \subseteq Requests /\ owed' \subseteq Requests
    BY <1>1, <1>2 DEF Typed
  <2>4. IsFiniteSet(inFlight') /\ Cardinality(inFlight') <= Queue
    BY <1>1, <1>4
  <2>5. horizon' \in Nat \cup {-1, None}
    BY <1>1, <1>3
  <2>6. behind' \in Int /\ refreshes' \in 0 .. MaxRefreshes /\ idleRefresh' \in IdleModes
    BY <1>1, <1>2, <1>8 DEF Typed
  <2> QED
    BY <1>1, <1>9, <2>1, <2>2, <2>3, <2>4, <2>5, <2>6 DEF Typed
<1>15. Driven'
  BY <1>1, <1>6 DEF Driven
<1>16. InPhase
  <2>1. Dues(agenda, Idles) = {}
    BY <1>2, <1>3, DuesFacts DEF OneEach
  <2>2. ASSUME NEW d \in Dues(agenda, Ticks), NEW f \in Dues(agenda', Ticks)
        PROVE  behind' + f = behind + d
    <3>1. d = Head(agenda).due
      <4>1. Head(agenda).run = "tick"
        BY DEF Tick, Fires
      <4>2. Head(agenda).due \in Dues(agenda, Ticks)
        BY <1>1, <1>2, <4>1, HeadFires, FireFacts
      <4> QED
        BY <1>2, <2>2, <4>2, OneDue
    <3>2. f = Period
      <4>1. Count(agenda', Ticks) # 0
        BY <1>10, <2>2, DuesFacts
      <4>2. busy
        BY <1>10, <4>1
      <4>3. ~startIdle
        BY <4>2 DEF startIdle
      <4>4. Dues(a, Ticks) = {}
        BY <1>3, DuesFacts
      <4> QED
        BY <1>10, <2>2, <4>3, <4>4
    <3>3. behind' = behind + d - Period
      <4>1. PICK x \in Int : x = n * Period
        BY Constants
      <4>2. jump = x - Period
        <5>1. (n - 1) * Period = n * Period - Period
          BY Constants
        <5> QED
          BY <1>3, <4>1, <5>1
      <4>3. PICK y \in Nat : y = d
        BY <1>5, <3>1
      <4>4. behind + y + (x - Period) - x = behind + y - Period
        BY <1>5, Constants
      <4> QED
        BY <1>1, <3>1, <4>1, <4>2, <4>3, <4>4 DEF h
    <3>4. d \in Int
      BY <1>5, <3>1
    <3> QED
      BY <1>5, <3>2, <3>3, <3>4, Constants
  <2> QED
    BY <2>1, <2>2 DEF InPhase
<1> QED
  BY <1>10, <1>11, <1>12, <1>13, <1>14, <1>15, <1>16 DEF Counted

-----------------------------------------------------------------------------
(* Every step keeps the invariant and the phase.                           *)

LEMMA CountedFacts == ASSUME DramInv, [Next]_vars PROVE Counted' /\ InPhase
<1>1. CASE Next
  <2>1. CASE ClientCall
    <3>1. UNCHANGED idleRefresh
      BY <2>1 DEF ClientCall
    <3>2. CASE \E rs \in SUBSET Reads : SendReads(rs)
      BY <3>1, <3>2, SendReadsFacts
    <3>3. CASE \E rs \in SUBSET Writes : SendWrites(rs)
      BY <3>1, <3>3, SendWritesFacts
    <3>4. CASE \E rs \in SUBSET Requests : SendFailing(rs)
      BY <3>1, <3>4, SendFailingFacts
    <3>5. CASE \E delay \in Delays : ScheduleClient(delay)
      BY <3>1, <3>5, ScheduleClientFacts
    <3>6. CASE \E delay \in Delays \cup {None} : SetHorizon(delay)
      BY <3>1, <3>6, SetHorizonFacts
    <3> QED
      BY <2>1, <3>2, <3>3, <3>4, <3>5, <3>6 DEF ClientCall
  <2>2. CASE \E done \in SUBSET inFlight : TickServing(done)
    <3>1. PICK done \in SUBSET inFlight, n \in 1 .. BurstCap, own \in 0 .. MaxRefreshes :
              Tick(n, done, own) /\ UNCHANGED idleRefresh
      BY <2>2 DEF TickServing
    <3> QED
      BY <3>1, TickFacts
  <2>3. CASE /\ \E done \in SUBSET inFlight, own \in 0 .. MaxRefreshes :
                   IdleTick(done, own)
             /\ UNCHANGED idleRefresh
    BY <2>3, IdleTickFacts
  <2>4. CASE Done /\ UNCHANGED idleRefresh
    BY <2>4, OtherFiresFacts DEF Done
  <2>5. CASE Client /\ UNCHANGED idleRefresh
    BY <2>5, OtherFiresFacts DEF Client
  <2> QED
    BY <1>1, <2>1, <2>2, <2>3, <2>4, <2>5 DEF Next, EventFires
<1>2. CASE UNCHANGED vars
  <2>1. /\ UNCHANGED <<agenda, behind, idleBatch, completed, owed, inFlight, ticking>>
        /\ UNCHANGED <<idleRefresh, horizon, refreshes, idleTicking>>
    BY <1>2 DEF vars
  <2>2. Typed' /\ Sane(agenda') /\ OneEach' /\ Timely' /\ Driven'
    BY <2>1 DEF DramInv, Counted, Typed, OneEach, Timely, Driven
  <2>3. Accounted'
    BY <2>1 DEF DramInv, Counted, Accounted, UnderWay
  <2>4. InPhase
    BY <2>1, OneDue DEF InPhase, DramInv, Counted
  <2> QED
    BY <2>2, <2>3, <2>4 DEF Counted
<1> QED
  BY <1>1, <1>2

\* A smaller kind is due no later than the larger one.
LEMMA DuesWithin ==
    ASSUME NEW a, NEW V, NEW W, V \subseteq W
    PROVE  Dues(a, V) \subseteq Dues(a, W)
  BY DEF Dues

\* The idle event that is scheduled keeps the name that is stored.
LEMMA NamedFacts == ASSUME DramInv, [Next]_vars PROVE Named'
<1>1. /\ Typed /\ Sane(agenda) /\ OneEach /\ Named
      /\ idleEventId \in {0, 1, None} /\ Dues(agenda, Strays) = {}
      /\ Strays \cap Answers = {} /\ TickEvent \notin Strays
      /\ Strays \subseteq Idles
  BY EventFacts, NewEvents DEF DramInv, Counted, Named, Strays, Idles
<1>2. ASSUME idleEventId' = idleEventId, Dues(agenda', Strays) = {}
      PROVE  Named'
  <2>1. Strays' = Strays
    BY <1>2 DEF Strays, Idles, Event, Timed, Idling, Answers
  <2> QED
    BY <1>1, <1>2, <2>1 DEF Named
<1>3. ASSUME NEW rest, Sane(rest), Count(rest, Idles) = 0, NEW c \in Nat,
             agenda' = Inserted(rest, IdleEvent(c, NewId)), idleEventId' = NewId
      PROVE  Named'
  <2>1. /\ IdleEvent(c, NewId) \in Event /\ IdleEvent(c, NewId).id = NewId
        /\ NewId \in {0, 1}
    BY NewIdFacts, NewEvents
  <2>2. Strays' \subseteq Idles /\ IdleEvent(c, NewId) \notin Strays'
    BY <1>3, <2>1 DEF Strays, Idles, Event, Timed, Idling, Answers
  <2>3. Dues(rest, Strays') = {}
    BY <1>3, <2>2, DuesFacts, DuesWithin
  <2>4. Dues(agenda', Strays') = {}
    BY <1>3, <2>1, <2>2, <2>3, ScheduleFacts
  <2> QED
    BY <1>3, <2>1, <2>4 DEF Named
<1>4. ASSUME agenda # <<>>
      PROVE  Sane(AfterHead(agenda)) /\ Dues(AfterHead(agenda), Strays) = {}
  BY <1>1, <1>4, FireFacts, Kinds
<1>5. CASE ClientCall
  <2>1. CASE \E rs \in SUBSET Reads : SendReads(rs)
    <3>1. agenda' = TickingStarted(agenda, idleTicking) /\ idleEventId' = idleEventId
      BY <2>1 DEF SendReads
    <3>2. \A d \in Dues(agenda', Strays) :
             d \in Dues(agenda, Strays) \/ TickEvent \in Strays
      BY <1>1, <3>1, StartFacts DEF OneEach, Typed
    <3> QED
      BY <1>1, <1>2, <3>1, <3>2
  <2>2. CASE \E rs \in SUBSET Writes : SendWrites(rs)
    <3>1. PICK rs \in SUBSET Writes : SendWrites(rs)
      BY <2>2
    <3> DEFINE cs == completed \o Completions(rs)
               a == Delivered(agenda, cs)
    <3>2. agenda' = TickingStarted(a, idleTicking) /\ idleEventId' = idleEventId
      BY <3>1 DEF SendWrites
    <3>3. cs \in Seq(Requests)
      <4>1. rs \in SUBSET Requests /\ IsFiniteSet(rs)
        BY <3>1, Constants DEF SendWrites, Acceptable
      <4> QED
        BY <1>1, <4>1, CompletionsFacts, ConcatFacts DEF Typed
    <3> HIDE DEF cs
    <3>4. /\ Sane(a) /\ Count(a, Ticks) = Count(agenda, Ticks)
          /\ Count(a, Idles) = Count(agenda, Idles)
          /\ \A d \in Dues(a, Strays) :
                d \in Dues(agenda, Strays) \/ Strays \cap Answers # {}
      BY <1>1, <3>3, DeliverFacts
    <3> HIDE DEF a
    <3>5. Dues(a, Strays) = {}
      BY <1>1, <3>4
    <3>6. \A d \in Dues(agenda', Strays) :
             d \in Dues(a, Strays) \/ TickEvent \in Strays
      BY <1>1, <3>2, <3>4, <3>5, StartFacts DEF OneEach, Typed
    <3> QED
      BY <1>1, <1>2, <3>2, <3>5, <3>6
  <2>3. CASE \/ \E rs \in SUBSET Requests : SendFailing(rs)
             \/ \E delay \in Delays \cup {None} : SetHorizon(delay)
    <3>1. agenda' = agenda /\ idleEventId' = idleEventId
      BY <2>3 DEF SendFailing, SetHorizon
    <3> QED
      BY <1>1, <1>2, <3>1
  <2>4. CASE \E delay \in Delays : ScheduleClient(delay)
    <3>1. PICK delay \in Nat : /\ agenda' = Inserted(agenda, ClientEvent(delay))
                               /\ idleEventId' = idleEventId
      BY <2>4, Constants DEF ScheduleClient
    <3>2. ClientEvent(delay) \in Event /\ ClientEvent(delay) \notin Strays
      BY <1>1, <3>1, NewEvents
    <3>3. Dues(agenda', Strays) = {}
      BY <1>1, <3>1, <3>2, ScheduleFacts
    <3> QED
      BY <1>2, <3>1, <3>3
  <2> QED
    BY <1>5, <2>1, <2>2, <2>3, <2>4 DEF ClientCall
<1>6. ASSUME NEW done \in SUBSET inFlight, NEW n \in 1 .. BurstCap,
             NEW own \in 0 .. MaxRefreshes, Tick(n, done, own)
      PROVE  Named'
  <2> DEFINE b == Elapsed(AfterHead(agenda), JumpOver(n))
             cs == completed \o Completions(done \cap Reads)
             a == Delivered(b, cs)
             startIdle == idleEventId' = NewId /\ agenda' = Inserted(a, IdleEvent(IdleBatch, NewId))
  <2>1. /\ agenda # <<>>
        /\ \/ startIdle
           \/ /\ idleEventId' = idleEventId
              /\ agenda' = a \/ agenda' = Inserted(a, TickEvent)
    BY <1>6 DEF Tick, Fires
  <2>2. Sane(a) /\ Count(a, Idles) = 0
    BY <1>6, BurstAgenda
  <2> HIDE DEF a
  <2>3. Dues(a, Strays) = {}
    <3>1. Dues(a, Idles) = {}
      BY <2>2, DuesFacts
    <3> QED
      BY <1>1, <3>1, DuesWithin
  <2>4. IdleBatch \in Nat
    BY Constants
  <2>5. CASE startIdle
    BY <1>3, <2>2, <2>4, <2>5
  <2>6. CASE idleEventId' = idleEventId /\ agenda' = a
    BY <1>2, <2>3, <2>6
  <2>7. CASE idleEventId' = idleEventId /\ agenda' = Inserted(a, TickEvent)
    <3>1. Dues(agenda', Strays) = {}
      BY <1>1, <2>2, <2>3, <2>7, NewEvents, ScheduleFacts
    <3> QED
      BY <1>2, <2>7, <3>1
  <2> QED
    BY <2>1, <2>5, <2>6, <2>7
<1>7. ASSUME NEW done \in SUBSET inFlight, NEW own \in 0 .. MaxRefreshes,
             IdleTick(done, own)
      PROVE  Named'
  <2> DEFINE rest == AfterHead(agenda)
  <2>1. /\ agenda # <<>> /\ Head(agenda).run = "idle"
        /\ \/ agenda' = TickingStarted(rest, FALSE) /\ idleEventId' = idleEventId
           \/ /\ idleBatch' = Least(idleBatch * 2, MaxIdleBatch)
              /\ agenda' = Inserted(rest, IdleEvent(idleBatch', NewId))
              /\ idleEventId' = NewId
    BY <1>7 DEF IdleTick, Fires, Stored
  <2>2. Sane(rest) /\ Dues(rest, Strays) = {}
    BY <1>4, <2>1
  <2>3. Count(rest, Idles) = Count(agenda, Idles) - 1 /\ Count(rest, Idles) \in Nat
    BY <2>1, <2>2, HeadFires, Kinds, DuesFacts
  <2>4. idleTicking /\ Count(rest, Idles) = 0
    BY <1>1, <2>3 DEF OneEach
  <2> HIDE DEF rest
  <2>5. CASE agenda' = TickingStarted(rest, FALSE) /\ idleEventId' = idleEventId
    <3>1. agenda' = rest \/ agenda' = Inserted(rest, TickEvent)
      BY <2>5 DEF TickingStarted
    <3>2. Dues(agenda', Strays) = {}
      BY <1>1, <2>2, <3>1, NewEvents, ScheduleFacts
    <3> QED
      BY <1>2, <2>5, <3>2
  <2>6. CASE /\ idleBatch' = Least(idleBatch * 2, MaxIdleBatch)
             /\ agenda' = Inserted(rest, IdleEvent(idleBatch', NewId))
             /\ idleEventId' = NewId
    <3>1. idleBatch' \in Nat
      BY <1>1, <2>6, Constants DEF Typed, Least
    <3> QED
      BY <1>3, <2>2, <2>4, <2>6, <3>1
  <2> QED
    BY <2>1, <2>5, <2>6
<1>8. CASE Done \/ Client
  <2>1. agenda # <<>> /\ agenda' = AfterHead(agenda) /\ idleEventId' = idleEventId
    BY <1>8 DEF Done, Client, OtherFires, Fires
  <2> QED
    BY <1>2, <1>4, <2>1
<1>9. CASE UNCHANGED vars
  BY <1>1, <1>2, <1>9 DEF vars
<1> QED
  BY <1>5, <1>6, <1>7, <1>8, <1>9 DEF Next, EventFires, TickServing

LEMMA StepFacts == ASSUME DramInv, [Next]_vars PROVE DramInv' /\ InPhase
  BY CountedFacts, NamedFacts DEF DramInv

LEMMA Invariant == Spec => []DramInv
<1>1. DramInv /\ [Next]_vars => DramInv'
  BY StepFacts
<1> QED
  BY <1>1, InitFacts, PTL DEF Spec

-----------------------------------------------------------------------------
(* The theorems.                                                           *)

\* The state has its types: whoever calls what and when, no event is in the
\* past, the engine's queue is never overrun and the idle batch stays within
\* its backoff.
THEOREM TypeCorrect == Spec => []TypeOK
<1>1. ASSUME DramInv PROVE TypeOK
  <2>1. Typed /\ Sane(agenda) /\ Timely
    BY <1>1 DEF DramInv, Counted
  <2>2. ASSUME NEW k \in DOMAIN agenda PROVE EventOK(agenda[k])
    <3>1. agenda[k] \in Event /\ agenda[k].due \in Int
      BY <2>1, SaneFacts
    <3>2. agenda[k].due \in Dues(agenda, Event)
      BY <2>1, <3>1, SaneFacts, DuesFacts
    <3>3. agenda[k].due >= 0
      BY <2>1, <3>2 DEF Timely
    <3> QED
      BY <3>1, <3>3, EventFacts DEF EventOK
  <2> QED
    BY <1>1, <2>1, <2>2 DEF TypeOK, Typed, DramInv, Named
<1> QED
  BY <1>1, Invariant, PTL

\* The engine has never run more cycles than time has passed: over every
\* sequence of bursts, jumps, idle batches and handovers.
THEOREM NotAhead == Spec => []NeverAhead
<1>1. DramInv => NeverAhead
  BY DEF DramInv, Counted, Timely, NeverAhead
<1> QED
  BY <1>1, Invariant, PTL

\* The events of a kind, as the properties count them.
LEMMA CountedEvents ==
    ASSUME Sane(agenda)
    PROVE  /\ Cardinality(Scheduled("tick")) = Count(agenda, Ticks)
           /\ Cardinality(Scheduled("idle")) = Count(agenda, Idles)
<1>1. \A k \in DOMAIN agenda : agenda[k] \in Event
  BY SaneFacts
<1>2. Scheduled("tick") = {k \in DOMAIN agenda : agenda[k] \in Ticks}
  BY <1>1 DEF Scheduled, Ticks
<1>3. Scheduled("idle") = {k \in DOMAIN agenda : agenda[k] \in Idles}
  BY <1>1 DEF Scheduled, Idles
<1> QED
  BY <1>2, <1>3 DEF Count

\* Each flag says whether its one event is scheduled and never both clocks
\* run, through every handover; unless a batch fails half way, what is pending
\* is ticked.
THEOREM ClocksExclusive ==
    ASSUME ~BadBatches
    PROVE  Spec => []OneClock
<1>1. ASSUME DramInv PROVE OneClock
  BY <1>1, CountedEvents DEF DramInv, Counted, OneEach, Driven, OneClock
<1> QED
  BY <1>1, Invariant, PTL

\* The most cycles a burst may have are a number.
LEMMA BurstNumber ==
    ASSUME NEW a, Sane(a), NEW until \in Nat \cup {-1, None}
    PROVE  MaxTickBurst(a, until) \in Int
<1> DEFINE byEvent == IF a = <<>> THEN BurstCap
                      ELSE IF Head(a).due <= 0 THEN 1
                      ELSE Least(BurstCap, (Head(a).due - 1) \div Period + 1)
<1>1. byEvent \in Int
  <2>1. CASE a = <<>>
    BY <2>1, Constants
  <2>2. CASE a # <<>>
    <3>1. Head(a).due \in Int
      BY <2>2, FireFacts
    <3>2. (Head(a).due - 1) \div Period \in Int
      BY <3>1, Constants
    <3> QED
      BY <2>2, <3>1, <3>2, Constants DEF Least
  <2> QED
    BY <2>1, <2>2
<1>2. MaxTickBurst(a, until) = IF until = None THEN byEvent
                               ELSE IF until < 0 THEN 1
                               ELSE Least(byEvent, until \div Period + 1)
  BY DEF MaxTickBurst
<1> HIDE DEF byEvent
<1>3. CASE until = None
  BY <1>1, <1>2, <1>3
<1>4. CASE until # None
  <2>1. until \in Int /\ until \div Period \in Int
    BY <1>4, Constants
  <2> QED
    BY <1>1, <1>2, <1>4, <2>1 DEF Least
<1> QED
  BY <1>3, <1>4

\* No jump at the end of a burst skips an event or passes the horizon of
\* run(), and no burst reaches the time of an event, for every period, cap,
\* horizon and agenda.
THEOREM BurstsCorrect == Spec => []BurstsFit
<1>1. ASSUME DramInv PROVE BurstsFit
  <2> SUFFICES ASSUME Fires("tick")
               PROVE  LET rest == AfterHead(agenda)
                          until == Later(horizon, Head(agenda).due)
                          n == MaxTickBurst(rest, until)
                          Jumps == {JumpOver(m) : m \in 2 .. n}
                      IN /\ \A jump \in Jumps : /\ MayElapse(rest, jump)
                                               /\ until # None => jump <= until
                         /\ \A k \in DOMAIN rest : n > 1 => rest[k].due > (n - 1) * Period
    BY DEF BurstsFit
  <2> DEFINE rest == AfterHead(agenda)
             until == Later(horizon, Head(agenda).due)
             n == MaxTickBurst(rest, until)
  <2>1. agenda # <<>>
    BY DEF Fires
  <2>2. Sane(rest) /\ Head(agenda).due \in Nat
    BY <1>1, <2>1, HeadFires
  <2>3. until \in Nat \cup {-1, None}
    BY <1>1, <2>2, LaterFacts DEF DramInv, Counted, Typed
  <2> HIDE DEF rest, until
  <2>4. n \in Int
    BY <2>2, <2>3, BurstNumber
  <2>5. ASSUME NEW m \in 2 .. n
        PROVE  /\ JumpOver(m) = (m - 1) * Period
               /\ \A k \in DOMAIN rest : rest[k].due > JumpOver(m)
               /\ until # None => JumpOver(m) <= until
               /\ JumpOver(m) \in Nat
    <3>1. m \in Nat /\ m >= 2 /\ m <= n
      BY <2>4
    <3>2. /\ JumpOver(m) \in Nat /\ JumpOver(m) = (m - 1) * Period
          /\ \A d \in Dues(rest, Event) : d > JumpOver(m)
          /\ until # None => JumpOver(m) <= until
      BY <2>2, <2>3, <3>1, BurstFacts
    <3>3. \A k \in DOMAIN rest : rest[k].due \in Dues(rest, Event)
      BY <2>2, SaneFacts, DuesFacts
    <3> QED
      BY <3>2, <3>3
  <2>6. ASSUME NEW m \in 2 .. n PROVE MayElapse(rest, JumpOver(m))
    <3>1. \A k \in DOMAIN rest : rest[k].due \in Int
      BY <2>2, SaneFacts
    <3> QED
      BY <2>5, <3>1 DEF MayElapse
  <2>7. ASSUME NEW k \in DOMAIN rest, n > 1 PROVE rest[k].due > (n - 1) * Period
    <3>1. n \in 2 .. n
      BY <2>4, <2>7
    <3> QED
      BY <2>5, <2>7, <3>1
  <2> QED
    BY <2>5, <2>6, <2>7 DEF rest, until
<1> QED
  BY <1>1, Invariant, PTL

\* Two finite sets without a common element have together as many elements as
\* the one and the other.
LEMMA DisjointCount ==
    ASSUME NEW S, NEW T, IsFiniteSet(S), IsFiniteSet(T), S \cap T = {}
    PROVE  /\ IsFiniteSet(S \cup T)
           /\ Cardinality(S \cup T) = Cardinality(S) + Cardinality(T)
<1>1. /\ IsFiniteSet(S \cup T)
      /\ Cardinality(S \cup T)
             = Cardinality(S) + Cardinality(T) - Cardinality(S \cap T)
  BY FS_Union
<1>2. PICK m \in Nat, n \in Nat : m = Cardinality(S) /\ n = Cardinality(T)
  BY FS_CardinalityType
<1>3. Cardinality(S \cap T) = 0
  BY FS_EmptySet
<1>4. m + n - 0 = m + n
  BY <1>2
<1> QED
  BY <1>1, <1>2, <1>3, <1>4

\* The places a callback can come from, counted one kind after the other.
LEMMA SourcesCounted ==
    ASSUME Typed, Sane(agenda), NEW r
    PROVE  Cardinality(Sources(r))
             = Count(agenda, AnswersTo(r)) + Count(completed, {r})
                 + (IF r \in inFlight \cap Reads THEN 1 ELSE 0)
<1> DEFINE A == {k \in DOMAIN agenda : agenda[k] \in AnswersTo(r)}
           B == {k \in DOMAIN completed : completed[k] \in {r}}
           f == [k \in A |-> <<"event", k>>]
           g == [k \in B |-> <<"completed", k>>]
           F == {f[k] : k \in A}
           G == {g[k] : k \in B}
           C == IF r \in inFlight \cap Reads THEN {<<"engine", 0>>} ELSE {}
<1>1. /\ agenda \in Seq(Event) /\ completed \in Seq(Requests)
      /\ \A k \in DOMAIN agenda : agenda[k] \in Event
  BY SaneFacts DEF Typed
<1>2. {j \in Scheduled("done") : agenda[j].req = r} = A
  BY <1>1, EventFacts DEF Scheduled, AnswersTo
<1>3. IsFiniteSet(A) /\ IsFiniteSet(B)
  BY <1>1, CountFacts
<1>4. Cardinality(A) = Count(agenda, AnswersTo(r)) /\ Cardinality(B) = Count(completed, {r})
  BY DEF Count
<1>5. Sources(r) = (F \cup G) \cup C
  <2>1. F = {<<"event", k>> : k \in A} /\ G = {<<"completed", k>> : k \in B}
    OBVIOUS
  <2>2. B = {j \in DOMAIN completed : completed[j] = r}
    OBVIOUS
  <2> HIDE DEF A, B, F, G
  <2> QED
    BY <1>2, <2>1, <2>2 DEF Sources
<1>6. IsFiniteSet(F) /\ Cardinality(F) = Cardinality(A)
  <2>1. f = [k \in A |-> f[k]] /\ \A j, k \in A : f[j] = f[k] => j = k
    OBVIOUS
  <2> HIDE DEF A, f
  <2> QED
    BY <1>3, <2>1, Renumbered
<1>7. IsFiniteSet(G) /\ Cardinality(G) = Cardinality(B)
  <2>1. g = [k \in B |-> g[k]] /\ \A j, k \in B : g[j] = g[k] => j = k
    OBVIOUS
  <2> HIDE DEF B, g
  <2> QED
    BY <1>3, <2>1, Renumbered
<1>8. IsFiniteSet(C) /\ Cardinality(C) = (IF r \in inFlight \cap Reads THEN 1 ELSE 0)
  BY FS_EmptySet, FS_Singleton
<1>9. /\ \A x \in F : x[1] = "event"
      /\ \A x \in G : x[1] = "completed"
      /\ \A x \in C : x[1] = "engine"
  <2>1. \A x \in F : x[1] = "event"
    <3> SUFFICES ASSUME NEW x \in F PROVE x[1] = "event"
      OBVIOUS
    <3>1. PICK k \in A : x = <<"event", k>>
      OBVIOUS
    <3> HIDE DEF A, F
    <3> QED
      BY <3>1
  <2>2. \A x \in G : x[1] = "completed"
    <3> SUFFICES ASSUME NEW x \in G PROVE x[1] = "completed"
      OBVIOUS
    <3>1. PICK k \in B : x = <<"completed", k>>
      OBVIOUS
    <3> HIDE DEF B, G
    <3> QED
      BY <3>1
  <2>3. \A x \in C : x[1] = "engine"
    <3> SUFFICES ASSUME NEW x \in C PROVE x[1] = "engine"
      OBVIOUS
    <3>1. x = <<"engine", 0>>
      OBVIOUS
    <3> HIDE DEF C
    <3> QED
      BY <3>1
  <2> QED
    BY <2>1, <2>2, <2>3
<1> HIDE DEF A, B, F, G, C
<1>10. F \cap G = {} /\ (F \cup G) \cap C = {}
  BY <1>9
<1>11. IsFiniteSet(F \cup G) /\ Cardinality(F \cup G) = Cardinality(F) + Cardinality(G)
  BY <1>6, <1>7, <1>10, DisjointCount
<1>12. Cardinality((F \cup G) \cup C) = Cardinality(F \cup G) + Cardinality(C)
  BY <1>8, <1>10, <1>11, DisjointCount
<1> QED
  BY <1>4, <1>5, <1>6, <1>7, <1>8, <1>11, <1>12

\* Unless a batch fails half way, each callback that is owed is on its way
\* exactly once, none is that is not owed, and completions are due at the time
\* of the tick that found them.
THEOREM CallbackOnce ==
    ASSUME ~BadBatches
    PROVE  Spec => []CallbackUnderWay
<1>1. ASSUME DramInv PROVE CallbackUnderWay
  <2>1. Typed /\ Sane(agenda) /\ Timely /\ Accounted /\ Driven
    BY <1>1 DEF DramInv, Counted
  <2>2. ASSUME NEW r \in Requests \ Silent
        PROVE  Cardinality(Sources(r)) = (IF r \in owed THEN 1 ELSE 0)
    <3>1. UnderWay(r) = (IF r \in owed THEN 1 ELSE 0)
      BY <2>1 DEF Accounted
    <3>2. Cardinality(Sources(r)) = UnderWay(r)
      BY <2>1, SourcesCounted DEF UnderWay
    <3> QED
      BY <3>1, <3>2
  <2>3. completed = <<>>
    BY <2>1 DEF Driven
  <2>4. ASSUME NEW k \in Scheduled("done") PROVE agenda[k].due = 0
    <3>1. k \in 1 .. Len(agenda) /\ agenda[k] \in Answers
      BY <2>1, SaneFacts, EventFacts DEF Scheduled
    <3>2. agenda[k].due \in Dues(agenda, Answers)
      BY <2>1, <3>1, DuesFacts
    <3> QED
      BY <2>1, <3>2 DEF Timely
  <2> QED
    BY <2>2, <2>3, <2>4 DEF CallbackUnderWay
<1> QED
  BY <1>1, Invariant, PTL

\* While a clock runs the DRAM's cycles keep their phase: whatever bursts,
\* jumps, growing idle batches and other components' events there are, the
\* engine stays as far off the time as it was when the clock was started.
THEOREM PhaseKept == Spec => ClocksKeepPhase
<1> DEFINE TickInPhase ==
               Scheduled("tick") # {} /\ Scheduled("tick")' # {}
                  => LagAfter("tick", 1)' = LagAfter("tick", 1)
           IdleInPhase ==
               /\ Scheduled("idle") # {} /\ Scheduled("idle")' # {}
               /\ behind' < MaxBehind
               => LagAfter("idle", idleBatch)' = LagAfter("idle", idleBatch)
<1>1. ASSUME DramInv, [Next]_vars PROVE TickInPhase /\ IdleInPhase
  <2>1. DramInv' /\ InPhase
    BY <1>1, StepFacts
  <2>2. Sane(agenda) /\ Typed /\ Sane(agenda') /\ Typed'
    BY <1>1, <2>1 DEF DramInv, Counted
  <2>3. TickInPhase
    <3> SUFFICES ASSUME Scheduled("tick") # {}, Scheduled("tick")' # {}
                 PROVE  LagAfter("tick", 1)' = LagAfter("tick", 1)
      OBVIOUS
    <3>1. PICK d : /\ d \in Dues(agenda, Ticks)
                   /\ LagAfter("tick", 1) = behind + (d - 1 * Period)
      <4>1. PICK k \in Scheduled("tick") : k = CHOOSE j \in Scheduled("tick") : TRUE
        OBVIOUS
      <4>2. k \in 1 .. Len(agenda) /\ agenda[k] \in Ticks
        BY <2>2, <4>1, SaneFacts DEF Scheduled, Ticks
      <4> QED
        BY <2>2, <4>1, <4>2, DuesFacts DEF LagAfter
    <3>2. PICK f : /\ f \in Dues(agenda', Ticks)
                   /\ LagAfter("tick", 1)' = behind' + (f - 1 * Period)
      <4>1. PICK k \in Scheduled("tick")' : k = CHOOSE j \in Scheduled("tick")' : TRUE
        OBVIOUS
      <4>2. k \in 1 .. Len(agenda') /\ agenda'[k] \in Ticks
        BY <2>2, <4>1, SaneFacts DEF Scheduled, Ticks
      <4> QED
        BY <2>2, <4>1, <4>2, DuesFacts DEF LagAfter
    <3>3. behind' + f = behind + d
      BY <2>1, <3>1, <3>2 DEF InPhase
    <3>4. d \in Int /\ f \in Int /\ behind \in Int /\ behind' \in Int
      BY <2>2, <3>1, <3>2, DuesFacts DEF Typed
    <3>5. \A b, c \in Int : b + f = c + d => b + (f - 1 * Period) = c + (d - 1 * Period)
      BY <3>4, Constants
    <3> QED
      BY <3>1, <3>2, <3>3, <3>4, <3>5
  <2>4. IdleInPhase
    <3> SUFFICES ASSUME Scheduled("idle") # {}, Scheduled("idle")' # {},
                        behind' < MaxBehind
                 PROVE  LagAfter("idle", idleBatch)' = LagAfter("idle", idleBatch)
      OBVIOUS
    <3>1. PICK d : /\ d \in Dues(agenda, Idles)
                   /\ LagAfter("idle", idleBatch) = behind + (d - idleBatch * Period)
      <4>1. PICK k \in Scheduled("idle") : k = CHOOSE j \in Scheduled("idle") : TRUE
        OBVIOUS
      <4>2. k \in 1 .. Len(agenda) /\ agenda[k] \in Idles
        BY <2>2, <4>1, SaneFacts DEF Scheduled, Idles
      <4> QED
        BY <2>2, <4>1, <4>2, DuesFacts DEF LagAfter
    <3>2. PICK f : /\ f \in Dues(agenda', Idles)
                   /\ LagAfter("idle", idleBatch)' = behind' + (f - idleBatch' * Period)
      <4>1. PICK k \in Scheduled("idle")' : k = CHOOSE j \in Scheduled("idle")' : TRUE
        OBVIOUS
      <4>2. k \in 1 .. Len(agenda') /\ agenda'[k] \in Idles
        BY <2>2, <4>1, SaneFacts DEF Scheduled, Idles
      <4> QED
        BY <2>2, <4>1, <4>2, DuesFacts DEF LagAfter
    <3> QED
      BY <2>1, <3>1, <3>2 DEF InPhase
  <2> QED
    BY <2>3, <2>4
<1>2. DramInv /\ [Next]_vars => [TickInPhase /\ IdleInPhase]_vars
  BY <1>1
<1> QED
  BY <1>2, Invariant, PTL DEF Spec, ClocksKeepPhase

-----------------------------------------------------------------------------
(* The memory port.                                                        *)

\* The cardinality MemoryPort takes from its own copy of FiniteSets.
LEMMA PortCardinality == \A S : Port!Cardinality(S) = Cardinality(S)
  BY DEF Port!Cardinality, Cardinality

\* To its clients the DRAM is the memory port, with batches that fail as well:
\* requests are accepted as far as the queue has room, and the callback of a
\* read runs once and after the read was serviced.
THEOREM Refinement == Spec => ImplementsMemoryPort
<1>1. Init => Port!Init
  BY DEF Init, Port!Init
<1>2. DramInv /\ [Next]_vars => [Port!Next]_(Port!portVars)
  <2> SUFFICES ASSUME DramInv, [Next]_vars
               PROVE  Port!Next \/ UNCHANGED <<inFlight, owed>>
    BY DEF Port!portVars
  <2>1. ASSUME NEW rs \in (SUBSET Reads) \cup (SUBSET Writes), Acceptable(rs),
               inFlight' = inFlight \cup rs, owed' = owed \cup (rs \ Silent)
        PROVE  Port!Next
    <3>1. rs \in SUBSET Requests
      BY Constants
    <3>2. /\ Cardinality(inFlight \cup rs) <= Queue
          /\ rs \cap (inFlight \cup owed) = {}
      BY <2>1, <3>1, SentFacts
    <3>3. Port!Accept(rs)
      BY <2>1, <3>2, PortCardinality DEF Port!Accept
    <3> QED
      BY <3>3 DEF Port!Next
  <2>2. ASSUME NEW done \in SUBSET inFlight, inFlight' = inFlight \ done, owed' = owed
        PROVE  Port!Next
    <3>1. Port!Service(done)
      BY <2>2 DEF Port!Service
    <3> QED
      BY <3>1 DEF Port!Next
  <2>3. CASE ClientCall
    <3>1. CASE \E rs \in SUBSET Reads : SendReads(rs)
      BY <2>1, <3>1 DEF SendReads
    <3>2. CASE \E rs \in SUBSET Writes : SendWrites(rs)
      BY <2>1, <3>2 DEF SendWrites
    <3>3. CASE \E rs \in SUBSET Requests : SendFailing(rs)
      BY <2>1, <3>3 DEF SendFailing
    <3>4. CASE \E delay \in Delays : ScheduleClient(delay)
      BY <3>4 DEF ScheduleClient
    <3>5. CASE \E delay \in Delays \cup {None} : SetHorizon(delay)
      BY <3>5 DEF SetHorizon
    <3> QED
      BY <2>3, <3>1, <3>2, <3>3, <3>4, <3>5 DEF ClientCall
  <2>4. CASE \E done \in SUBSET inFlight : TickServing(done)
    BY <2>2, <2>4 DEF TickServing, Tick
  <2>5. CASE \E done \in SUBSET inFlight, own \in 0 .. MaxRefreshes : IdleTick(done, own)
    BY <2>2, <2>5 DEF IdleTick
  <2>6. CASE Done
    <3> DEFINE e == Head(agenda)
    <3>1. agenda # <<>> /\ e.run = "done" /\ owed' = owed \ {e.req} /\ inFlight' = inFlight
      BY <2>6 DEF Done, OtherFires, Fires
    <3>2. Typed /\ Sane(agenda) /\ Accounted
      BY DEF DramInv, Counted
    <3>3. e \in Answers /\ e.req \in Requests /\ e \in Event
      BY <3>1, HeadFires, EventFacts
    <3>4. PICK r \in Requests : r = e.req /\ e \in AnswersTo(r)
      BY <3>3 DEF AnswersTo
    <3>5. PICK x \in Nat : x = Count(agenda, AnswersTo(r)) /\ x # 0
      <4>1. e.due \in Dues(agenda, AnswersTo(r))
        BY <3>1, <3>2, <3>4, FireFacts
      <4> QED
        BY <3>2, <4>1, DuesFacts
    <3>6. PICK y \in Nat : y = Count(completed, {r})
      BY <3>2, UnderWayFacts
    <3>7. PICK w \in {0, 1} : w = (IF r \in (inFlight \cap Reads) \ Silent THEN 1 ELSE 0)
      OBVIOUS
    <3>8. UnderWay(r) = x + y + w /\ x + y + w # 0
      BY <3>5, <3>6, <3>7 DEF UnderWay
    <3>9. r \in owed /\ x + y + w = 1
      BY <3>2, <3>8 DEF Accounted
    <3>10. w = 0 /\ r \notin Silent
      BY <3>2, <3>5, <3>6, <3>7, <3>9 DEF Accounted
    <3>11. r \in Reads => r \notin inFlight
      BY <3>7, <3>10
    <3>12. Port!Notify(r)
      BY <3>1, <3>4, <3>9, <3>11 DEF Port!Notify
    <3> QED
      BY <3>9, <3>12 DEF Port!Next
  <2>7. CASE Client \/ UNCHANGED vars
    BY <2>7 DEF Client, OtherFires, vars
  <2> QED
    BY <2>3, <2>4, <2>5, <2>6, <2>7 DEF Next, EventFires
<1> QED
  BY <1>1, <1>2, Invariant, PTL DEF Spec, ImplementsMemoryPort, Port!Spec
=============================================================================
