----------------------------- MODULE PipeProofs -----------------------------
(***************************************************************************)
(* Proofs about Pipe for every number of items, slots and cycles.  The     *)
(* invariant counts: where an item is (travelling, stalled, offered,       *)
(* accepted), how many events of each kind are scheduled.  What holds of   *)
(* any consumer comes first; then what a consumer that does not raise, or  *)
(* does not step the simulator, adds.                                      *)
(***************************************************************************)
EXTENDS Pipe, AgendaProofs

Event == [due : Int, priority : {0}, run : {"deliver"}, item : Items]
         \cup [due : Int, priority : {0}, run : {"retry"}]
Call == [run : {"deliver", "retry"}, item : Items]

EventsOf(run) == {e \in Event : e.run = run}
CallsOf(run) == {c \in Call : c.run = run}

\* The deliveries of an item, and the offers by _deliver().
Carrying(item) == {e \in EventsOf("deliver") : e.item = item}
Offering(item) == {c \in CallsOf("deliver") : c.item = item}

\* The agenda is in order and the activations are those of the stage.
Sane ==
    /\ agenda \in Seq(Event)
    /\ Ordered(agenda)
    /\ calls \in Seq(Call)
    /\ stalled \in Seq(Items)

LEMMA Constants ==
    /\ Latency \in Nat /\ Latency >= 1
    /\ Slots \in Nat /\ Slots >= 1
  BY PipeAssumption

-----------------------------------------------------------------------------
(* Events.                                                                 *)

LEMMA EventFacts ==
    ASSUME NEW e \in Event
    PROVE  /\ {"due", "priority"} \subseteq DOMAIN e
           /\ e.due \in Int /\ e.priority \in Int
           /\ e.run \in {"deliver", "retry"}
           /\ e.run = "deliver" => e.item \in Items
           /\ \A d \in Int : /\ [e EXCEPT !.due = d] \in Event
                             /\ [e EXCEPT !.due = d].due = d
                             /\ [e EXCEPT !.due = d].run = e.run
                             /\ e.run = "deliver" =>
                                   [e EXCEPT !.due = d].item = e.item
<1>1. CASE e \in [due : Int, priority : {0}, run : {"deliver"}, item : Items]
  <2>1. /\ {"due", "priority"} \subseteq DOMAIN e
        /\ e.due \in Int /\ e.priority = 0
        /\ e.run = "deliver" /\ e.item \in Items
    BY <1>1
  <2>2. ASSUME NEW d \in Int
        PROVE  /\ [e EXCEPT !.due = d]
                     \in [due : Int, priority : {0}, run : {"deliver"}, item : Items]
               /\ [e EXCEPT !.due = d].due = d
               /\ [e EXCEPT !.due = d].run = e.run
               /\ [e EXCEPT !.due = d].item = e.item
    BY <1>1
  <2> QED
    BY <2>1, <2>2 DEF Event
<1>2. CASE e \in [due : Int, priority : {0}, run : {"retry"}]
  <2>1. /\ {"due", "priority"} \subseteq DOMAIN e
        /\ e.due \in Int /\ e.priority = 0 /\ e.run = "retry"
    BY <1>2
  <2>2. ASSUME NEW d \in Int
        PROVE  /\ [e EXCEPT !.due = d] \in [due : Int, priority : {0}, run : {"retry"}]
               /\ [e EXCEPT !.due = d].due = d
               /\ [e EXCEPT !.due = d].run = e.run
    BY <1>2
  <2> QED
    BY <2>1, <2>2 DEF Event
<1> QED
  BY <1>1, <1>2 DEF Event

LEMMA Kinds ==
    /\ \A run : Timeless(EventsOf(run), Event)
    /\ \A item : Timeless(Carrying(item), Event)
<1>1. ASSUME NEW run PROVE Timeless(EventsOf(run), Event)
  BY EventFacts DEF Timeless, EventsOf
<1>2. ASSUME NEW item PROVE Timeless(Carrying(item), Event)
  BY EventFacts DEF Timeless, Carrying, EventsOf
<1> QED
  BY <1>1, <1>2

LEMMA NewEvents ==
    /\ \A item \in Items :
          /\ Deliver(item) \in Event /\ Deliver(item).due = Latency
          /\ Deliver(item) \in EventsOf("deliver")
          /\ Deliver(item) \notin EventsOf("retry")
          /\ \A i : Deliver(item) \in Carrying(i) <=> i = item
    /\ RetryEvent \in Event /\ RetryEvent.due = 1
    /\ RetryEvent \notin EventsOf("deliver")
    /\ RetryEvent \in EventsOf("retry")
    /\ \A i : RetryEvent \notin Carrying(i)
  BY Constants DEF Deliver, RetryEvent, Event, EventsOf, Carrying

\* The events of a kind, as the properties count them.
LEMMA CountedEvents ==
    ASSUME NEW a \in Seq(Event), NEW run
    PROVE  Cardinality({k \in DOMAIN a : a[k].run = run}) = Count(a, EventsOf(run))
<1>1. \A k \in DOMAIN a : a[k] \in Event
  OBVIOUS
<1>2. {k \in DOMAIN a : a[k].run = run} = {k \in DOMAIN a : a[k] \in EventsOf(run)}
  BY <1>1 DEF EventsOf
<1> QED
  BY <1>2 DEF Count

LEMMA CountedCalls ==
    ASSUME NEW c \in Seq(Call), NEW run
    PROVE  Cardinality({k \in DOMAIN c : c[k].run = run}) = Count(c, CallsOf(run))
<1>1. \A k \in DOMAIN c : c[k] \in Call
  OBVIOUS
<1>2. {k \in DOMAIN c : c[k].run = run} = {k \in DOMAIN c : c[k] \in CallsOf(run)}
  BY <1>1 DEF CallsOf
<1> QED
  BY <1>2 DEF Count

\* Scheduling an event of the stage.
LEMMA ScheduleFacts ==
    ASSUME NEW a \in Seq(Event), Ordered(a), NEW e \in Event
    PROVE  /\ Inserted(a, e) \in Seq(Event) /\ Ordered(Inserted(a, e))
           /\ \A W : Count(Inserted(a, e), W)
                        = Count(a, W) + (IF e \in W THEN 1 ELSE 0)
<1>1. IsAgenda(a, Event) /\ e.due \in Int /\ e.priority \in Int
  <2>1. \A k \in 1 .. Len(a) : a[k] \in Event
    OBVIOUS
  <2> QED
    BY <2>1, EventFacts DEF IsAgenda
<1>2. Inserted(a, e) \in Seq(Event) /\ Ordered(Inserted(a, e))
  BY <1>1, InsertedOrdered DEF IsAgenda
<1>3. ASSUME NEW W
      PROVE  Count(Inserted(a, e), W) = Count(a, W) + (IF e \in W THEN 1 ELSE 0)
  BY <1>1, CountInserted
<1> QED
  BY <1>2, <1>3

\* The dues of the events stay in range.
InRange(a) == \A k \in 1 .. Len(a) : a[k].due \in 0 .. Latency

LEMMA ScheduleInRange ==
    ASSUME NEW a \in Seq(Event), Ordered(a), InRange(a),
           NEW e \in Event, e.due \in 0 .. Latency
    PROVE  InRange(Inserted(a, e))
<1>1. IsAgenda(a, Event) /\ e.due \in Int /\ e.priority \in Int
  <2>1. \A k \in 1 .. Len(a) : a[k] \in Event
    OBVIOUS
  <2> QED
    BY <2>1, EventFacts DEF IsAgenda
<1>2. PICK n \in 0 .. Len(a) : IsInsertion(Inserted(a, e), a, n, e)
  BY <1>1, InsertedFacts
<1> QED
  BY <1>2 DEF IsInsertion, InRange

\* An event of the stage fires.
LEMMA FireFacts ==
    ASSUME NEW a \in Seq(Event), Ordered(a), a # <<>>
    PROVE  /\ AfterHead(a) \in Seq(Event) /\ Ordered(AfterHead(a))
           /\ Head(a) \in Event
           /\ \A W : Timeless(W, Event) =>
                 Count(AfterHead(a), W) = Count(a, W) - (IF Head(a) \in W THEN 1 ELSE 0)
           /\ InRange(a) => InRange(AfterHead(a))
<1>1. AfterHead(a) \in Seq(Event) /\ Ordered(AfterHead(a))
  BY Kinds, CountAfterHead DEF IsAgenda
<1>2. ASSUME NEW W, Timeless(W, Event)
      PROVE  Count(AfterHead(a), W) = Count(a, W) - (IF Head(a) \in W THEN 1 ELSE 0)
  BY <1>2, CountAfterHead
<1>3. \A k \in 1 .. Len(a) : a[k] \in Event
  OBVIOUS
<1>4. /\ IsAgenda(a, Event)
      /\ \A k \in 1 .. Len(a) : {"due", "priority"} \subseteq DOMAIN a[k]
  BY <1>3, EventFacts DEF IsAgenda
<1>5. ASSUME InRange(a) PROVE InRange(AfterHead(a))
  <2>1. /\ Len(AfterHead(a)) = Len(a) - 1
        /\ \A k \in 1 .. Len(a) - 1 :
              /\ k + 1 \in 1 .. Len(a)
              /\ AfterHead(a)[k] = [a[k + 1] EXCEPT !.due = a[k + 1].due - Head(a).due]
              /\ a[k + 1].due - Head(a).due \in Nat
        /\ Head(a) = a[1] /\ 1 \in 1 .. Len(a)
    BY <1>4, AfterHeadFacts
  <2>2. Head(a).due \in 0 .. Latency
    BY <1>5, <2>1 DEF InRange
  <2> SUFFICES ASSUME NEW k \in 1 .. Len(a) - 1
               PROVE  AfterHead(a)[k].due \in 0 .. Latency
    BY <2>1 DEF InRange
  <2> DEFINE e == a[k + 1]
  <2>3. e \in Event /\ e.due \in 0 .. Latency /\ e.due - Head(a).due \in Nat
        /\ AfterHead(a)[k] = [e EXCEPT !.due = e.due - Head(a).due]
    BY <1>3, <1>5, <2>1 DEF InRange
  <2> HIDE DEF e
  <2>4. AfterHead(a)[k].due = e.due - Head(a).due
    BY <2>3, EventFacts
  <2> QED
    BY <2>2, <2>3, <2>4, Constants
<1> QED
  BY <1>1, <1>2, <1>3, <1>5

\* An activation ends: the innermost one is taken off.
LEMMA PopFacts ==
    ASSUME NEW c \in Seq(Call), c # <<>>
    PROVE  /\ SubSeq(c, 1, Len(c) - 1) \in Seq(Call)
           /\ Len(SubSeq(c, 1, Len(c) - 1)) = Len(c) - 1
           /\ \A k \in 1 .. Len(c) - 1 : SubSeq(c, 1, Len(c) - 1)[k] = c[k]
           /\ c[Len(c)] \in Call
           /\ \A W : Count(SubSeq(c, 1, Len(c) - 1), W)
                       = Count(c, W) - (IF c[Len(c)] \in W THEN 1 ELSE 0)
<1>1. Len(c) \in Nat /\ Len(c) > 0 /\ \A k \in 1 .. Len(c) : c[k] \in Call
  OBVIOUS
<1>2. /\ SubSeq(c, 1, Len(c) - 1) \in Seq(Call)
      /\ Len(SubSeq(c, 1, Len(c) - 1)) = Len(c) - 1
      /\ \A k \in 1 .. Len(c) - 1 : SubSeq(c, 1, Len(c) - 1)[k] = c[k]
  <2> DEFINE n == Len(c) - 1
  <2>1. n \in Nat /\ \A k \in 1 .. n : c[k] \in Call
    BY <1>1
  <2> HIDE DEF n
  <2>2. /\ SubSeq(c, 1, n) \in Seq(Call) /\ Len(SubSeq(c, 1, n)) = n
        /\ \A k \in 1 .. n : SubSeq(c, 1, n)[k] = c[k]
    BY <2>1
  <2> QED
    BY <2>2 DEF n
<1>3. ASSUME NEW W
      PROVE  Count(SubSeq(c, 1, Len(c) - 1), W)
               = Count(c, W) - (IF c[Len(c)] \in W THEN 1 ELSE 0)
  BY CountFront
<1> QED
  BY <1>1, <1>2, <1>3

-----------------------------------------------------------------------------
(* What each action does to the counts.                                    *)

\* The deliveries and the retries scheduled, the offers under way.
Travels == Count(agenda, EventsOf("deliver"))
Retryings == Count(agenda, EventsOf("retry"))
Offers == Count(calls, CallsOf("deliver"))

\* How often an item is on its way, and offered on arrival.
Carried(item) == Count(agenda, Carrying(item))
OfferedOf(item) == Count(calls, Offering(item))

LEMMA CountTypes ==
    ASSUME Sane
    PROVE  /\ Travels \in Nat /\ Retryings \in Nat /\ Offers \in Nat
           /\ \A i : Carried(i) \in Nat /\ OfferedOf(i) \in Nat
           /\ \A i : Count(stalled, {i}) \in Nat
           /\ Len(stalled) \in Nat
           /\ Cardinality(Travelling) = Travels
           /\ Cardinality(Retries) = Retryings
           /\ Cardinality(Offered("deliver")) = Offers
<1>1. agenda \in Seq(Event) /\ calls \in Seq(Call) /\ stalled \in Seq(Items)
  BY DEF Sane
<1>2. \A W : Count(agenda, W) \in Nat
  BY <1>1, CountFacts
<1>3. \A W : Count(calls, W) \in Nat
  BY <1>1, CountFacts
<1>4. \A W : Count(stalled, W) \in Nat
  BY <1>1, CountFacts
<1>5. Cardinality(Travelling) = Travels /\ Cardinality(Retries) = Retryings
  BY <1>1, CountedEvents DEF Travelling, Retries, Travels, Retryings
<1>6. Cardinality(Offered("deliver")) = Offers
  BY <1>1, CountedCalls DEF Offered, Offers
<1> QED
  BY <1>1, <1>2, <1>3, <1>4, <1>5, <1>6
     DEF Travels, Retryings, Offers, Carried, OfferedOf

LEMMA PutCounts ==
    ASSUME Sane, NEW item \in Items, Put(item)
    PROVE  /\ Sane' /\ (InRange(agenda) => InRange(agenda'))
           /\ Travels' = Travels + 1
           /\ Retryings' = Retryings
           /\ Offers' = Offers
           /\ \A i : /\ Carried(i)' = Carried(i) + (IF i = item THEN 1 ELSE 0)
                     /\ OfferedOf(i)' = OfferedOf(i)
<1>1. agenda' = Inserted(agenda, Deliver(item)) /\ calls' = calls /\ stalled' = stalled
  BY DEF Put
<1>2. agenda \in Seq(Event) /\ Ordered(agenda) /\ Deliver(item) \in Event
  BY NewEvents DEF Sane
<1>3. /\ agenda' \in Seq(Event) /\ Ordered(agenda')
      /\ \A W : Count(agenda', W)
                  = Count(agenda, W) + (IF Deliver(item) \in W THEN 1 ELSE 0)
  BY <1>1, <1>2, ScheduleFacts
<1>4. Sane'
  BY <1>1, <1>3 DEF Sane
<1>5. InRange(agenda) => InRange(agenda')
  BY <1>1, <1>2, NewEvents, Constants, ScheduleInRange
<1>6. Offers' = Offers /\ \A i : OfferedOf(i)' = OfferedOf(i)
  BY <1>1 DEF Offers, OfferedOf
<1>7. Travels' = Travels + 1
  BY <1>3, NewEvents DEF Travels
<1>8. Retryings' = Retryings
  BY <1>3, <1>4, NewEvents, CountTypes DEF Retryings
<1>9. \A i : Carried(i)' = Carried(i) + (IF i = item THEN 1 ELSE 0)
  BY <1>3, NewEvents DEF Carried
<1> QED
  BY <1>4, <1>5, <1>6, <1>7, <1>8, <1>9

LEMMA TimeCounts ==
    ASSUME Sane, TimePasses
    PROVE  /\ Sane' /\ (InRange(agenda) => InRange(agenda'))
           /\ Travels' = Travels
           /\ Retryings' = Retryings
           /\ Offers' = Offers
           /\ \A i : Carried(i)' = Carried(i) /\ OfferedOf(i)' = OfferedOf(i)
<1>1. /\ agenda' = Elapsed(agenda, 1) /\ calls' = calls /\ stalled' = stalled
      /\ MayElapse(agenda, 1)
  BY DEF TimePasses
<1>2. agenda \in Seq(Event) /\ Ordered(agenda)
  BY DEF Sane
<1>3. /\ agenda' \in Seq(Event) /\ Ordered(agenda')
      /\ \A W : Timeless(W, Event) => Count(agenda', W) = Count(agenda, W)
  <2>1. ASSUME NEW W, Timeless(W, Event)
        PROVE  /\ agenda' \in Seq(Event) /\ Ordered(agenda')
               /\ Count(agenda', W) = Count(agenda, W)
    BY <1>1, <1>2, <2>1, CountElapsed DEF IsAgenda
  <2> QED
    BY <2>1, Kinds
<1>4. Sane'
  BY <1>1, <1>3 DEF Sane
<1>5. ASSUME InRange(agenda) PROVE InRange(agenda')
  <2>1. \A k \in 1 .. Len(agenda) : agenda[k] \in Event
    BY <1>2
  <2>2. /\ IsAgenda(agenda, Event)
        /\ \A k \in 1 .. Len(agenda) : {"due", "priority"} \subseteq DOMAIN agenda[k]
    BY <1>2, <2>1, EventFacts DEF IsAgenda
  <2>3. /\ Len(agenda') = Len(agenda)
        /\ \A k \in 1 .. Len(agenda) :
              agenda'[k] = [agenda[k] EXCEPT !.due = agenda[k].due - 1]
    BY <1>1, <1>2, <2>2, ElapsedFacts
  <2> SUFFICES ASSUME NEW k \in 1 .. Len(agenda)
               PROVE  agenda'[k].due \in 0 .. Latency
    BY <2>3 DEF InRange
  <2> DEFINE e == agenda[k]
  <2>4. e \in Event /\ e.due \in 1 .. Latency
        /\ agenda'[k] = [e EXCEPT !.due = e.due - 1]
    BY <1>1, <1>2, <1>5, <2>1, <2>3 DEF InRange, MayElapse
  <2> HIDE DEF e
  <2>5. e.due - 1 \in Int
    BY <2>4
  <2>6. agenda'[k].due = e.due - 1
    BY <2>4, <2>5, EventFacts
  <2> QED
    BY <2>4, <2>6, Constants
<1>6. Offers' = Offers /\ \A i : OfferedOf(i)' = OfferedOf(i)
  BY <1>1 DEF Offers, OfferedOf
<1>7. /\ Travels' = Travels /\ Retryings' = Retryings
      /\ \A i : Carried(i)' = Carried(i)
  BY <1>3, Kinds DEF Travels, Retryings, Carried
<1> QED
  BY <1>4, <1>5, <1>6, <1>7

LEMMA DeliverStartsCounts ==
    ASSUME Sane, DeliverStarts
    PROVE  /\ Sane' /\ (InRange(agenda) => InRange(agenda'))
           /\ Travels' = Travels - 1
           /\ Retryings' = Retryings
           /\ Offers' = Offers + 1
           /\ Len(calls') = Len(calls) + 1 /\ calls'[Len(calls) + 1].run = "deliver"
           /\ \A k \in 1 .. Len(calls) : calls'[k] = calls[k]
           /\ \A i : /\ Carried(i)' - Carried(i) = OfferedOf(i) - OfferedOf(i)'
<1> DEFINE h == Head(agenda)
           c == [run |-> "deliver", item |-> Head(agenda).item]
<1>1. /\ agenda # <<>> /\ h.run = "deliver"
      /\ agenda' = AfterHead(agenda) /\ calls' = Append(calls, c) /\ stalled' = stalled
  BY DEF DeliverStarts
<1>2. agenda \in Seq(Event) /\ Ordered(agenda) /\ calls \in Seq(Call)
  BY DEF Sane
<1>3. /\ agenda' \in Seq(Event) /\ Ordered(agenda') /\ h \in Event
      /\ \A W : Timeless(W, Event) =>
            Count(agenda', W) = Count(agenda, W) - (IF h \in W THEN 1 ELSE 0)
      /\ InRange(agenda) => InRange(agenda')
  BY <1>1, <1>2, FireFacts
<1> HIDE DEF h
<1>4. c \in Call /\ c.run = "deliver" /\ c.item = h.item
  BY <1>1, <1>3, EventFacts DEF Call, h
<1> HIDE DEF c
<1>5. /\ calls' \in Seq(Call)
      /\ Len(calls') = Len(calls) + 1 /\ calls'[Len(calls) + 1] = c
      /\ \A k \in 1 .. Len(calls) : calls'[k] = calls[k]
  BY <1>1, <1>2, <1>4
<1>6. \A W : Count(calls', W) = Count(calls, W) + (IF c \in W THEN 1 ELSE 0)
  <2>1. ASSUME NEW W
        PROVE  Count(calls', W) = Count(calls, W) + (IF c \in W THEN 1 ELSE 0)
    BY <1>1, <1>2, <1>4, CountAppend
  <2> QED
    BY <2>1
<1>7. Sane'
  BY <1>1, <1>3, <1>5 DEF Sane
<1>8. /\ h \in EventsOf("deliver") /\ h \notin EventsOf("retry")
      /\ \A i : h \in Carrying(i) <=> h.item = i
  BY <1>1, <1>3 DEF EventsOf, Carrying
<1>9. c \in CallsOf("deliver") /\ \A i : c \in Offering(i) <=> h.item = i
  BY <1>4 DEF CallsOf, Offering
<1>10. Travels' = Travels - 1 /\ Offers' = Offers + 1
  BY <1>3, <1>6, <1>8, <1>9, Kinds DEF Travels, Offers
<1>11. Retryings' = Retryings
  BY <1>3, <1>8, Kinds, CountTypes DEF Retryings
<1>12. ASSUME NEW i
       PROVE  /\ Carried(i)' = Carried(i) - (IF h.item = i THEN 1 ELSE 0)
              /\ OfferedOf(i)' = OfferedOf(i) + (IF h.item = i THEN 1 ELSE 0)
  BY <1>3, <1>6, <1>8, <1>9, Kinds DEF Carried, OfferedOf
<1>13. ASSUME NEW i PROVE Carried(i)' - Carried(i) = OfferedOf(i) - OfferedOf(i)'
  <2>1. Carried(i) \in Nat /\ OfferedOf(i) \in Nat
    BY CountTypes
  <2>2. CASE h.item = i
    BY <1>12, <2>1, <2>2
  <2>3. CASE h.item # i
    BY <1>12, <2>1, <2>3
  <2> QED
    BY <2>2, <2>3
<1> QED
  BY <1>3, <1>4, <1>5, <1>7, <1>10, <1>11, <1>13

LEMMA RetryStartsCounts ==
    ASSUME Sane, RetryStarts
    PROVE  /\ Sane' /\ (InRange(agenda) => InRange(agenda'))
           /\ Travels' = Travels
           /\ Retryings' = Retryings - 1
           /\ Offers' = Offers
           /\ stalled # <<>> => /\ Len(calls') = Len(calls) + 1
                                /\ calls'[Len(calls) + 1].run = "retry"
                                /\ calls'[Len(calls) + 1].item = Head(stalled)
           /\ \A k \in 1 .. Len(calls) : calls'[k] = calls[k]
           /\ \A i : Carried(i)' = Carried(i) /\ OfferedOf(i)' = OfferedOf(i)
<1> DEFINE h == Head(agenda)
           c == [run |-> "retry", item |-> Head(stalled)]
<1>1. /\ agenda # <<>> /\ h.run = "retry"
      /\ agenda' = AfterHead(agenda) /\ stalled' = stalled
      /\ calls' = IF stalled = <<>> THEN calls ELSE Append(calls, c)
  BY DEF RetryStarts
<1>2. agenda \in Seq(Event) /\ Ordered(agenda) /\ calls \in Seq(Call)
      /\ stalled \in Seq(Items)
  BY DEF Sane
<1>3. /\ agenda' \in Seq(Event) /\ Ordered(agenda') /\ h \in Event
      /\ \A W : Timeless(W, Event) =>
            Count(agenda', W) = Count(agenda, W) - (IF h \in W THEN 1 ELSE 0)
      /\ InRange(agenda) => InRange(agenda')
  BY <1>1, <1>2, FireFacts
<1> HIDE DEF h
<1>4. /\ h \notin EventsOf("deliver") /\ h \in EventsOf("retry")
      /\ \A i : h \notin Carrying(i)
  BY <1>1, <1>3 DEF EventsOf, Carrying
<1>5. Travels' = Travels /\ \A i : Carried(i)' = Carried(i)
  BY <1>3, <1>4, Kinds, CountTypes DEF Travels, Carried
<1>6. Retryings' = Retryings - 1
  BY <1>3, <1>4, Kinds DEF Retryings
<1>7. CASE stalled = <<>>
  <2>1. calls' = calls
    BY <1>1, <1>7
  <2>2. Sane'
    BY <1>1, <1>2, <1>3, <2>1 DEF Sane
  <2>3. Offers' = Offers /\ \A i : OfferedOf(i)' = OfferedOf(i)
    BY <2>1 DEF Offers, OfferedOf
  <2> QED
    BY <1>3, <1>5, <1>6, <1>7, <2>1, <2>2, <2>3
<1>8. CASE stalled # <<>>
  <2>1. c \in Call /\ c.run = "retry" /\ c.item = Head(stalled)
    BY <1>2, <1>8 DEF Call
  <2>2. calls' = Append(calls, c)
    BY <1>1, <1>8
  <2> HIDE DEF c
  <2>3. /\ calls' \in Seq(Call)
        /\ Len(calls') = Len(calls) + 1 /\ calls'[Len(calls) + 1] = c
        /\ \A k \in 1 .. Len(calls) : calls'[k] = calls[k]
    BY <1>2, <2>1, <2>2
  <2>4. ASSUME NEW W, c \notin W
        PROVE  Count(calls', W) = Count(calls, W)
    <3>1. Count(calls, W) \in Nat
      BY <1>2, CountFacts
    <3> QED
      BY <1>2, <2>1, <2>2, <2>4, <3>1, CountAppend
  <2>5. c \notin CallsOf("deliver") /\ \A i : c \notin Offering(i)
    BY <2>1 DEF CallsOf, Offering
  <2>6. Offers' = Offers /\ \A i : OfferedOf(i)' = OfferedOf(i)
    BY <2>4, <2>5 DEF Offers, OfferedOf
  <2>7. Sane'
    BY <1>1, <1>2, <1>3, <2>3 DEF Sane
  <2> QED
    BY <1>3, <1>5, <1>6, <2>1, <2>3, <2>6, <2>7
<1> QED
  BY <1>7, <1>8

\* The innermost activation, and what is left when it ends.
LEMMA TopFacts ==
    ASSUME Sane, calls # <<>>
    PROVE  /\ Top \in Call /\ Top.item \in Items /\ Top.run \in {"deliver", "retry"}
           /\ Pop \in Seq(Call) /\ Len(Pop) = Len(calls) - 1
           /\ \A k \in 1 .. Len(calls) - 1 : Pop[k] = calls[k]
           /\ Len(calls) \in Nat /\ Len(calls) > 0
           /\ \A W : Count(Pop, W) = Count(calls, W) - (IF Top \in W THEN 1 ELSE 0)
           /\ Top.run = "deliver" =>
                 /\ Count(Pop, CallsOf("deliver")) = Offers - 1
                 /\ \A i : Count(Pop, Offering(i))
                             = OfferedOf(i) - (IF i = Top.item THEN 1 ELSE 0)
           /\ Top.run = "retry" =>
                 /\ Count(Pop, CallsOf("deliver")) = Offers
                 /\ \A i : Count(Pop, Offering(i)) = OfferedOf(i)
<1>1. calls \in Seq(Call)
  BY DEF Sane
<1>2. /\ Pop \in Seq(Call) /\ Len(Pop) = Len(calls) - 1
      /\ \A k \in 1 .. Len(calls) - 1 : Pop[k] = calls[k]
      /\ Top \in Call
      /\ \A W : Count(Pop, W) = Count(calls, W) - (IF Top \in W THEN 1 ELSE 0)
  BY <1>1, PopFacts DEF Pop, Top
<1>3. Top.item \in Items /\ Top.run \in {"deliver", "retry"}
  BY <1>2 DEF Call
<1>4. ASSUME Top.run = "deliver"
      PROVE  /\ Count(Pop, CallsOf("deliver")) = Offers - 1
             /\ \A i : Count(Pop, Offering(i))
                         = OfferedOf(i) - (IF i = Top.item THEN 1 ELSE 0)
  <2>1. Top \in CallsOf("deliver") /\ \A i : Top \in Offering(i) <=> i = Top.item
    BY <1>2, <1>4 DEF CallsOf, Offering
  <2> QED
    BY <1>2, <2>1 DEF Offers, OfferedOf
<1>5. ASSUME Top.run = "retry"
      PROVE  /\ Count(Pop, CallsOf("deliver")) = Offers
             /\ \A i : Count(Pop, Offering(i)) = OfferedOf(i)
  <2>1. Top \notin CallsOf("deliver") /\ \A i : Top \notin Offering(i)
    BY <1>2, <1>5 DEF CallsOf, Offering
  <2>2. /\ Count(calls, CallsOf("deliver")) \in Nat
        /\ \A i : Count(calls, Offering(i)) \in Nat
    BY CountTypes DEF Offers, OfferedOf
  <2> QED
    BY <1>2, <2>1, <2>2 DEF Offers, OfferedOf
<1> QED
  BY <1>1, <1>2, <1>3, <1>4, <1>5

LEMMA DeliverAcceptedCounts ==
    ASSUME Sane, DeliverAccepted
    PROVE  /\ Sane' /\ agenda' = agenda /\ stalled' = stalled /\ calls' = Pop
           /\ Travels' = Travels
           /\ Retryings' = Retryings
           /\ Offers' = Offers - 1
           /\ \A i : /\ Carried(i)' = Carried(i)
                     /\ OfferedOf(i)' = OfferedOf(i) - (IF i = Top.item THEN 1 ELSE 0)
<1>1. /\ calls # <<>> /\ Top.run = "deliver"
      /\ calls' = Pop /\ agenda' = agenda /\ stalled' = stalled
  BY DEF DeliverAccepted
<1>2. Sane'
  BY <1>1, TopFacts DEF Sane
<1>3. /\ Travels' = Travels /\ Retryings' = Retryings
      /\ \A i : Carried(i)' = Carried(i)
  BY <1>1 DEF Travels, Retryings, Carried
<1>4. Offers' = Count(Pop, CallsOf("deliver"))
      /\ \A i : OfferedOf(i)' = Count(Pop, Offering(i))
  BY <1>1 DEF Offers, OfferedOf
<1> QED
  BY <1>1, <1>2, <1>3, <1>4, TopFacts

\* A retry is scheduled, or one is already.
LEMMA RetryScheduledCounts ==
    ASSUME Sane, agenda' = Inserted(agenda, RetryEvent)
    PROVE  /\ agenda' \in Seq(Event) /\ Ordered(agenda')
           /\ InRange(agenda) => InRange(agenda')
           /\ Travels' = Travels
           /\ Retryings' = Retryings + 1
           /\ \A i : Carried(i)' = Carried(i)
<1>1. agenda \in Seq(Event) /\ Ordered(agenda)
  BY DEF Sane
<1>2. /\ agenda' \in Seq(Event) /\ Ordered(agenda')
      /\ \A W : Count(agenda', W)
                  = Count(agenda, W) + (IF RetryEvent \in W THEN 1 ELSE 0)
  BY <1>1, NewEvents, ScheduleFacts
<1>3. InRange(agenda) => InRange(agenda')
  BY <1>1, NewEvents, Constants, ScheduleInRange
<1>4. Travels' = Travels /\ \A i : Carried(i)' = Carried(i)
  BY <1>2, NewEvents, CountTypes DEF Travels, Carried
<1>5. Retryings' = Retryings + 1
  BY <1>2, NewEvents DEF Retryings
<1> QED
  BY <1>2, <1>3, <1>4, <1>5

LEMMA DeliverStalledCounts ==
    ASSUME Sane, DeliverStalled
    PROVE  /\ Sane' /\ (InRange(agenda) => InRange(agenda')) /\ calls' = Pop
           /\ Travels' = Travels
           /\ Retryings' = Retryings + (IF retryEid THEN 0 ELSE 1)
           /\ Offers' = Offers - 1
           /\ Len(stalled') = Len(stalled) + 1
           /\ \A i : /\ Carried(i)' = Carried(i)
                     /\ OfferedOf(i)' = OfferedOf(i) - (IF i = Top.item THEN 1 ELSE 0)
                     /\ Count(stalled', {i}) = Count(stalled, {i})
                                               + (IF i = Top.item THEN 1 ELSE 0)
<1>1. /\ calls # <<>> /\ Top.run = "deliver"
      /\ calls' = Pop /\ stalled' = Append(stalled, Top.item)
      /\ agenda' = IF retryEid THEN agenda ELSE Inserted(agenda, RetryEvent)
  BY DEF DeliverStalled
<1>2. Top.item \in Items /\ stalled \in Seq(Items)
  BY <1>1, TopFacts DEF Sane
<1>3. stalled' \in Seq(Items) /\ Len(stalled') = Len(stalled) + 1
  BY <1>1, <1>2
<1>4. ASSUME NEW i
      PROVE  Count(stalled', {i}) = Count(stalled, {i}) + (IF i = Top.item THEN 1 ELSE 0)
  BY <1>1, <1>2, CountAppend
<1>5. /\ agenda' \in Seq(Event) /\ Ordered(agenda')
      /\ InRange(agenda) => InRange(agenda')
      /\ Travels' = Travels
      /\ Retryings' = Retryings + (IF retryEid THEN 0 ELSE 1)
      /\ \A i : Carried(i)' = Carried(i)
  <2>1. CASE retryEid
    <3>1. agenda' = agenda
      BY <1>1, <2>1
    <3> QED
      BY <2>1, <3>1, CountTypes DEF Sane, Travels, Retryings, Carried
  <2>2. CASE ~retryEid
    BY <1>1, <2>2, RetryScheduledCounts
  <2> QED
    BY <2>1, <2>2
<1>6. Offers' = Count(Pop, CallsOf("deliver"))
      /\ \A i : OfferedOf(i)' = Count(Pop, Offering(i))
  BY <1>1 DEF Offers, OfferedOf
<1>7. Sane'
  BY <1>1, <1>3, <1>5, TopFacts DEF Sane
<1> QED
  BY <1>1, <1>3, <1>4, <1>5, <1>6, <1>7, TopFacts

LEMMA RetryAcceptedCounts ==
    ASSUME Sane, RetryAccepted
    PROVE  /\ Sane' /\ agenda' = agenda
           /\ Travels' = Travels
           /\ Retryings' = Retryings
           /\ Offers' = Offers
           /\ \A i : Carried(i)' = Carried(i) /\ OfferedOf(i)' = OfferedOf(i)
           /\ stalled = <<>> => stalled' = stalled /\ calls' = Pop
           /\ stalled # <<>> =>
                 /\ stalled' = Tail(stalled) /\ Len(stalled') = Len(stalled) - 1
                 /\ \A i : Count(stalled', {i}) = Count(stalled, {i})
                              - (IF i = Head(stalled) THEN 1 ELSE 0)
           /\ \/ calls' = Pop
                 /\ (stalled # <<>> => stalled' = <<>>)
              \/ /\ stalled' # <<>>
                 /\ Len(calls') = Len(calls)
                 /\ calls'[Len(calls)].run = "retry"
                 /\ calls'[Len(calls)].item = Head(stalled')
                 /\ \A k \in 1 .. Len(calls) - 1 : calls'[k] = calls[k]
<1>1. /\ calls # <<>> /\ Top.run = "retry" /\ agenda' = agenda
      /\ stalled = <<>> => calls' = Pop /\ stalled' = stalled
      /\ stalled # <<>> =>
            /\ stalled' = Tail(stalled)
            /\ calls' = IF stalled' = <<>> THEN Pop
                        ELSE Append(Pop, [run |-> "retry", item |-> Head(stalled')])
  BY DEF RetryAccepted
<1>2. /\ stalled \in Seq(Items) /\ agenda \in Seq(Event) /\ Ordered(agenda)
  BY DEF Sane
<1>3. /\ Travels' = Travels /\ Retryings' = Retryings
      /\ \A i : Carried(i)' = Carried(i)
  BY <1>1 DEF Travels, Retryings, Carried
<1>4. /\ Pop \in Seq(Call) /\ Len(Pop) = Len(calls) - 1 /\ Len(calls) \in Nat
      /\ Len(calls) > 0
      /\ \A k \in 1 .. Len(calls) - 1 : Pop[k] = calls[k]
      /\ Count(Pop, CallsOf("deliver")) = Offers
      /\ \A i : Count(Pop, Offering(i)) = OfferedOf(i)
  BY <1>1, TopFacts
<1>5. ASSUME stalled # <<>>
      PROVE  /\ stalled' \in Seq(Items) /\ Len(stalled') = Len(stalled) - 1
             /\ \A i : Count(stalled', {i}) = Count(stalled, {i})
                          - (IF i = Head(stalled) THEN 1 ELSE 0)
  <2>1. stalled' = Tail(stalled)
    BY <1>1, <1>5
  <2>2. stalled' \in Seq(Items) /\ Len(stalled') = Len(stalled) - 1
    BY <1>2, <1>5, <2>1
  <2>3. ASSUME NEW i
        PROVE  Count(Tail(stalled), {i}) = Count(stalled, {i})
                  - (IF Head(stalled) \in {i} THEN 1 ELSE 0)
    BY <1>2, <1>5, CountTail
  <2> QED
    BY <2>1, <2>2, <2>3
<1>6. CASE calls' = Pop /\ (stalled # <<>> => stalled' = <<>>)
  <2>1. Offers' = Offers /\ \A i : OfferedOf(i)' = OfferedOf(i)
    BY <1>4, <1>6 DEF Offers, OfferedOf
  <2>2. Sane'
    BY <1>1, <1>2, <1>4, <1>5, <1>6 DEF Sane
  <2> QED
    BY <1>1, <1>3, <1>5, <1>6, <2>1, <2>2
<1>7. CASE stalled # <<>> /\ stalled' # <<>>
  <2> DEFINE c == [run |-> "retry", item |-> Head(stalled')]
  <2>1. calls' = Append(Pop, c)
    BY <1>1, <1>7
  <2>2. c \in Call /\ c.run = "retry" /\ c.item = Head(stalled')
    BY <1>5, <1>7 DEF Call
  <2>3. c \notin CallsOf("deliver") /\ \A i : c \notin Offering(i)
    BY <2>2 DEF CallsOf, Offering
  <2> HIDE DEF c
  <2>4. /\ calls' \in Seq(Call)
        /\ Len(calls') = Len(calls) /\ calls'[Len(calls)] = c
        /\ \A k \in 1 .. Len(calls) - 1 : calls'[k] = Pop[k]
    <3> HIDE DEF Pop
    <3> QED
      BY <1>4, <2>1, <2>2
  <2>5. ASSUME NEW W, c \notin W
        PROVE  Count(calls', W) = Count(Pop, W)
    <3>1. Count(Pop, W) \in Nat
      BY <1>4, CountFacts
    <3> QED
      BY <1>4, <2>1, <2>2, <2>5, <3>1, CountAppend
  <2>6. Offers' = Count(Pop, CallsOf("deliver"))
    BY <2>3, <2>5 DEF Offers
  <2>7. \A i : OfferedOf(i)' = Count(Pop, Offering(i))
    BY <2>3, <2>5 DEF OfferedOf
  <2>8. Sane'
    BY <1>1, <1>2, <1>5, <1>7, <2>4 DEF Sane
  <2> QED
    BY <1>1, <1>3, <1>4, <1>5, <1>7, <2>2, <2>4, <2>6, <2>7, <2>8
<1> QED
  BY <1>1, <1>6, <1>7

LEMMA RetryStalledCounts ==
    ASSUME Sane, RetryStalled
    PROVE  /\ Sane' /\ (InRange(agenda) => InRange(agenda'))
           /\ calls' = Pop /\ stalled' = stalled
           /\ Travels' = Travels
           /\ Retryings' = Retryings + 1
           /\ Offers' = Offers
           /\ \A i : Carried(i)' = Carried(i) /\ OfferedOf(i)' = OfferedOf(i)
<1>1. /\ calls # <<>> /\ Top.run = "retry"
      /\ calls' = Pop /\ stalled' = stalled
      /\ agenda' = Inserted(agenda, RetryEvent)
  BY DEF RetryStalled
<1>2. Offers' = Count(Pop, CallsOf("deliver"))
      /\ \A i : OfferedOf(i)' = Count(Pop, Offering(i))
  BY <1>1 DEF Offers, OfferedOf
<1>3. Sane'
  BY <1>1, RetryScheduledCounts, TopFacts DEF Sane
<1> QED
  BY <1>1, <1>2, <1>3, RetryScheduledCounts, TopFacts

LEMMA ConsumerFailsCounts ==
    ASSUME Sane, ConsumerFails
    PROVE  /\ Sane' /\ agenda' = agenda /\ calls' = Pop /\ stalled' = stalled
           /\ Travels' = Travels
           /\ Retryings' = Retryings
           /\ Offers' \in {Offers, Offers - 1}
           /\ \A i : /\ Carried(i)' = Carried(i)
                     /\ OfferedOf(i)' \in {OfferedOf(i), OfferedOf(i) - 1}
<1>1. /\ calls # <<>> /\ calls' = Pop /\ agenda' = agenda /\ stalled' = stalled
  BY DEF ConsumerFails
<1>2. Sane'
  BY <1>1, TopFacts DEF Sane
<1>3. /\ Travels' = Travels /\ Retryings' = Retryings
      /\ \A i : Carried(i)' = Carried(i)
  BY <1>1 DEF Travels, Retryings, Carried
<1>4. Offers' = Count(Pop, CallsOf("deliver"))
      /\ \A i : OfferedOf(i)' = Count(Pop, Offering(i))
  BY <1>1 DEF Offers, OfferedOf
<1>5. Offers \in Nat /\ \A i : OfferedOf(i) \in Nat
  BY CountTypes
<1>6. CASE Top.run = "deliver"
  <2>1. /\ Count(Pop, CallsOf("deliver")) = Offers - 1
        /\ \A i : Count(Pop, Offering(i))
                    = OfferedOf(i) - (IF i = Top.item THEN 1 ELSE 0)
    BY <1>1, <1>6, TopFacts
  <2> QED
    BY <1>1, <1>2, <1>3, <1>4, <1>5, <2>1
<1>7. CASE Top.run = "retry"
  <2>1. /\ Count(Pop, CallsOf("deliver")) = Offers
        /\ \A i : Count(Pop, Offering(i)) = OfferedOf(i)
    BY <1>1, <1>7, TopFacts
  <2> QED
    BY <1>1, <1>2, <1>3, <1>4, <2>1
<1> QED
  BY <1>1, <1>6, <1>7, TopFacts

-----------------------------------------------------------------------------
(* What holds whatever the consumer does.                                  *)

\* Nothing but a consumer that raises leaves a slot without an item: then the
\* items account for all of inFlight, and never for more.
Slotted ==
    /\ Sane /\ InRange(agenda)
    /\ inFlight \in Int /\ inFlight <= Slots
    /\ retryEid \in BOOLEAN
    /\ entered \in Seq(Items) /\ accepted \in Seq(Items)
    /\ inFlight >= Travels + Len(stalled) + Offers
    /\ ~ConsumerRaises => inFlight = Travels + Len(stalled) + Offers

LEMMA SlottedInit ==
    ASSUME Init
    PROVE  /\ Slotted
           /\ \A W : Count(<<>>, W) = 0
<1>1. ASSUME NEW W PROVE Count(<<>>, W) = 0
  BY FS_EmptySet DEF Count
<1>2. Sane /\ InRange(agenda)
  BY DEF Init, Sane, Ordered, InRange
<1>3. Travels = 0 /\ Offers = 0 /\ Len(stalled) = 0
  BY <1>1 DEF Init, Travels, Offers
<1>4. Slotted
  <2>1. inFlight = 0 /\ retryEid = FALSE /\ entered = <<>> /\ accepted = <<>>
    BY DEF Init
  <2>2. inFlight = Travels + Len(stalled) + Offers
    BY <1>3, <2>1
  <2>3. entered \in Seq(Items) /\ accepted \in Seq(Items)
    BY <2>1
  <2>4. inFlight \in Int /\ inFlight <= Slots
    BY <2>1, Constants
  <2>6. retryEid \in BOOLEAN
    BY <2>1, Zenon
  <2>5. inFlight >= Travels + Len(stalled) + Offers
    BY <1>3, <2>1
  <2> QED
    BY <1>2, <2>2, <2>3, <2>4, <2>5, <2>6 DEF Slotted
<1> QED
  BY <1>1, <1>4

LEMMA SlottedStep ==
    ASSUME Slotted, [Next]_vars
    PROVE  Slotted'
<1>0. /\ Sane /\ InRange(agenda)
      /\ Travels \in Nat /\ Offers \in Nat /\ Len(stalled) \in Nat
      /\ inFlight \in Int /\ inFlight <= Slots /\ retryEid \in BOOLEAN
      /\ entered \in Seq(Items) /\ accepted \in Seq(Items)
      /\ inFlight >= Travels + Len(stalled) + Offers
      /\ ~ConsumerRaises => inFlight = Travels + Len(stalled) + Offers
  BY CountTypes DEF Slotted
<1>1. ASSUME NEW item \in Items, Put(item) PROVE Slotted'
  BY <1>0, <1>1, PutCounts, Constants DEF Put, Slotted
<1>2. CASE TimePasses
  BY <1>0, <1>2, TimeCounts DEF TimePasses, Slotted
<1>3. CASE DeliverStarts
  <2>1. /\ Sane' /\ InRange(agenda')
        /\ Travels' = Travels - 1 /\ Offers' = Offers + 1
    BY <1>0, <1>3, DeliverStartsCounts
  <2>2. /\ inFlight' = inFlight /\ stalled' = stalled /\ retryEid' = retryEid
        /\ entered' = entered /\ accepted' = accepted
    BY <1>3 DEF DeliverStarts
  <2> QED
    BY <1>0, <2>1, <2>2 DEF Slotted
<1>4. CASE RetryStarts
  BY <1>0, <1>4, RetryStartsCounts DEF RetryStarts, Slotted
<1>5. CASE DeliverAccepted
  <2>1. /\ Sane' /\ agenda' = agenda /\ stalled' = stalled
        /\ Travels' = Travels /\ Offers' = Offers - 1
    BY <1>0, <1>5, DeliverAcceptedCounts
  <2>2. Top.item \in Items
    BY <1>0, <1>5, TopFacts DEF DeliverAccepted
  <2>3. /\ inFlight' = inFlight - 1 /\ retryEid' = retryEid
        /\ entered' = entered /\ accepted' = Append(accepted, Top.item)
    BY <1>5 DEF DeliverAccepted
  <2>4. accepted' \in Seq(Items)
    BY <1>0, <2>2, <2>3
  <2> QED
    BY <1>0, <2>1, <2>3, <2>4, Constants DEF Slotted
<1>6. CASE DeliverStalled
  <2>1. /\ Sane' /\ InRange(agenda') /\ Len(stalled') = Len(stalled) + 1
        /\ Travels' = Travels /\ Offers' = Offers - 1
    BY <1>0, <1>6, DeliverStalledCounts
  <2>2. /\ inFlight' = inFlight /\ retryEid' = TRUE
        /\ entered' = entered /\ accepted' = accepted
    BY <1>6 DEF DeliverStalled
  <2> QED
    BY <1>0, <2>1, <2>2 DEF Slotted
<1>7. CASE RetryAccepted
  <2>1. /\ Sane' /\ agenda' = agenda
        /\ Travels' = Travels /\ Offers' = Offers
        /\ stalled = <<>> => stalled' = stalled
        /\ stalled # <<>> => Len(stalled') = Len(stalled) - 1
    BY <1>0, <1>7, RetryAcceptedCounts
  <2>2. Top.item \in Items
    BY <1>0, <1>7, TopFacts DEF RetryAccepted
  <2>3. /\ inFlight' = (IF stalled = <<>> THEN inFlight ELSE inFlight - 1)
        /\ retryEid' = retryEid
        /\ entered' = entered /\ accepted' = Append(accepted, Top.item)
    BY <1>7 DEF RetryAccepted
  <2>4. accepted' \in Seq(Items)
    BY <1>0, <2>2, <2>3
  <2>5. CASE stalled = <<>>
    BY <1>0, <2>1, <2>3, <2>4, <2>5 DEF Slotted
  <2>6. CASE stalled # <<>>
    BY <1>0, <2>1, <2>3, <2>4, <2>6, Constants DEF Slotted
  <2> QED
    BY <2>5, <2>6
<1>8. CASE RetryStalled
  BY <1>0, <1>8, RetryStalledCounts DEF RetryStalled, Slotted
<1>9. CASE ConsumerFails
  BY <1>0, <1>9, ConsumerFailsCounts DEF ConsumerFails, Slotted
<1>10. CASE UNCHANGED vars
  BY <1>0, <1>10 DEF vars, Slotted, Sane, Travels, Offers
<1> QED
  BY <1>1, <1>2, <1>3, <1>4, <1>5, <1>6, <1>7, <1>8, <1>9, <1>10
     DEF Next, EventStarts, ConsumerAccepts, ConsumerStalls

LEMMA SlottedInvariant == Spec => []Slotted
<1>1. Init => Slotted
  BY SlottedInit
<1>2. Slotted /\ [Next]_vars => Slotted'
  BY SlottedStep
<1> QED
  BY <1>1, <1>2, PTL DEF Spec

\* Whatever the consumer does, and however the activations nest, the state of
\* the stage is well typed: in particular no event is ever in the past and the
\* count of the slots in use stays between 0 and the number of slots.
THEOREM TypeCorrect == Spec => []TypeOK
<1>1. Slotted => TypeOK
  <2> SUFFICES ASSUME Slotted PROVE TypeOK
    OBVIOUS
  <2>1. /\ agenda \in Seq(Event) /\ calls \in Seq(Call) /\ stalled \in Seq(Items)
        /\ InRange(agenda)
    BY DEF Slotted, Sane
  <2>2. ASSUME NEW k \in DOMAIN agenda
        PROVE  agenda[k].due \in 0 .. Latency /\ agenda[k].run \in {"deliver", "retry"}
    <3>1. k \in 1 .. Len(agenda) /\ agenda[k] \in Event
      BY <2>1
    <3> QED
      BY <2>1, <3>1, EventFacts DEF InRange
  <2>3. ASSUME NEW k \in DOMAIN calls
        PROVE  calls[k].run \in {"deliver", "retry"} /\ calls[k].item \in Items
    <3>1. calls[k] \in Call
      BY <2>1
    <3> QED
      BY <3>1 DEF Call
  <2>4. inFlight \in 0 .. Slots
    BY CountTypes, Constants DEF Slotted
  <2> QED
    BY <2>1, <2>2, <2>3, <2>4 DEF TypeOK, Slotted
<1> QED
  BY <1>1, SlottedInvariant, PTL

\* Even a consumer that raises or steps the simulator never makes the stage
\* release a slot while the item in it still needs it.
THEOREM SlotsKept == Spec => []SlotsNotReleasedEarly
<1>1. Slotted => SlotsNotReleasedEarly
  BY CountTypes DEF Slotted, SlotsNotReleasedEarly
<1> QED
  BY <1>1, SlottedInvariant, PTL

\* With a consumer that lets no exception out, neither one of its own nor one
\* of a step() it made, the slots in use are exactly the items in the stage,
\* also when it steps the simulator in the middle of a delivery.
THEOREM SlotsExact == ~ConsumerRaises => (Spec => []SlotsMatchItems)
<1>1. ~ConsumerRaises /\ Slotted => SlotsMatchItems
  BY CountTypes DEF Slotted, SlotsMatchItems
<1>2. ASSUME ~ConsumerRaises PROVE Spec => []SlotsMatchItems
  <2>1. Slotted => SlotsMatchItems
    BY <1>1, <1>2
  <2> QED
    BY <2>1, SlottedInvariant, PTL
<1> QED
  BY <1>2

\* A stalled item never leaves before one that stalled earlier.
THEOREM StalledInOrder == Spec => StalledLeaveInOrder
<1>1. ASSUME Sane, [Next]_vars, NEW a \in Items, NEW b \in Items,
             Precedes(stalled, a, b), b \notin ItemsOf(stalled')
      PROVE  a \notin ItemsOf(stalled')
  <2>1. stalled \in Seq(Items)
    BY <1>1 DEF Sane
  <2>2. PICK k \in 2 .. Len(stalled) : stalled[k] = b
    BY <1>1, <2>1 DEF Precedes
  <2>3. CASE stalled' = stalled
    BY <1>1, <2>1, <2>2, <2>3 DEF ItemsOf
  <2>4. CASE DeliverStalled
    <3>1. Top.item \in Items /\ stalled' = Append(stalled, Top.item)
      BY <1>1, <2>4, TopFacts DEF DeliverStalled
    <3>2. k \in DOMAIN stalled' /\ stalled'[k] = b
      BY <2>1, <2>2, <3>1
    <3> QED
      BY <1>1, <3>2 DEF ItemsOf
  <2>5. CASE RetryAccepted
    <3>1. stalled' = Tail(stalled)
      BY <2>1, <2>2, <2>5 DEF RetryAccepted
    <3>2. k - 1 \in DOMAIN stalled' /\ stalled'[k - 1] = b
      BY <2>1, <2>2, <3>1
    <3> QED
      BY <1>1, <3>2 DEF ItemsOf
  <2> QED
    BY <1>1, <2>3, <2>4, <2>5
       DEF Next, EventStarts, ConsumerAccepts, ConsumerStalls, Put, TimePasses,
           DeliverStarts, RetryStarts, DeliverAccepted, RetryStalled,
           ConsumerFails, vars
<1>2. Slotted /\ [Next]_vars =>
        [\A a, b \in Items :
            Precedes(stalled, a, b) /\ b \notin ItemsOf(stalled')
               => a \notin ItemsOf(stalled')]_vars
  BY <1>1 DEF Slotted
<1> QED
  BY <1>2, SlottedInvariant, PTL DEF Spec, StalledLeaveInOrder

-----------------------------------------------------------------------------
(* What a consumer that does not step the simulator adds: one activation   *)
(* at a time.                                                              *)

\* The one activation offers the head of the queue if it is a _retry(), and
\* _retry_eid says whether the one retry event is scheduled.
Alone ==
    /\ Len(calls) <= 1
    /\ \A k \in 1 .. Len(calls) :
          calls[k].run = "retry" => /\ stalled # <<>>
                                    /\ calls[k].item = Head(stalled)
                                    /\ ~retryEid
    /\ retryEid => Retryings = 1
    /\ ~retryEid => Retryings = 0

\* Stalled items are being retried, or will be.
Retried ==
    stalled # <<>> =>
        retryEid \/ \E k \in 1 .. Len(calls) : calls[k].run = "retry"

LEMMA OneActivation ==
    ASSUME Sane, Alone, calls # <<>>
    PROVE  Len(calls) = 1 /\ Top = calls[1] /\ Len(Pop) = 0
<1>1. Len(calls) \in Nat /\ Len(calls) > 0 /\ Len(Pop) = Len(calls) - 1
  BY TopFacts
<1>2. Len(calls) = 1
  BY <1>1 DEF Alone
<1> QED
  BY <1>1, <1>2 DEF Top

LEMMA NoActivation ==
    ASSUME Sane, Alone, ~ConsumerSteps, EventsMayRun
    PROVE  calls = <<>> /\ Len(calls) = 0
  BY DEF EventsMayRun

LEMMA AloneStep ==
    ASSUME ~ConsumerSteps, Sane, retryEid \in BOOLEAN, Alone, [Next]_vars
    PROVE  Alone'
<1>0. /\ Retryings \in Nat /\ Len(calls) \in Nat /\ Len(calls) <= 1
      /\ retryEid => Retryings = 1
      /\ ~retryEid => Retryings = 0
  BY CountTypes DEF Alone, Sane
<1>1. ASSUME NEW item \in Items, Put(item) PROVE Alone'
  <2>1. Retryings' = Retryings
    BY <1>1, PutCounts
  <2>2. calls' = calls /\ stalled' = stalled /\ retryEid' = retryEid
    BY <1>1 DEF Put
  <2> QED
    BY <2>1, <2>2 DEF Alone
<1>2. CASE TimePasses
  <2>1. Retryings' = Retryings
    BY <1>2, TimeCounts
  <2>2. calls' = calls /\ stalled' = stalled /\ retryEid' = retryEid
    BY <1>2 DEF TimePasses
  <2> QED
    BY <2>1, <2>2 DEF Alone
<1>3. CASE DeliverStarts
  <2>1. /\ Retryings' = Retryings
        /\ Len(calls') = Len(calls) + 1 /\ calls'[Len(calls) + 1].run = "deliver"
    BY <1>3, DeliverStartsCounts
  <2>2. Len(calls) = 0 /\ retryEid' = retryEid
    BY <1>3, NoActivation DEF DeliverStarts
  <2>3. Len(calls') = 1 /\ calls'[1].run = "deliver"
    BY <2>1, <2>2
  <2>4. \A k \in 1 .. Len(calls') : calls'[k].run # "retry"
    BY <2>3
  <2> QED
    BY <1>0, <2>1, <2>2, <2>3, <2>4 DEF Alone
<1>4. CASE RetryStarts
  <2>1. /\ Retryings' = Retryings - 1 /\ Sane'
        /\ stalled # <<>> => /\ Len(calls') = Len(calls) + 1
                             /\ calls'[Len(calls) + 1].run = "retry"
                             /\ calls'[Len(calls) + 1].item = Head(stalled)
    BY <1>4, RetryStartsCounts
  <2>2. /\ Len(calls) = 0 /\ calls = <<>> /\ retryEid' = FALSE /\ stalled' = stalled
        /\ stalled = <<>> => calls' = calls
    BY <1>4, NoActivation DEF RetryStarts
  <2>3. Retryings' \in Nat
    <3>1. agenda' \in Seq(Event)
      BY <2>1 DEF Sane
    <3> QED
      BY <3>1, CountFacts DEF Retryings
  <2>4. Retryings' = 0
    BY <1>0, <2>1, <2>3
  <2>5. CASE stalled = <<>>
    <3>1. calls' = <<>>
      BY <2>2, <2>5
    <3> QED
      BY <2>2, <2>4, <3>1 DEF Alone
  <2>6. CASE stalled # <<>>
    <3>1. Len(calls') = 1 /\ calls'[1].item = Head(stalled')
      BY <2>1, <2>2, <2>6
    <3>2. \A k \in 1 .. Len(calls') : stalled' # <<>> /\ calls'[k].item = Head(stalled')
      BY <2>2, <2>6, <3>1
    <3> QED
      BY <2>2, <2>4, <3>1, <3>2 DEF Alone
  <2> QED
    BY <2>5, <2>6
<1>5. CASE DeliverAccepted
  <2>1. calls' = Pop /\ Retryings' = Retryings
    BY <1>5, DeliverAcceptedCounts
  <2>2. Len(calls') = 0
    BY <1>5, <2>1, OneActivation DEF DeliverAccepted
  <2>3. retryEid' = retryEid
    BY <1>5 DEF DeliverAccepted
  <2> QED
    BY <1>0, <2>1, <2>2, <2>3 DEF Alone
<1>6. CASE DeliverStalled
  <2>1. calls' = Pop /\ Retryings' = Retryings + (IF retryEid THEN 0 ELSE 1)
    BY <1>6, DeliverStalledCounts
  <2>2. Len(calls') = 0
    BY <1>6, <2>1, OneActivation DEF DeliverStalled
  <2>3. retryEid' = TRUE
    BY <1>6 DEF DeliverStalled
  <2>4. Retryings' = 1
    BY <1>0, <2>1
  <2> QED
    BY <2>2, <2>3, <2>4 DEF Alone
<1>7. CASE RetryAccepted
  <2>1. /\ Retryings' = Retryings
        /\ \/ calls' = Pop
           \/ /\ stalled' # <<>>
              /\ Len(calls') = Len(calls)
              /\ calls'[Len(calls)].item = Head(stalled')
    BY <1>7, RetryAcceptedCounts
  <2>2. /\ Len(calls) = 1 /\ Len(Pop) = 0 /\ calls[1].run = "retry"
    BY <1>7, OneActivation DEF RetryAccepted
  <2>3. retryEid' = retryEid /\ ~retryEid
    BY <1>7, <2>2 DEF RetryAccepted, Alone
  <2>4. CASE calls' = Pop
    BY <1>0, <2>1, <2>2, <2>3, <2>4 DEF Alone
  <2>5. CASE stalled' # <<>> /\ Len(calls') = 1 /\ calls'[1].item = Head(stalled')
    <3>1. \A k \in 1 .. Len(calls') : calls'[k].item = Head(stalled')
      BY <2>5
    <3> QED
      BY <1>0, <2>1, <2>3, <2>5, <3>1 DEF Alone
  <2> QED
    BY <2>1, <2>2, <2>4, <2>5
<1>8. CASE RetryStalled
  <2>1. calls' = Pop /\ Retryings' = Retryings + 1
    BY <1>8, RetryStalledCounts
  <2>2. /\ Len(calls) = 1 /\ Len(calls') = 0 /\ calls[1].run = "retry"
    BY <1>8, <2>1, OneActivation DEF RetryStalled
  <2>3. retryEid' = TRUE /\ ~retryEid
    BY <1>8, <2>2 DEF RetryStalled, Alone
  <2>4. Retryings' = 1
    BY <1>0, <2>1, <2>3
  <2> QED
    BY <2>2, <2>3, <2>4 DEF Alone
<1>9. CASE ConsumerFails
  <2>1. calls' = Pop /\ Retryings' = Retryings
    BY <1>9, ConsumerFailsCounts
  <2>2. Len(calls') = 0 /\ retryEid' = retryEid
    BY <1>9, <2>1, OneActivation DEF ConsumerFails
  <2> QED
    BY <1>0, <2>1, <2>2 DEF Alone
<1>10. CASE UNCHANGED vars
  BY <1>10 DEF vars, Alone, Retryings
<1> QED
  BY <1>1, <1>2, <1>3, <1>4, <1>5, <1>6, <1>7, <1>8, <1>9, <1>10
     DEF Next, EventStarts, ConsumerAccepts, ConsumerStalls

LEMMA RetriedStep ==
    ASSUME ~ConsumerSteps, ~ConsumerRaises, Sane, Alone, Retried, [Next]_vars
    PROVE  Retried'
<1>1. CASE UNCHANGED <<calls, stalled, retryEid>>
  BY <1>1 DEF Retried
<1>2. CASE DeliverStarts
  <2>1. calls = <<>> /\ retryEid' = retryEid /\ stalled' = stalled
    BY <1>2, NoActivation DEF DeliverStarts
  <2> QED
    BY <2>1 DEF Retried
<1>3. CASE RetryStarts
  <2>1. Len(calls) = 0 /\ stalled' = stalled
    BY <1>3, NoActivation DEF RetryStarts
  <2>2. CASE stalled # <<>>
    <3>1. Len(calls') = 1 /\ calls'[1].run = "retry"
      BY <1>3, <2>1, <2>2, RetryStartsCounts
    <3> QED
      BY <3>1 DEF Retried
  <2> QED
    BY <2>1, <2>2 DEF Retried
<1>4. CASE DeliverAccepted
  <2>1. Len(calls) = 1 /\ calls[1].run = "deliver"
    BY <1>4, OneActivation DEF DeliverAccepted
  <2>2. retryEid' = retryEid /\ stalled' = stalled
    BY <1>4 DEF DeliverAccepted
  <2>3. stalled # <<>> => retryEid
    BY <2>1 DEF Retried
  <2> QED
    BY <2>2, <2>3 DEF Retried
<1>5. CASE DeliverStalled \/ RetryStalled
  BY <1>5 DEF DeliverStalled, RetryStalled, Retried
<1>6. CASE RetryAccepted
  <2>1. Len(calls) = 1 /\ calls[1].run = "retry"
    BY <1>6, OneActivation DEF RetryAccepted
  <2>2. stalled # <<>>
    BY <2>1 DEF Alone
  <2>3. \/ stalled' = <<>>
        \/ Len(calls') = 1 /\ calls'[1].run = "retry"
    BY <1>6, <2>1, <2>2, RetryAcceptedCounts
  <2> QED
    BY <2>3 DEF Retried
<1>7. ~ConsumerFails
  BY DEF ConsumerFails
<1> QED
  BY <1>1, <1>2, <1>3, <1>4, <1>5, <1>6, <1>7
     DEF Next, EventStarts, ConsumerAccepts, ConsumerStalls, Put, TimePasses, vars

LEMMA AloneInit ==
    ASSUME Init
    PROVE  Alone /\ Retried
<1>1. Retryings = 0
  BY SlottedInit DEF Init, Retryings
<1> QED
  BY <1>1 DEF Init, Alone, Retried

\* With a consumer that neither raises nor steps the simulator, one retry is
\* scheduled exactly when _retry_eid says so, and stalled items are retried.
THEOREM RetryCorrect ==
    ~ConsumerSteps /\ ~ConsumerRaises => (Spec => []RetryScheduled)
<1> SUFFICES ASSUME ~ConsumerSteps, ~ConsumerRaises
             PROVE  Spec => []RetryScheduled
  OBVIOUS
<1> DEFINE RetryInv == Slotted /\ Alone /\ Retried
<1>1. Init => RetryInv
  BY SlottedInit, AloneInit
<1>2. RetryInv /\ [Next]_vars => RetryInv'
  BY SlottedStep, AloneStep, RetriedStep DEF Slotted
<1>3. RetryInv => RetryScheduled
  <2> SUFFICES ASSUME RetryInv PROVE RetryScheduled
    OBVIOUS
  <2>1. /\ Sane /\ retryEid \in BOOLEAN /\ Cardinality(Retries) = Retryings
        /\ agenda \in Seq(Event) /\ calls \in Seq(Call)
    BY CountTypes DEF Slotted, Sane
  <2>2. Cardinality(Retries) = (IF retryEid THEN 1 ELSE 0)
    BY <2>1 DEF Alone
  <2>3. ASSUME stalled # <<>> PROVE Retries # {} \/ Offered("retry") # {}
    <3>1. CASE retryEid
      <4>1. Cardinality(Retries) = 1
        BY <2>1, <3>1 DEF Alone
      <4>2. Retries # {}
        BY <4>1, FS_EmptySet
      <4> QED
        BY <4>2
    <3>2. CASE ~retryEid
      BY <2>1, <2>3, <3>2 DEF Retried, Offered
    <3> QED
      BY <3>1, <3>2
  <2> QED
    BY <2>2, <2>3 DEF RetryScheduled, StalledRetried
<1> HIDE DEF RetryInv
<1> QED
  BY <1>1, <1>2, <1>3, PTL DEF Spec

-----------------------------------------------------------------------------
(* The stage that clients see.                                             *)

\* The items that occupy the stage for its clients.
Inside == ItemsOf(entered) \ ItemsOf(accepted)

\* An item is put once, and is in at most one place: on its way, stalled,
\* offered on arrival, or accepted.
OnePlace ==
    \A i \in Items :
        /\ Carried(i) + Count(stalled, {i}) + OfferedOf(i) + Count(accepted, {i})
             <= Count(entered, {i})
        /\ Count(entered, {i}) <= 1

LEMMA ItemCounts ==
    ASSUME NEW s \in Seq(Items), NEW i
    PROVE  /\ Count(s, {i}) \in Nat
           /\ Count(s, {i}) = 0 <=> i \notin ItemsOf(s)
           /\ \A j \in Items :
                 /\ Count(Append(s, j), {i}) = Count(s, {i}) + (IF j = i THEN 1 ELSE 0)
                 /\ ItemsOf(Append(s, j)) = ItemsOf(s) \cup {j}
<1>1. /\ Count(s, {i}) \in Nat
      /\ Count(s, {i}) = 0 <=> \A k \in DOMAIN s : s[k] \notin {i}
  BY CountFacts
<1>2. ASSUME NEW j \in Items
      PROVE  /\ Count(Append(s, j), {i}) = Count(s, {i}) + (IF j = i THEN 1 ELSE 0)
             /\ ItemsOf(Append(s, j)) = ItemsOf(s) \cup {j}
  <2>1. Count(Append(s, j), {i}) = Count(s, {i}) + (IF j \in {i} THEN 1 ELSE 0)
    BY CountAppend
  <2>2. /\ DOMAIN Append(s, j) = DOMAIN s \cup {Len(s) + 1}
        /\ \A k \in DOMAIN s : Append(s, j)[k] = s[k]
        /\ Append(s, j)[Len(s) + 1] = j
    OBVIOUS
  <2>3. ItemsOf(Append(s, j)) = ItemsOf(s) \cup {j}
    BY <2>2 DEF ItemsOf
  <2> QED
    BY <2>1, <2>3
<1> QED
  BY <1>1, <1>2 DEF ItemsOf

LEMMA OnePlaceStep ==
    ASSUME ~ConsumerSteps, Slotted, Alone, OnePlace, [Next]_vars
    PROVE  OnePlace'
<1>0. /\ Sane /\ entered \in Seq(Items) /\ accepted \in Seq(Items)
      /\ stalled \in Seq(Items)
  BY DEF Slotted, Sane
<1> SUFFICES ASSUME NEW i \in Items
             PROVE  /\ Carried(i)' + Count(stalled', {i}) + OfferedOf(i)'
                         + Count(accepted', {i}) <= Count(entered', {i})
                    /\ Count(entered', {i}) <= 1
  BY DEF OnePlace
<1>a. /\ Carried(i) \in Nat /\ OfferedOf(i) \in Nat /\ Count(stalled, {i}) \in Nat
      /\ Count(accepted, {i}) \in Nat /\ Count(entered, {i}) \in Nat
      /\ Carried(i) + Count(stalled, {i}) + OfferedOf(i) + Count(accepted, {i})
           <= Count(entered, {i})
      /\ Count(entered, {i}) <= 1
  BY <1>0, CountTypes, ItemCounts DEF OnePlace
<1>1. ASSUME NEW item \in Items, Put(item)
      PROVE  /\ Carried(i)' + Count(stalled', {i}) + OfferedOf(i)'
                  + Count(accepted', {i}) <= Count(entered', {i})
             /\ Count(entered', {i}) <= 1
  <2>1. /\ Carried(i)' = Carried(i) + (IF i = item THEN 1 ELSE 0)
        /\ OfferedOf(i)' = OfferedOf(i)
    BY <1>0, <1>1, PutCounts
  <2>2. stalled' = stalled /\ accepted' = accepted
        /\ entered' = Append(entered, item) /\ item \notin ItemsOf(entered)
    BY <1>1 DEF Put
  <2>3. /\ Count(entered', {i}) = Count(entered, {i}) + (IF item = i THEN 1 ELSE 0)
        /\ item = i => Count(entered, {i}) = 0
    BY <1>0, <2>2, ItemCounts, ZenonT(40)
  <2>4. CASE item = i
    BY <1>a, <2>1, <2>2, <2>3, <2>4
  <2>5. CASE item # i
    BY <1>a, <2>1, <2>2, <2>3, <2>5
  <2> QED
    BY <2>4, <2>5
<1>2. CASE TimePasses
  BY <1>0, <1>a, <1>2, TimeCounts DEF TimePasses
<1>3. CASE DeliverStarts
  <2>1. Carried(i)' - Carried(i) = OfferedOf(i) - OfferedOf(i)' /\ Sane'
    BY <1>0, <1>3, DeliverStartsCounts
  <2>2. /\ stalled' = stalled /\ accepted' = accepted /\ entered' = entered
    BY <1>3 DEF DeliverStarts
  <2>3. agenda' \in Seq(Event) /\ calls' \in Seq(Call)
    BY <2>1 DEF Sane
  <2>4. Carried(i)' \in Nat /\ OfferedOf(i)' \in Nat
    BY <2>3, CountFacts DEF Carried, OfferedOf
  <2> QED
    BY <1>a, <2>1, <2>2, <2>4
<1>4. CASE RetryStarts
  <2>1. Carried(i)' = Carried(i) /\ OfferedOf(i)' = OfferedOf(i)
    BY <1>0, <1>4, RetryStartsCounts
  <2> QED
    BY <1>a, <1>4, <2>1 DEF RetryStarts
<1>5. CASE DeliverAccepted
  <2>1. /\ Carried(i)' = Carried(i) /\ stalled' = stalled
        /\ OfferedOf(i)' = OfferedOf(i) - (IF i = Top.item THEN 1 ELSE 0)
    BY <1>0, <1>5, DeliverAcceptedCounts
  <2>2. entered' = entered /\ accepted' = Append(accepted, Top.item)
        /\ Top.item \in Items
    BY <1>0, <1>5, TopFacts DEF DeliverAccepted
  <2>3. Count(accepted', {i}) = Count(accepted, {i}) + (IF Top.item = i THEN 1 ELSE 0)
    BY <1>0, <2>2, ItemCounts
  <2>4. CASE Top.item = i
    BY <1>a, <2>1, <2>2, <2>3, <2>4
  <2>5. CASE Top.item # i
    BY <1>a, <2>1, <2>2, <2>3, <2>5
  <2> QED
    BY <2>4, <2>5
<1>6. CASE DeliverStalled
  <2>1. /\ Carried(i)' = Carried(i)
        /\ OfferedOf(i)' = OfferedOf(i) - (IF i = Top.item THEN 1 ELSE 0)
        /\ Count(stalled', {i}) = Count(stalled, {i}) + (IF i = Top.item THEN 1 ELSE 0)
    BY <1>0, <1>6, DeliverStalledCounts
  <2>2. entered' = entered /\ accepted' = accepted
    BY <1>6 DEF DeliverStalled
  <2>4. CASE Top.item = i
    BY <1>a, <2>1, <2>2, <2>4
  <2>5. CASE Top.item # i
    BY <1>a, <2>1, <2>2, <2>5
  <2> QED
    BY <2>4, <2>5
<1>7. CASE RetryAccepted
  <2>1. Len(calls) = 1 /\ Top = calls[1] /\ Top.run = "retry" /\ Top.item \in Items
    BY <1>0, <1>7, OneActivation, TopFacts DEF RetryAccepted
  <2>2. stalled # <<>> /\ Top.item = Head(stalled)
    BY <2>1 DEF Alone
  <2>3. /\ Carried(i)' = Carried(i) /\ OfferedOf(i)' = OfferedOf(i)
        /\ Count(stalled', {i}) = Count(stalled, {i}) - (IF i = Top.item THEN 1 ELSE 0)
    BY <1>0, <1>7, <2>2, RetryAcceptedCounts
  <2>4. entered' = entered /\ accepted' = Append(accepted, Top.item)
    BY <1>7 DEF RetryAccepted
  <2>5. Count(accepted', {i}) = Count(accepted, {i}) + (IF Top.item = i THEN 1 ELSE 0)
    BY <1>0, <2>1, <2>4, ItemCounts, ZenonT(40)
  <2>6. CASE Top.item = i
    BY <1>a, <2>3, <2>4, <2>5, <2>6
  <2>7. CASE Top.item # i
    BY <1>a, <2>3, <2>4, <2>5, <2>7
  <2> QED
    BY <2>6, <2>7
<1>8. CASE RetryStalled
  BY <1>0, <1>a, <1>8, RetryStalledCounts DEF RetryStalled
<1>9. CASE ConsumerFails
  <2>1. /\ Carried(i)' = Carried(i) /\ stalled' = stalled
        /\ OfferedOf(i)' \in {OfferedOf(i), OfferedOf(i) - 1}
    BY <1>0, <1>9, ConsumerFailsCounts
  <2>2. entered' = entered /\ accepted' = accepted
    BY <1>9 DEF ConsumerFails
  <2> QED
    BY <1>a, <2>1, <2>2
<1>10. CASE UNCHANGED vars
  BY <1>a, <1>10 DEF vars, Carried, OfferedOf
<1> QED
  BY <1>1, <1>2, <1>3, <1>4, <1>5, <1>6, <1>7, <1>8, <1>9, <1>10
     DEF Next, EventStarts, ConsumerAccepts, ConsumerStalls

\* What an accepted item was before: put, not accepted yet, and in the stage.
LEMMA AcceptedFacts ==
    ASSUME ~ConsumerSteps, Slotted, Alone, OnePlace, DeliverAccepted \/ RetryAccepted
    PROVE  /\ Top.item \in Items /\ Top.item \in Inside
           /\ inFlight' = inFlight - 1
           /\ entered' = entered /\ accepted' = Append(accepted, Top.item)
           /\ Inside' = Inside \ {Top.item}
<1> DEFINE i == Top.item
<1>0. /\ Sane /\ entered \in Seq(Items) /\ accepted \in Seq(Items)
      /\ stalled \in Seq(Items) /\ calls # <<>>
  BY DEF Slotted, Sane, DeliverAccepted, RetryAccepted
<1>1. i \in Items
  BY <1>0, TopFacts
<1>2. entered' = entered /\ accepted' = Append(accepted, i)
  BY DEF DeliverAccepted, RetryAccepted
<1>3. /\ Carried(i) \in Nat /\ OfferedOf(i) \in Nat /\ Count(stalled, {i}) \in Nat
      /\ Count(accepted, {i}) \in Nat /\ Count(entered, {i}) \in Nat
  BY <1>0, CountTypes, ItemCounts
<1>4. /\ Carried(i) + Count(stalled, {i}) + OfferedOf(i) + Count(accepted, {i})
           <= Count(entered, {i})
      /\ Count(entered, {i}) <= 1
  BY <1>1 DEF OnePlace
<1>5. OfferedOf(i) >= 1 \/ Count(stalled, {i}) >= 1
  <2>1. CASE DeliverAccepted
    <3>1. Count(Pop, Offering(i)) = OfferedOf(i) - 1
      BY <1>0, <2>1, TopFacts DEF DeliverAccepted
    <3>2. Count(Pop, Offering(i)) \in Nat
      BY <1>0, TopFacts, CountFacts
    <3> QED
      BY <1>3, <3>1, <3>2
  <2>2. CASE RetryAccepted
    <3>1. stalled # <<>> /\ i = Head(stalled)
      BY <1>0, <2>2, OneActivation DEF RetryAccepted, Alone
    <3>2. 1 \in DOMAIN stalled /\ i = stalled[1]
      BY <1>0, <3>1
    <3>3. i \in ItemsOf(stalled)
      BY <3>2 DEF ItemsOf
    <3>4. Count(stalled, {i}) # 0
      BY <1>0, <3>3, ItemCounts
    <3> QED
      BY <1>3, <3>4
  <2> QED
    BY <2>1, <2>2
<1>6. Count(accepted, {i}) = 0 /\ Count(entered, {i}) # 0
  BY <1>3, <1>4, <1>5
<1>7. i \in Inside
  BY <1>0, <1>6, ItemCounts DEF Inside
<1>8. inFlight' = inFlight - 1
  <2>1. CASE DeliverAccepted
    BY <2>1 DEF DeliverAccepted
  <2>2. CASE RetryAccepted
    <3>1. stalled # <<>>
      BY <1>0, <2>2, OneActivation DEF RetryAccepted, Alone
    <3> QED
      BY <2>2, <3>1 DEF RetryAccepted
  <2> QED
    BY <2>1, <2>2
<1>9. ItemsOf(accepted') = ItemsOf(accepted) \cup {i}
  BY <1>0, <1>1, <1>2, ItemCounts
<1>10. Inside' = Inside \ {i}
  BY <1>2, <1>9 DEF Inside
<1> QED
  BY <1>1, <1>2, <1>7, <1>8, <1>10

\* What a put item was before: nowhere.
LEMMA PutFacts ==
    ASSUME Slotted, OnePlace, NEW item \in Items, Put(item)
    PROVE  /\ item \notin ItemsOf(entered) /\ item \notin ItemsOf(accepted)
           /\ inFlight < Slots /\ inFlight' = inFlight + 1
           /\ accepted' = accepted
           /\ Inside' = Inside \cup {item}
<1>1. /\ entered \in Seq(Items) /\ accepted \in Seq(Items) /\ stalled \in Seq(Items)
      /\ Sane
  BY DEF Slotted, Sane
<1>2. /\ item \notin ItemsOf(entered) /\ inFlight < Slots
      /\ inFlight' = inFlight + 1 /\ accepted' = accepted
      /\ entered' = Append(entered, item)
  BY DEF Put
<1>3. Count(entered, {item}) = 0
  BY <1>1, <1>2, ItemCounts
<1>4. /\ Carried(item) \in Nat /\ OfferedOf(item) \in Nat
      /\ Count(stalled, {item}) \in Nat /\ Count(accepted, {item}) \in Nat
      /\ Carried(item) + Count(stalled, {item}) + OfferedOf(item)
           + Count(accepted, {item}) <= Count(entered, {item})
  BY <1>1, CountTypes, ItemCounts DEF OnePlace
<1>5. Count(accepted, {item}) = 0
  BY <1>3, <1>4
<1>6. item \notin ItemsOf(accepted)
  BY <1>1, <1>5, ItemCounts
<1>7. ItemsOf(entered') = ItemsOf(entered) \cup {item}
  BY <1>1, <1>2, ItemCounts
<1> QED
  BY <1>2, <1>6, <1>7 DEF Inside

\* The items inside never outnumber the slots in use.
Fits == IsFiniteSet(Inside) /\ Cardinality(Inside) <= inFlight

StageInv == Slotted /\ Alone /\ OnePlace /\ Fits

LEMMA FitsStep ==
    ASSUME ~ConsumerSteps, Slotted, Alone, OnePlace, Fits, [Next]_vars
    PROVE  Fits'
<1>0. inFlight \in Int /\ IsFiniteSet(Inside) /\ Cardinality(Inside) \in Nat
      /\ Cardinality(Inside) <= inFlight
  BY FS_CardinalityType DEF Slotted, Fits
<1>1. ASSUME NEW item \in Items, Put(item) PROVE Fits'
  <2>1. Inside' = Inside \cup {item} /\ inFlight' = inFlight + 1
    BY <1>1, PutFacts
  <2>2. /\ IsFiniteSet(Inside \cup {item})
        /\ Cardinality(Inside \cup {item})
             = IF item \in Inside THEN Cardinality(Inside) ELSE Cardinality(Inside) + 1
    BY <1>0, FS_AddElement
  <2>3. Cardinality(Inside \cup {item}) <= inFlight + 1
    BY <1>0, <2>2
  <2> QED
    BY <2>1, <2>2, <2>3 DEF Fits
<1>2. CASE DeliverAccepted \/ RetryAccepted
  <2>1. /\ Top.item \in Inside /\ inFlight' = inFlight - 1
        /\ Inside' = Inside \ {Top.item}
    BY <1>2, AcceptedFacts
  <2>2. /\ IsFiniteSet(Inside \ {Top.item})
        /\ Cardinality(Inside \ {Top.item}) = Cardinality(Inside) - 1
    BY <1>0, <2>1, FS_RemoveElement
  <2>3. Cardinality(Inside \ {Top.item}) <= inFlight - 1
    BY <1>0, <2>2
  <2> QED
    BY <2>1, <2>2, <2>3 DEF Fits
<1>3. CASE UNCHANGED <<inFlight, entered, accepted>>
  BY <1>3 DEF Fits, Inside
<1> QED
  BY <1>1, <1>2, <1>3
     DEF Next, EventStarts, ConsumerAccepts, ConsumerStalls, TimePasses,
         DeliverStarts, RetryStarts, DeliverStalled, RetryStalled,
         ConsumerFails, vars

LEMMA StageInvInit ==
    ASSUME Init
    PROVE  StageInv
<1>1. \A W : Count(<<>>, W) = 0
  BY SlottedInit
<1>2. OnePlace
  <2> SUFFICES ASSUME NEW i \in Items
               PROVE  /\ Carried(i) + Count(stalled, {i}) + OfferedOf(i)
                           + Count(accepted, {i}) <= Count(entered, {i})
                      /\ Count(entered, {i}) <= 1
    BY DEF OnePlace
  <2>1. /\ Carried(i) = 0 /\ Count(stalled, {i}) = 0 /\ OfferedOf(i) = 0
        /\ Count(accepted, {i}) = 0 /\ Count(entered, {i}) = 0
    BY <1>1 DEF Init, Carried, OfferedOf
  <2> QED
    BY <2>1
<1>3. Inside = {} /\ inFlight = 0
  BY DEF Init, Inside, ItemsOf
<1>4. Fits
  BY <1>3, FS_EmptySet DEF Fits
<1> QED
  BY <1>2, <1>4, SlottedInit, AloneInit DEF StageInv

LEMMA StageCardinality ==
    ASSUME NEW S
    PROVE  StagePromise!Cardinality(S) = Cardinality(S)
  BY DEF StagePromise!Cardinality, Cardinality

\* To its clients the pipe is a stage, even when the consumer raises, as long
\* as it does not step the simulator in the middle of a delivery: what put()
\* takes is one of at most Slots items and is accepted at most once.
THEOREM Refinement == ~ConsumerSteps => (Spec => ImplementsStage)
<1> SUFFICES ASSUME ~ConsumerSteps
             PROVE  Spec => ImplementsStage
  OBVIOUS
<1>1. Init => StagePromise!Init
  BY DEF Init, StagePromise!Init, ItemsOf
<1>2. StageInv /\ [Next]_vars => [StagePromise!Next]_(StagePromise!stageVars)
  <2> SUFFICES ASSUME StageInv, [Next]_vars
               PROVE  StagePromise!Next \/ UNCHANGED <<Inside, accepted>>
    BY DEF StagePromise!stageVars, Inside
  <2>0. Slotted /\ Alone /\ OnePlace /\ IsFiniteSet(Inside)
        /\ Cardinality(Inside) \in Nat /\ Cardinality(Inside) <= inFlight
        /\ inFlight \in Int
    BY FS_CardinalityType DEF StageInv, Fits, Slotted
  <2>1. ASSUME NEW item \in Items, Put(item) PROVE StagePromise!Next
    <3>1. /\ item \notin ItemsOf(entered) /\ item \notin ItemsOf(accepted)
          /\ inFlight < Slots /\ accepted' = accepted
          /\ Inside' = Inside \cup {item}
      BY <2>0, <2>1, PutFacts
    <3>2. Cardinality(Inside) < Slots
      BY <2>0, <3>1, Constants
    <3>3. StagePromise!Put(item)
      BY <3>1, <3>2, StageCardinality DEF StagePromise!Put, ItemsOf, Inside
    <3> QED
      BY <3>3 DEF StagePromise!Next
  <2>2. CASE DeliverAccepted \/ RetryAccepted
    <3>1. /\ Top.item \in Items /\ Top.item \in Inside
          /\ accepted' = Append(accepted, Top.item)
          /\ Inside' = Inside \ {Top.item}
      BY <2>0, <2>2, AcceptedFacts
    <3>2. StagePromise!Take(Top.item)
      BY <3>1 DEF StagePromise!Take, Inside
    <3> QED
      BY <3>1, <3>2 DEF StagePromise!Next
  <2>3. CASE UNCHANGED <<entered, accepted>>
    BY <2>3 DEF Inside
  <2> QED
    BY <2>1, <2>2, <2>3
       DEF Next, EventStarts, ConsumerAccepts, ConsumerStalls, TimePasses,
           DeliverStarts, RetryStarts, DeliverStalled, RetryStalled,
           ConsumerFails, vars
<1>3. StageInv /\ [Next]_vars => StageInv'
  BY SlottedStep, AloneStep, OnePlaceStep, FitsStep DEF StageInv, Slotted
<1>4. Init => StageInv
  BY StageInvInit
<1> QED
  BY <1>1, <1>2, <1>3, <1>4, PTL DEF Spec, ImplementsStage, StagePromise!Spec
=============================================================================
