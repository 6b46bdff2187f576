-------------------------------- MODULE Pipe --------------------------------
(***************************************************************************)
(* The fixed-latency pipeline stage of pyramulator/hardware.py: put() takes*)
(* an item into one of the slots, _deliver() offers it to the consumer     *)
(* after the latency, and items the consumer stalls wait in a queue that   *)
(* one shared _retry() event drains.                                       *)
(*                                                                         *)
(* The consumer is client code that runs in the middle of _deliver() and   *)
(* _retry(); calls holds these unfinished activations.  The consumer may   *)
(* call put().  If ConsumerSteps, it may also step the simulator, as       *)
(* Dram.flush() does, so that further events run before it returns.  If    *)
(* ConsumerRaises, it may raise: an exception of its own, or one that comes*)
(* out of the step() it made.  Otherwise it catches the latter and goes on.*)
(* Time is counted in cycles of the clock.                                 *)
(***************************************************************************)
EXTENDS Agenda

CONSTANTS
    Items,           \* the items put into the stage, each at most once
    Latency,         \* Pipe._latency_cycles
    Slots,           \* Pipe._slots
    ConsumerSteps,   \* may the consumer step the simulator?
    ConsumerRaises,  \* may the consumer raise, or let an exception through?
    MaxCalls         \* bound: the nesting of the stage's activations

ASSUME PipeAssumption ==
    /\ Latency \in Nat \ {0}
    /\ Slots \in Nat \ {0}
    /\ ConsumerSteps \in BOOLEAN
    /\ ConsumerRaises \in BOOLEAN
    /\ MaxCalls \in Nat \ {0}

VARIABLES
    agenda,    \* the scheduled _deliver and _retry events of the stage
    inFlight,  \* Pipe._in_flight
    stalled,   \* Pipe._stalled
    retryEid,  \* Pipe._retry_eid is not None
    calls,     \* the activations waiting for their consumer, innermost last
    entered,   \* history: the items accepted by put(), in order
    accepted   \* history: the items the consumer has accepted, in order

vars == <<agenda, inFlight, stalled, retryEid, calls, entered, accepted>>

Deliver(item) ==
    [due |-> Latency, priority |-> 0, run |-> "deliver", item |-> item]
RetryEvent == [due |-> 1, priority |-> 0, run |-> "retry"]

ItemsOf(s) == {s[k] : k \in DOMAIN s}

Top == calls[Len(calls)]
Pop == SubSeq(calls, 1, Len(calls) - 1)

-----------------------------------------------------------------------------
Init ==
    /\ agenda = <<>>
    /\ inFlight = 0
    /\ stalled = <<>>
    /\ retryEid = FALSE
    /\ calls = <<>>
    /\ entered = <<>>
    /\ accepted = <<>>

\* Mutant of Put: the stage never refuses.
PutUnbounded(item) ==
    /\ item \notin ItemsOf(entered)
    /\ inFlight' = inFlight + 1
    /\ agenda' = Inserted(agenda, Deliver(item))
    /\ entered' = Append(entered, item)
    /\ UNCHANGED <<stalled, retryEid, calls, accepted>>

\* put() by any client, the consumer included; a full stage refuses.
Put(item) ==
    /\ item \notin ItemsOf(entered)
    /\ inFlight < Slots
    /\ inFlight' = inFlight + 1
    /\ agenda' = Inserted(agenda, Deliver(item))
    /\ entered' = Append(entered, item)
    /\ UNCHANGED <<stalled, retryEid, calls, accepted>>

\* Events run while no consumer is active, or when the consumer steps.
EventsMayRun == calls = <<>> \/ (ConsumerSteps /\ Len(calls) < MaxCalls)

\* The events of other components: time passes up to the next event.
TimePasses ==
    /\ EventsMayRun
    /\ agenda # <<>>
    /\ MayElapse(agenda, 1)
    /\ agenda' = Elapsed(agenda, 1)
    /\ UNCHANGED <<inFlight, stalled, retryEid, calls, entered, accepted>>

\* _deliver() starts and calls the consumer.
DeliverStarts ==
    /\ EventsMayRun
    /\ agenda # <<>>
    /\ Head(agenda).run = "deliver"
    /\ agenda' = AfterHead(agenda)
    /\ calls' = Append(calls, [run |-> "deliver", item |-> Head(agenda).item])
    /\ UNCHANGED <<inFlight, stalled, retryEid, entered, accepted>>

\* _retry() starts: it forgets the event and offers the head of the queue.
RetryStarts ==
    /\ EventsMayRun
    /\ agenda # <<>>
    /\ Head(agenda).run = "retry"
    /\ agenda' = AfterHead(agenda)
    /\ retryEid' = FALSE
    /\ calls' = IF stalled = <<>>
                  THEN calls
                  ELSE Append(calls, [run |-> "retry", item |-> Head(stalled)])
    /\ UNCHANGED <<inFlight, stalled, entered, accepted>>

\* The consumer accepts the item _deliver() offered.
DeliverAccepted ==
    /\ calls # <<>>
    /\ Top.run = "deliver"
    /\ accepted' = Append(accepted, Top.item)
    /\ inFlight' = inFlight - 1
    /\ calls' = Pop
    /\ UNCHANGED <<agenda, stalled, retryEid, entered>>

\* Mutants of DeliverStalled: the slot is released, ...
DeliverStalledReleasing ==
    /\ calls # <<>>
    /\ Top.run = "deliver"
    /\ stalled' = Append(stalled, Top.item)
    /\ agenda' = IF retryEid THEN agenda ELSE Inserted(agenda, RetryEvent)
    /\ retryEid' = TRUE
    /\ inFlight' = inFlight - 1
    /\ calls' = Pop
    /\ UNCHANGED <<entered, accepted>>

\* ... every stalled item schedules a retry of its own.
DeliverStalledRescheduling ==
    /\ calls # <<>>
    /\ Top.run = "deliver"
    /\ stalled' = Append(stalled, Top.item)
    /\ agenda' = Inserted(agenda, RetryEvent)
    /\ retryEid' = TRUE
    /\ calls' = Pop
    /\ UNCHANGED <<inFlight, entered, accepted>>

\* The consumer returns False to _deliver(): the item joins the queue.
DeliverStalled ==
    /\ calls # <<>>
    /\ Top.run = "deliver"
    /\ stalled' = Append(stalled, Top.item)
    /\ agenda' = IF retryEid THEN agenda ELSE Inserted(agenda, RetryEvent)
    /\ retryEid' = TRUE
    /\ calls' = Pop
    /\ UNCHANGED <<inFlight, entered, accepted>>

\* Mutant of RetryAccepted: the queue is popped at the wrong end.
RetryAcceptedPoppingLast ==
    /\ calls # <<>>
    /\ Top.run = "retry"
    /\ accepted' = Append(accepted, Top.item)
    /\ IF stalled = <<>>
         THEN /\ calls' = Pop
              /\ UNCHANGED <<stalled, inFlight>>
         ELSE /\ stalled' = SubSeq(stalled, 1, Len(stalled) - 1)
              /\ inFlight' = inFlight - 1
              /\ calls' = IF stalled' = <<>>
                            THEN Pop
                            ELSE Append(Pop, [run |-> "retry",
                                              item |-> Head(stalled')])
    /\ UNCHANGED <<agenda, retryEid, entered>>

\* The consumer accepts the item _retry() offered: the head of the queue is
\* removed and the loop goes on with the next.  popleft() on a queue that
\* nested events emptied raises IndexError, which ends this activation and
\* comes out of the step() of the consumer around it: whether that one
\* catches it or fails as well (ConsumerFails) is its next step.
RetryAccepted ==
    /\ calls # <<>>
    /\ Top.run = "retry"
    /\ accepted' = Append(accepted, Top.item)
    /\ IF stalled = <<>>
         THEN /\ calls' = Pop
              /\ UNCHANGED <<stalled, inFlight>>
         ELSE /\ stalled' = Tail(stalled)
              /\ inFlight' = inFlight - 1
              /\ calls' = IF stalled' = <<>>
                            THEN Pop
                            ELSE Append(Pop, [run |-> "retry",
                                              item |-> Head(stalled')])
    /\ UNCHANGED <<agenda, retryEid, entered>>

\* Mutant of RetryStalled: the retry is not scheduled again.
RetryStalledForgetting ==
    /\ calls # <<>>
    /\ Top.run = "retry"
    /\ calls' = Pop
    /\ UNCHANGED <<agenda, inFlight, stalled, retryEid, entered, accepted>>

\* The consumer returns False to _retry(), which tries again next cycle.
RetryStalled ==
    /\ calls # <<>>
    /\ Top.run = "retry"
    /\ agenda' = Inserted(agenda, RetryEvent)
    /\ retryEid' = TRUE
    /\ calls' = Pop
    /\ UNCHANGED <<inFlight, stalled, entered, accepted>>

\* The consumer raises, or lets an exception of the step() it made through,
\* and with it the activation that called it.
ConsumerFails ==
    /\ ConsumerRaises
    /\ calls # <<>>
    /\ calls' = Pop
    /\ UNCHANGED <<agenda, inFlight, stalled, retryEid, entered, accepted>>

ConsumerAccepts == DeliverAccepted \/ RetryAccepted
ConsumerStalls == DeliverStalled \/ RetryStalled
EventStarts == TimePasses \/ DeliverStarts \/ RetryStarts

Next ==
    \/ \E item \in Items : Put(item)
    \/ EventStarts
    \/ ConsumerAccepts
    \/ ConsumerStalls
    \/ ConsumerFails

Spec == Init /\ [][Next]_vars

(***************************************************************************)
(* The simulator runs on (run_until_idle), and a consumer that is offered  *)
(* items again and again accepts again and again: "a consumer that never   *)
(* accepts stalls the stage forever" (hardware.py:146).                    *)
(***************************************************************************)
FairSpec ==
    /\ Spec
    /\ WF_vars(EventStarts)
    /\ WF_vars(ConsumerAccepts \/ ConsumerStalls)
    /\ SF_vars(ConsumerAccepts)

-----------------------------------------------------------------------------
TypeOK ==
    /\ \A k \in DOMAIN agenda :
          /\ agenda[k].due \in 0 .. Latency
          /\ agenda[k].run \in {"deliver", "retry"}
    /\ inFlight \in 0 .. Slots
    /\ stalled \in Seq(Items)
    /\ retryEid \in BOOLEAN
    /\ \A k \in DOMAIN calls : /\ calls[k].run \in {"deliver", "retry"}
                               /\ calls[k].item \in Items
    /\ entered \in Seq(Items)
    /\ accepted \in Seq(Items)

Travelling == {k \in DOMAIN agenda : agenda[k].run = "deliver"}
Retries == {k \in DOMAIN agenda : agenda[k].run = "retry"}
Offered(run) == {k \in DOMAIN calls : calls[k].run = run}

\* A slot is held for exactly the items on their way to the consumer, offered
\* to it or stalled by it: none leaks and none is released early, so put()
\* refuses exactly when the stage is full.
SlotsMatchItems ==
    inFlight = Cardinality(Travelling) + Len(stalled)
               + Cardinality(Offered("deliver"))

\* Whatever the consumer does, raise or step the simulator, a slot is never
\* released while its item still needs it: put() never lets in one too many.
SlotsNotReleasedEarly ==
    /\ inFlight >= Cardinality(Travelling) + Len(stalled)
                   + Cardinality(Offered("deliver"))
    /\ inFlight <= Slots

\* "Delivery is retried every cycle until accepted" (hardware.py:144): while
\* items are stalled, a retry is scheduled or at work.
StalledRetried == stalled # <<>> => Retries # {} \/ Offered("retry") # {}

\* The shared retry event: one is scheduled exactly when _retry_eid says so,
\* never two, although every stalled item asks for it, and never none while
\* items wait for it.
RetryScheduled ==
    /\ Cardinality(Retries) = (IF retryEid THEN 1 ELSE 0)
    /\ StalledRetried

\* a comes before b in the sequence s.
Precedes(s, a, b) == \E j, k \in DOMAIN s : j < k /\ s[j] = a /\ s[k] = b

\* A stalled item leaves only after the items that stalled before it: the
\* retry loop keeps the order of the queue, whatever else is delivered.
StalledLeaveInOrder ==
    [][\A a, b \in Items :
          Precedes(stalled, a, b) /\ b \notin ItemsOf(stalled')
              => a \notin ItemsOf(stalled')]_vars

\* "Delivery is retried every cycle until accepted": what put() took is
\* accepted in the end by a consumer that keeps accepting something.
EventuallyAccepted ==
    \A item \in Items :
        item \in ItemsOf(entered) ~> item \in ItemsOf(accepted)

StagePromise ==
    INSTANCE Stage WITH inside <- ItemsOf(entered) \ ItemsOf(accepted),
                        taken <- accepted

\* To its clients the pipe is the stage of module Stage: at most Slots items
\* are inside, and the consumer accepts each of them once.
ImplementsStage == StagePromise!Spec
=============================================================================
