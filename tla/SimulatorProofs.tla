-------------------------- MODULE SimulatorProofs --------------------------
(***************************************************************************)
(* Proofs of the safety properties of Simulator, for every value of its    *)
(* constants.  Each invariant is inductive given those proved before it.   *)
(***************************************************************************)
EXTENDS Simulator, TLAPS, FiniteSetTheorems, SequenceTheorems

Entry == [time : Times, priority : Priorities, cancelled : BOOLEAN]
Firing == [id : 0 .. seq - 1, known : 0 .. seq]
Frame == RunFrame \cup CallbackFrame

-----------------------------------------------------------------------------
(* The call stack.                                                         *)

\* Leaving the innermost frame: what is left is the stack below it.
LEMMA PopLemma ==
    ASSUME NEW S, NEW s \in Seq(S), s # <<>>
    PROVE  /\ SubSeq(s, 1, Len(s) - 1) \in Seq(S)
           /\ Len(SubSeq(s, 1, Len(s) - 1)) = Len(s) - 1
           /\ \A m \in 1 .. Len(s) - 1 : SubSeq(s, 1, Len(s) - 1)[m] = s[m]
           /\ s[Len(s)] \in S
           /\ Len(s) \in Nat \ {0}
<1>1. Len(s) \in Nat \ {0}
  BY EmptySeq, LenProperties
<1>2. \A m \in 1 .. Len(s) : s[m] \in S
  BY ElementOfSeq
<1> DEFINE n == Len(s) - 1
<1>a. 1 \in Int /\ n \in Int /\ \A m \in 1 .. n : s[m] \in S
  BY <1>1, <1>2
<1>3. SubSeq(s, 1, Len(s) - 1) \in Seq(S)
  BY <1>a, SubSeqProperties
<1>4. Len(SubSeq(s, 1, Len(s) - 1)) = Len(s) - 1
  <2>1. CASE Len(s) = 1
    BY <2>1, SubSeqEmpty, EmptySeq
  <2>2. CASE Len(s) > 1
    BY <1>1, <1>2, <2>2, SubSeqProperties
  <2>3. QED
    BY <1>1, <2>1, <2>2
<1>5. \A m \in 1 .. Len(s) - 1 : SubSeq(s, 1, Len(s) - 1)[m] = s[m]
  BY <1>1, <1>2, SubSeqProperties
<1>6. QED
  BY <1>1, <1>2, <1>3, <1>4, <1>5

\* Entering a frame: it is the last one and the others stay.
LEMMA PushLemma ==
    ASSUME NEW S, NEW s \in Seq(S), NEW e \in S
    PROVE  /\ Append(s, e) \in Seq(S)
           /\ Len(Append(s, e)) = Len(s) + 1
           /\ \A m \in 1 .. Len(s) : Append(s, e)[m] = s[m]
           /\ Append(s, e)[Len(s) + 1] = e
           /\ Len(s) \in Nat
  OBVIOUS

-----------------------------------------------------------------------------
(* Type correctness.                                                       *)

LEMMA InitTypeOK == Init => TypeOK
<1>1. ASSUME Init
      PROVE  TypeOK
  <2>1. 0 .. seq - 1 = {} /\ seq = 0
    BY <1>1 DEF Init
  <2>2. event \in [{} -> Entry]
    BY <1>1 DEF Init
  <2>3. stack \in Seq(Frame) /\ fired \in Seq(Firing)
    BY <1>1 DEF Init
  <2>4. event \in [0 .. seq - 1 -> Entry]
    BY <2>1, <2>2
  <2>5. now \in Times /\ seq \in 0 .. MaxEvents
    BY <1>1, BoundsAssumption DEF Init, Times
  <2>6. heap = {} /\ byId = {} /\ live = 0 /\ processed = 0
    BY <1>1 DEF Init
  <2>7. runUntil = None
    BY <1>1 DEF Init
  <2>8. raising \in BOOLEAN
    BY <1>1, Zenon DEF Init
  <2>9. live \in Int /\ processed \in Nat
    BY <2>6
  <2>10. heap \subseteq 0 .. seq - 1 /\ byId \subseteq 0 .. seq - 1
    BY <2>6
  <2>11. QED
    BY <2>3, <2>4, <2>5, <2>7, <2>8, <2>9, <2>10 DEF TypeOK, Entry, Frame, Firing
<1>2. QED
  BY <1>1

LEMMA PushTypeOK ==
    ASSUME TypeOK, NEW time \in Times, NEW priority \in Priorities,
           Push(time, priority)
    PROVE  TypeOK'
<1> DEFINE e == [time |-> time, priority |-> priority, cancelled |-> FALSE]
<1>1. seq' = seq + 1 /\ seq' \in 0 .. MaxEvents
  BY DEF TypeOK, Push
<1>2. event' \in [0 .. seq' - 1 -> Entry]
  <2>1. e \in Entry
    BY DEF Entry
  <2>2. event' = [i \in 0 .. seq |-> IF i = seq THEN e ELSE event[i]]
    BY DEF Push
  <2>3. event \in [0 .. seq - 1 -> Entry] /\ seq \in Nat
    BY DEF TypeOK, Entry
  <2> HIDE DEF e
  <2>4. QED
    BY <1>1, <2>1, <2>2, <2>3
<1>3. heap' \subseteq 0 .. seq' - 1 /\ byId' \subseteq 0 .. seq' - 1
  BY <1>1 DEF TypeOK, Push
<1>4. fired' \in Seq([id : 0 .. seq' - 1, known : 0 .. seq'])
  <2>1. Firing \subseteq [id : 0 .. seq' - 1, known : 0 .. seq']
    BY <1>1 DEF TypeOK, Firing
  <2>2. fired' = fired /\ fired \in Seq(Firing)
    BY DEF TypeOK, Push, Firing
  <2>3. QED
    BY <2>1, <2>2, SeqMonotonic
<1>5. now' \in Times /\ live' \in Int /\ processed' \in Nat
      /\ runUntil' \in Times \cup {None} /\ raising' \in BOOLEAN
      /\ stack' \in Seq(Frame)
  BY DEF TypeOK, Push, Frame
<1>6. QED
  BY <1>1, <1>2, <1>3, <1>4, <1>5 DEF TypeOK, Entry, Frame

LEMMA FireTypeOK ==
    ASSUME TypeOK, NEW i \in heap, Fire(i)
    PROVE  TypeOK'
<1>1. i \in 0 .. seq - 1 /\ event[i].time \in Times /\ seq \in Nat
  BY DEF TypeOK
<1>2. stack' \in Seq(Frame)
  <2>1. [kind |-> "callback", id |-> i] \in Frame
    BY <1>1 DEF Frame, CallbackFrame
  <2>2. QED
    BY <2>1 DEF Fire, TypeOK, Frame
<1>3. fired' \in Seq(Firing)
  <2>1. [id |-> i, known |-> seq] \in Firing
    BY <1>1 DEF Firing
  <2>2. QED
    BY <2>1 DEF Fire, TypeOK, Firing
<1>4. now' \in Times /\ live' \in Int /\ UNCHANGED <<event, seq>>
  BY <1>1 DEF Fire, TypeOK
<1>5. heap' \subseteq 0 .. seq - 1 /\ byId' \subseteq 0 .. seq - 1
  BY DEF Fire, TypeOK
<1>6. UNCHANGED <<processed, runUntil, raising>>
  BY DEF Fire
<1>7. QED
  BY <1>2, <1>3, <1>4, <1>5, <1>6 DEF TypeOK, Frame, Firing

\* A step of Simulator preserves the type invariant.
LEMMA NextTypeOK ==
    ASSUME TypeOK, [Next]_vars
    PROVE  TypeOK'
<1>1. ASSUME NEW delay \in Times, NEW priority \in Priorities,
             now + delay <= MaxTime, Schedule(delay, priority)
      PROVE  TypeOK'
  <2>1. now + delay \in Times
    BY <1>1 DEF TypeOK, Times
  <2>2. QED
    BY <1>1, <2>1, PushTypeOK DEF Schedule
<1>2. ASSUME NEW time \in Times, NEW priority \in Priorities,
             At(time, priority)
      PROVE  TypeOK'
  BY <1>2, PushTypeOK DEF At
<1>3. ASSUME NEW id \in byId, Cancel(id)
      PROVE  TypeOK'
  <2>1. event \in [0 .. seq - 1 -> Entry] /\ id \in 0 .. seq - 1
    BY DEF TypeOK, Entry
  <2>2. [event[id] EXCEPT !.cancelled = TRUE] \in Entry
    BY <2>1 DEF Entry
  <2>3. event' = [event EXCEPT ![id] = [event[id] EXCEPT !.cancelled = TRUE]]
    BY <1>3 DEF Cancel
  <2>4. event' \in [0 .. seq - 1 -> Entry]
    BY <2>1, <2>2, <2>3
  <2>5. live' \in Int
    BY <1>3 DEF Cancel, TypeOK
  <2>6. QED
    BY <1>3, <2>4, <2>5 DEF TypeOK, Cancel, Entry
<1>4. ASSUME NextTime
      PROVE  TypeOK'
  BY <1>4 DEF TypeOK, NextTime, Peek
<1>5. ASSUME NEW time \in Times, AdvanceTo(time)
      PROVE  TypeOK'
  BY <1>5 DEF TypeOK, AdvanceTo, Peek
<1>6. ASSUME Step
      PROVE  TypeOK'
  BY <1>6, FireTypeOK DEF Step
<1>7. ASSUME NEW until \in Times \cup {None}, NEW limit \in Limits \cup {None},
             Run(until, limit)
      PROVE  TypeOK'
  <2>1. [kind |-> "run", until |-> until, limit |-> limit,
         start |-> processed, prevUntil |-> runUntil] \in Frame
    BY DEF Frame, RunFrame, TypeOK
  <2>2. stack' \in Seq(Frame)
    BY <1>7, <2>1 DEF Run, TypeOK, Frame
  <2>3. QED
    BY <1>7, <2>2 DEF Run, TypeOK, Frame
<1>8. ASSUME RunFire
      PROVE  TypeOK'
  BY <1>8, FireTypeOK DEF RunFire
<1>9. ASSUME LeaveRun, stack # <<>>, Top.kind = "run",
             heap' \subseteq heap, byId' \subseteq byId
      PROVE  TypeOK'
  <2>1. Top \in Frame /\ stack' \in Seq(Frame)
    BY <1>9, PopLemma DEF LeaveRun, Top, Pop, TypeOK, Frame
  <2>2. Top \in RunFrame
    BY <1>9, <2>1 DEF Frame, RunFrame, CallbackFrame
  <2>3. Top.prevUntil \in Times \cup {None}
    BY <2>2 DEF RunFrame
  <2>4. QED
    BY <1>9, <2>1, <2>3 DEF LeaveRun, TypeOK, Frame
<1>10. ASSUME RunEndAtLimit
       PROVE  TypeOK'
  BY <1>9, <1>10 DEF RunEndAtLimit, InRun
<1>11. ASSUME RunEnd
       PROVE  TypeOK'
  BY <1>9, <1>11 DEF RunEnd, InRun, Peek
<1>12. ASSUME UnwindRun
       PROVE  TypeOK'
  BY <1>9, <1>12 DEF UnwindRun
<1>13. ASSUME Return
       PROVE  TypeOK'
  <2>1. stack' \in Seq(Frame)
    BY <1>13, PopLemma DEF Return, InCallback, Pop, TypeOK, Frame
  <2>2. QED
    BY <1>13, <2>1 DEF Return, TypeOK, Frame
<1>14. ASSUME Raise
       PROVE  TypeOK'
  <2>1. stack' \in Seq(Frame)
    BY <1>14, PopLemma DEF Raise, InCallback, Pop, TypeOK, Frame
  <2>2. QED
    BY <1>14, <2>1 DEF Raise, TypeOK, Frame
<1>15. ASSUME Catch
       PROVE  TypeOK'
  BY <1>15 DEF Catch, TypeOK
<1>16. ASSUME UNCHANGED vars
       PROVE  TypeOK'
  BY <1>16 DEF vars, TypeOK
<1>17. QED
  BY <1>1, <1>2, <1>3, <1>4, <1>5, <1>6, <1>7, <1>8, <1>10, <1>11, <1>12,
     <1>13, <1>14, <1>15, <1>16
  DEF Next, ClientCall, Kernel, EndCallback

\* Every state of the simulator is well typed, at every depth of nested runs.
THEOREM TypeCorrect == Spec => []TypeOK
<1>1. Init => TypeOK
  BY InitTypeOK
<1>2. TypeOK /\ [Next]_vars => TypeOK'
  BY NextTypeOK
<1>3. QED
  BY <1>1, <1>2, PTL DEF Spec

-----------------------------------------------------------------------------
(* What a step does to the event queue: it schedules an event, cancels one,*)
(* peeks (and time may pass up to the head), fires the head, or leaves the *)
(* queue alone.                                                            *)

PushStep ==
    \E time \in Times, priority \in Priorities :
        time >= now /\ Push(time, priority)

CancelStep == \E id \in byId : Cancel(id)

PeekStep ==
    /\ Peek
    /\ UNCHANGED <<event, seq, live, fired>>
    /\ \/ now' = now
       \/ /\ now' \in Times
          /\ now' >= now
          /\ \A i \in Scheduled : event[i].time >= now'

FireStep == \E i \in heap : IsHead(i) /\ Fire(i)

QuietStep == UNCHANGED <<now, event, heap, byId, seq, live, fired>>

LEMMA QueueSteps ==
    ASSUME TypeOK, [Next]_vars
    PROVE  PushStep \/ CancelStep \/ PeekStep \/ FireStep \/ QuietStep
<1>1. ASSUME NEW delay \in Times, NEW priority \in Priorities,
             now + delay <= MaxTime, Schedule(delay, priority)
      PROVE  PushStep
  <2>1. now + delay \in Times /\ now + delay >= now
    BY <1>1 DEF TypeOK, Times
  <2>2. QED
    BY <1>1, <2>1 DEF Schedule, PushStep
<1>2. ASSUME NEW time \in Times, NEW priority \in Priorities,
             At(time, priority)
      PROVE  PushStep
  BY <1>2 DEF At, PushStep
<1>3. ASSUME NextTime
      PROVE  PeekStep
  BY <1>3 DEF NextTime, PeekStep
<1>4. ASSUME NEW time \in Times, AdvanceTo(time)
      PROVE  PeekStep
  BY <1>4 DEF AdvanceTo, MayAdvanceTo, PeekStep
<1>5. ASSUME Step \/ RunFire
      PROVE  FireStep
  BY <1>5 DEF Step, RunFire, FireStep
<1>6. ASSUME RunEnd
      PROVE  PeekStep
  BY <1>6 DEF RunEnd, LeaveRun, PeekStep
<1>7. ASSUME RunEndAtLimit \/ UnwindRun \/ Return \/ Raise \/ Catch
      PROVE  QuietStep
  BY <1>7 DEF RunEndAtLimit, UnwindRun, LeaveRun, Return, Raise, Catch,
              QuietStep
<1>8. ASSUME NEW until \in Times \cup {None}, NEW limit \in Limits \cup {None},
             Run(until, limit)
      PROVE  QuietStep
  BY <1>8 DEF Run, QuietStep
<1>9. ASSUME UNCHANGED vars
      PROVE  QuietStep
  BY <1>9 DEF vars, QuietStep
<1>10. QED
  BY <1>1, <1>2, <1>3, <1>4, <1>5, <1>6, <1>7, <1>8, <1>9
  DEF Next, ClientCall, Kernel, EndCallback, CancelStep

\* How each of these steps changes the set of scheduled events.
LEMMA ScheduledAfter ==
    ASSUME TypeOK
    PROVE  /\ PushStep => /\ Scheduled' = Scheduled \cup {seq}
                          /\ seq \notin Scheduled
                          /\ \A i \in 0 .. seq - 1 : event'[i] = event[i]
                          /\ event'[seq].time >= now
                          /\ event'[seq].cancelled = FALSE
           /\ \A id \in byId : Cancel(id) =>
                 /\ Scheduled' = Scheduled \ {id}
                 /\ event'[id].cancelled = TRUE
                 /\ \A i \in 0 .. seq - 1 :
                       /\ event'[i].time = event[i].time
                       /\ event'[i].priority = event[i].priority
                       /\ i # id => event'[i].cancelled = event[i].cancelled
           /\ PeekStep => Scheduled' = Scheduled
           /\ \A i \in heap : IsHead(i) /\ Fire(i) =>
                 /\ i \in Scheduled
                 /\ Scheduled' = Scheduled \ {i}
           /\ QuietStep => Scheduled' = Scheduled
<1>1. /\ event \in [0 .. seq - 1 -> Entry]
      /\ heap \subseteq 0 .. seq - 1 /\ byId \subseteq 0 .. seq - 1
      /\ seq \in Nat
  BY DEF TypeOK, Entry
<1>2. ASSUME PushStep
      PROVE  /\ Scheduled' = Scheduled \cup {seq}
             /\ seq \notin Scheduled
             /\ \A i \in 0 .. seq - 1 : event'[i] = event[i]
             /\ event'[seq].time >= now
             /\ event'[seq].cancelled = FALSE
  <2>1. PICK time \in Times, priority \in Priorities :
            time >= now /\ Push(time, priority)
    BY <1>2 DEF PushStep
  <2>2. /\ \A i \in 0 .. seq - 1 : event'[i] = event[i]
        /\ event'[seq] = [time |-> time, priority |-> priority,
                          cancelled |-> FALSE]
        /\ heap' = heap \cup {seq}
    BY <1>1, <2>1 DEF Push
  <2>3. seq \notin heap
    BY <1>1
  <2>4. event'[seq].time = time /\ event'[seq].cancelled = FALSE
    BY <2>2
  <2>5. \A i \in heap' : i = seq \/ (i \in heap /\ event'[i] = event[i])
    BY <1>1, <2>2
  <2>6. Scheduled' = Scheduled \cup {seq}
    BY <2>2, <2>3, <2>4, <2>5 DEF Scheduled
  <2>7. QED
    BY <2>1, <2>2, <2>3, <2>4, <2>6 DEF Scheduled
<1>3. ASSUME NEW id \in byId, Cancel(id)
      PROVE  /\ Scheduled' = Scheduled \ {id}
             /\ event'[id].cancelled = TRUE
             /\ \A i \in 0 .. seq - 1 :
                   /\ event'[i].time = event[i].time
                   /\ event'[i].priority = event[i].priority
                   /\ i # id => event'[i].cancelled = event[i].cancelled
  <2>1. /\ event' = [event EXCEPT ![id].cancelled = TRUE]
        /\ heap' = heap
    BY <1>3 DEF Cancel
  <2>2. /\ event'[id] = [event[id] EXCEPT !.cancelled = TRUE]
        /\ \A i \in (0 .. seq - 1) \ {id} : event'[i] = event[i]
    BY <1>1, <2>1
  <2>3. event[id] \in Entry
    BY <1>1
  <2>4. /\ event'[id].cancelled = TRUE
        /\ event'[id].time = event[id].time
        /\ event'[id].priority = event[id].priority
    BY <2>2, <2>3 DEF Entry
  <2>5. QED
    BY <1>1, <2>1, <2>2, <2>4 DEF Scheduled
<1>4. ASSUME PeekStep
      PROVE  Scheduled' = Scheduled
  BY <1>4 DEF PeekStep, Peek, Scheduled, DeadHeads
<1>5. ASSUME NEW i \in heap, IsHead(i), Fire(i)
      PROVE  i \in Scheduled /\ Scheduled' = Scheduled \ {i}
  BY <1>5 DEF IsHead, Fire, Scheduled, DeadHeads
<1>6. ASSUME QuietStep
      PROVE  Scheduled' = Scheduled
  BY <1>6 DEF QuietStep, Scheduled
<1>7. QED
  BY <1>2, <1>3, <1>4, <1>5, <1>6
-----------------------------------------------------------------------------
(* Nothing is skipped, and the ids match the heap.                         *)

\* No clock movement, by the kernel or by a component, leaves a live event
\* behind, and no client schedules one behind the clock.
LEMMA NothingSkippedStep ==
    ASSUME TypeOK, NothingSkipped, [Next]_vars
    PROVE  NothingSkipped'
<1>1. /\ event \in [0 .. seq - 1 -> Entry] /\ now \in Int /\ seq \in Nat
      /\ Scheduled \subseteq 0 .. seq - 1
      /\ \A i \in Scheduled : event[i].time \in Int
  <2>1. event \in [0 .. seq - 1 -> Entry] /\ now \in Times /\ seq \in Nat
    BY DEF TypeOK, Entry
  <2>2. Scheduled \subseteq 0 .. seq - 1
    BY DEF TypeOK, Scheduled
  <2>3. \A i \in Scheduled : event[i].time \in Times
    BY <2>1, <2>2 DEF Entry
  <2>4. Times \subseteq Int
    BY DEF Times
  <2>5. QED
    BY <2>1, <2>2, <2>3, <2>4
<1>2. CASE PushStep
  <2>1. now' = now
    BY <1>2 DEF PushStep, Push
  <2>2. QED
    BY <1>1, <1>2, <2>1, ScheduledAfter DEF NothingSkipped
<1>3. CASE CancelStep
  <2>1. PICK id \in byId : Cancel(id)
    BY <1>3 DEF CancelStep
  <2>2. now' = now
    BY <2>1 DEF Cancel
  <2>3. QED
    BY <1>1, <2>1, <2>2, ScheduledAfter DEF NothingSkipped
<1>4. CASE PeekStep
  BY <1>4, ScheduledAfter DEF PeekStep, NothingSkipped
<1>5. CASE FireStep
  <2>1. PICK i \in heap : IsHead(i) /\ Fire(i)
    BY <1>5 DEF FireStep
  <2>2. /\ now' = event[i].time /\ event' = event
        /\ i \in Scheduled /\ Scheduled' = Scheduled \ {i}
    BY <2>1, ScheduledAfter DEF Fire
  <2>3. \A j \in Scheduled \ {i} : event[j].time >= event[i].time
    BY <1>1, <2>1, <2>2 DEF IsHead, Before
  <2>4. QED
    BY <2>2, <2>3 DEF NothingSkipped
<1>6. CASE QuietStep
  BY <1>6, ScheduledAfter DEF QuietStep, NothingSkipped
<1>7. QED
  BY <1>2, <1>3, <1>4, <1>5, <1>6, QueueSteps

\* "Time never advances past an event without processing it", for every
\* nesting of run, step and _advance_to.
THEOREM NeverSkips == Spec => []NothingSkipped
<1>1. Init => NothingSkipped
  BY DEF Init, NothingSkipped, Scheduled
<1>2. TypeOK /\ NothingSkipped /\ [Next]_vars => NothingSkipped'
  BY NothingSkippedStep
<1>3. QED
  BY <1>1, <1>2, TypeCorrect, PTL DEF Spec

\* The id table follows the heap through every push, pop and firing.
THEOREM IdsCorrect == Spec => []IdsMatchHeap
<1>1. Init => IdsMatchHeap
  BY DEF Init, IdsMatchHeap
<1>2. TypeOK /\ IdsMatchHeap /\ [Next]_vars => IdsMatchHeap'
  <2> SUFFICES ASSUME TypeOK, IdsMatchHeap, [Next]_vars
               PROVE  IdsMatchHeap'
    OBVIOUS
  <2>1. CASE PushStep
    BY <2>1 DEF PushStep, Push, IdsMatchHeap
  <2>2. CASE CancelStep
    BY <2>2 DEF CancelStep, Cancel, IdsMatchHeap
  <2>3. CASE PeekStep
    BY <2>3 DEF PeekStep, Peek, IdsMatchHeap
  <2>4. CASE FireStep
    BY <2>4 DEF FireStep, Fire, IdsMatchHeap
  <2>5. CASE QuietStep
    BY <2>5 DEF QuietStep, IdsMatchHeap
  <2>6. QED
    BY <2>1, <2>2, <2>3, <2>4, <2>5, QueueSteps
<1>3. QED
  BY <1>1, <1>2, TypeCorrect, PTL DEF Spec

-----------------------------------------------------------------------------
(* The count of live events.                                               *)

LEMMA ScheduledFinite == TypeOK => IsFiniteSet(Scheduled)
<1>1. ASSUME TypeOK
      PROVE  IsFiniteSet(Scheduled)
  <2>1. Scheduled \subseteq 0 .. seq - 1
    BY <1>1 DEF TypeOK, Scheduled
  <2>2. seq \in Nat
    BY <1>1 DEF TypeOK
  <2>3. IsFiniteSet(0 .. seq - 1)
    BY <2>2, FS_Interval
  <2>4. QED
    BY <2>1, <2>3, FS_Subset
<1>2. QED
  BY <1>1

LEMMA LiveCountStep ==
    ASSUME TypeOK, IdsMatchHeap, LiveCountsScheduled, [Next]_vars
    PROVE  LiveCountsScheduled'
<1>1. IsFiniteSet(Scheduled)
  BY ScheduledFinite
<1>2. CASE PushStep
  <2>1. live' = live + 1
    BY <1>2 DEF PushStep, Push
  <2>2. Scheduled' = Scheduled \cup {seq} /\ seq \notin Scheduled
    BY <1>2, ScheduledAfter
  <2>3. Cardinality(Scheduled \cup {seq}) = Cardinality(Scheduled) + 1
    BY <1>1, <2>2, FS_AddElement
  <2>4. QED
    BY <2>1, <2>2, <2>3 DEF LiveCountsScheduled
<1>3. CASE CancelStep
  <2>1. PICK id \in byId : Cancel(id)
    BY <1>3 DEF CancelStep
  <2>2. live' = live - 1 /\ ~event[id].cancelled
    BY <2>1 DEF Cancel
  <2>3. id \in Scheduled
    BY <2>2 DEF IdsMatchHeap, Scheduled
  <2>4. Scheduled' = Scheduled \ {id}
    BY <2>1, ScheduledAfter
  <2>5. Cardinality(Scheduled \ {id}) = Cardinality(Scheduled) - 1
    BY <1>1, <2>3, FS_RemoveElement
  <2>6. QED
    BY <2>2, <2>4, <2>5 DEF LiveCountsScheduled
<1>4. CASE PeekStep
  BY <1>4, ScheduledAfter DEF PeekStep, LiveCountsScheduled
<1>5. CASE FireStep
  <2>1. PICK i \in heap : IsHead(i) /\ Fire(i)
    BY <1>5 DEF FireStep
  <2>2. live' = live - 1
    BY <2>1 DEF Fire
  <2>3. i \in Scheduled /\ Scheduled' = Scheduled \ {i}
    BY <2>1, ScheduledAfter
  <2>4. Cardinality(Scheduled \ {i}) = Cardinality(Scheduled) - 1
    BY <1>1, <2>3, FS_RemoveElement
  <2>5. QED
    BY <2>2, <2>3, <2>4 DEF LiveCountsScheduled
<1>6. CASE QuietStep
  BY <1>6, ScheduledAfter DEF QuietStep, LiveCountsScheduled
<1>7. QED
  BY <1>2, <1>3, <1>4, <1>5, <1>6, QueueSteps

\* The pending property is exact.  It rests on IdsMatchHeap: an id that
\* outlived its event would let cancel() count it a second time.
THEOREM LiveCorrect == Spec => []LiveCountsScheduled
<1>1. Init => LiveCountsScheduled
  <2>1. ASSUME Init
        PROVE  live = 0 /\ Scheduled = {}
    BY <2>1 DEF Init, Scheduled
  <2>2. QED
    BY <2>1, FS_EmptySet DEF LiveCountsScheduled
<1>2. TypeOK /\ IdsMatchHeap /\ LiveCountsScheduled /\ [Next]_vars
          => LiveCountsScheduled'
  BY LiveCountStep
<1>3. QED
  BY <1>1, <1>2, TypeCorrect, IdsCorrect, PTL DEF Spec

-----------------------------------------------------------------------------
(* Every event is accounted for, and events fire in the promised order.    *)

\* Facts about fired that the steps below need.
LEMMA FiredFacts ==
    ASSUME TypeOK
    PROVE  /\ seq \in Nat /\ Len(fired) \in Nat
           /\ DOMAIN fired = 1 .. Len(fired)
           /\ \A k \in DOMAIN fired : /\ fired[k].id \in 0 .. seq - 1
                                      /\ fired[k].known \in 0 .. seq
<1>1. seq \in Nat /\ fired \in Seq(Firing)
  BY DEF TypeOK, Firing
<1>2. Len(fired) \in Nat /\ DOMAIN fired = 1 .. Len(fired)
  BY <1>1, LenProperties
<1>3. \A k \in 1 .. Len(fired) : fired[k] \in Firing
  BY <1>1, ElementOfSeq
<1>4. QED
  BY <1>1, <1>2, <1>3 DEF Firing

\* Firing i appends it to the history.
LEMMA FiredAfterFire ==
    ASSUME TypeOK, NEW i \in heap, Fire(i)
    PROVE  /\ DOMAIN fired' = 1 .. Len(fired) + 1
           /\ \A k \in DOMAIN fired : fired'[k] = fired[k]
           /\ fired'[Len(fired) + 1].id = i
           /\ fired'[Len(fired) + 1].known = seq
           /\ \A j : Fired(j)' <=> Fired(j) \/ j = i
<1> DEFINE e == [id |-> i, known |-> seq]
<1>1. fired \in Seq(Firing) /\ e \in Firing
  BY DEF TypeOK, Firing
<1>2. fired' = Append(fired, e)
  BY DEF Fire
<1>3. Len(fired) \in Nat /\ DOMAIN fired = 1 .. Len(fired)
  BY FiredFacts
<1> HIDE DEF e
<1>4. /\ fired' \in Seq(Firing)
      /\ Len(fired') = Len(fired) + 1
      /\ \A k \in 1 .. Len(fired) : fired'[k] = fired[k]
      /\ fired'[Len(fired) + 1] = e
  BY <1>1, <1>2, AppendProperties
<1>5. DOMAIN fired' = 1 .. Len(fired) + 1
  BY <1>4, LenProperties
<1>6. e.id = i /\ e.known = seq
  BY DEF e
<1>7. \A j : Fired(j)' <=> Fired(j) \/ j = i
  <2>1. ASSUME NEW j
        PROVE  Fired(j)' <=> Fired(j) \/ j = i
    BY <1>3, <1>4, <1>5, <1>6 DEF Fired
  <2>2. QED
    BY <2>1
<1>8. QED
  BY <1>3, <1>4, <1>5, <1>6, <1>7

LEMMA AccountedForStep ==
    ASSUME TypeOK, IdsMatchHeap, EveryEventAccountedFor, [Next]_vars
    PROVE  EveryEventAccountedFor'
<1>1. /\ seq \in Nat /\ heap \subseteq 0 .. seq - 1
      /\ \A i : Fired(i) => i \in 0 .. seq - 1
  BY FiredFacts DEF TypeOK, Fired
<1>2. CASE PushStep
  <2>1. /\ seq' = seq + 1 /\ fired' = fired /\ heap' = heap \cup {seq}
        /\ Scheduled' = Scheduled \cup {seq}
        /\ \A i \in 0 .. seq - 1 : event'[i] = event[i]
    BY <1>2, ScheduledAfter DEF PushStep, Push
  <2>2. \A i : Fired(i)' <=> Fired(i)
    BY <2>1 DEF Fired
  <2>3. ~Fired(seq)
    BY <1>1
  <2>4. 0 .. seq' - 1 = (0 .. seq - 1) \cup {seq}
    BY <1>1, <2>1
  <2>5. QED
    BY <1>1, <2>1, <2>2, <2>3, <2>4 DEF EveryEventAccountedFor
<1>3. CASE CancelStep
  <2>1. PICK id \in byId : Cancel(id)
    BY <1>3 DEF CancelStep
  <2>2. /\ seq' = seq /\ fired' = fired /\ heap' = heap
        /\ Scheduled' = Scheduled \ {id}
        /\ event'[id].cancelled = TRUE
        /\ \A i \in 0 .. seq - 1 :
              i # id => event'[i].cancelled = event[i].cancelled
    BY <2>1, ScheduledAfter DEF Cancel
  <2>3. \A i : Fired(i)' <=> Fired(i)
    BY <2>2 DEF Fired
  <2>4. id \in heap /\ ~Fired(id)
    BY <1>1, <2>1 DEF IdsMatchHeap, Cancel, EveryEventAccountedFor
  <2>5. QED
    BY <2>2, <2>3, <2>4 DEF EveryEventAccountedFor
<1>4. CASE PeekStep
  <2>1. /\ seq' = seq /\ fired' = fired /\ event' = event
        /\ heap' \subseteq heap /\ Scheduled' = Scheduled
    BY <1>4, ScheduledAfter DEF PeekStep, Peek
  <2>2. \A i : Fired(i)' <=> Fired(i)
    BY <2>1 DEF Fired
  <2>3. QED
    BY <2>1, <2>2 DEF EveryEventAccountedFor
<1>5. CASE FireStep
  <2>1. PICK i \in heap : IsHead(i) /\ Fire(i)
    BY <1>5 DEF FireStep
  <2>2. /\ seq' = seq /\ event' = event /\ heap' \subseteq heap \ {i}
        /\ i \in Scheduled /\ Scheduled' = Scheduled \ {i}
    BY <2>1, ScheduledAfter DEF Fire
  <2>3. \A j : Fired(j)' <=> Fired(j) \/ j = i
    BY <2>1, FiredAfterFire
  <2>4. ~event[i].cancelled /\ i \in 0 .. seq - 1
    BY <1>1, <2>2 DEF Scheduled
  <2>5. ~Fired(i)
    BY <2>2, <2>4 DEF EveryEventAccountedFor, Scheduled
  <2>6. \A j, k \in DOMAIN fired' : fired'[j].id = fired'[k].id => j = k
    <3>1. /\ DOMAIN fired' = 1 .. Len(fired) + 1
          /\ \A k \in DOMAIN fired : fired'[k] = fired[k]
          /\ fired'[Len(fired) + 1].id = i
      BY <2>1, FiredAfterFire
    <3>. DOMAIN fired = 1 .. Len(fired) /\ Len(fired) \in Nat
      BY FiredFacts
    <3>2. \A k \in DOMAIN fired : fired[k].id # i
      BY <2>5 DEF Fired
    <3>3. QED
      BY <3>1, <3>2 DEF EveryEventAccountedFor
  <2>7. QED
    BY <2>2, <2>3, <2>4, <2>5, <2>6 DEF EveryEventAccountedFor
<1>6. CASE QuietStep
  <2>1. \A i : Fired(i)' <=> Fired(i)
    BY <1>6 DEF QuietStep, Fired
  <2>2. QED
    BY <1>6, <2>1, ScheduledAfter DEF QuietStep, EveryEventAccountedFor
<1>7. QED
  BY <1>2, <1>3, <1>4, <1>5, <1>6, QueueSteps

\* No event is lost and none runs twice, through cancellations, nested runs
\* and exceptions.
THEOREM EventsConserved == Spec => []EveryEventAccountedFor
<1>1. Init => EveryEventAccountedFor
  BY DEF Init, EveryEventAccountedFor
<1>2. TypeOK /\ IdsMatchHeap /\ EveryEventAccountedFor /\ [Next]_vars
          => EveryEventAccountedFor'
  BY AccountedForStep
<1>3. QED
  BY <1>1, <1>2, TypeCorrect, IdsCorrect, PTL DEF Spec

-----------------------------------------------------------------------------
(* The firing order.                                                       *)

\* FiringOrder speaks of events that have fired; while the later one is still
\* in the heap, it is already behind every event that fired knowing it.
FiredBeforeScheduled ==
    \A k \in DOMAIN fired : \A i \in Scheduled :
        i < fired[k].known => Before(fired[k].id, i)

OrderInv == FiringOrder /\ FiredBeforeScheduled

LEMMA OrderStep ==
    ASSUME TypeOK, OrderInv, [Next]_vars
    PROVE  OrderInv'
<1>1. /\ seq \in Nat /\ Scheduled \subseteq 0 .. seq - 1
      /\ DOMAIN fired = 1 .. Len(fired) /\ Len(fired) \in Nat
      /\ \A k \in DOMAIN fired : /\ fired[k].id \in 0 .. seq - 1
                                 /\ fired[k].known \in 0 .. seq
  <2>1. Scheduled \subseteq 0 .. seq - 1
    BY DEF TypeOK, Scheduled
  <2>2. QED
    BY <2>1, FiredFacts
<1>2. CASE PushStep
  <2>1. /\ fired' = fired /\ Scheduled' = Scheduled \cup {seq}
        /\ \A i \in 0 .. seq - 1 : event'[i] = event[i]
    BY <1>2, ScheduledAfter DEF PushStep, Push
  <2>2. \A i, j \in 0 .. seq - 1 : Before(i, j)' <=> Before(i, j)
    BY <2>1 DEF Before
  <2>3. QED
    BY <1>1, <2>1, <2>2, SMTT(30) DEF OrderInv, FiringOrder, FiredBeforeScheduled
<1>3. CASE CancelStep
  <2>1. PICK id \in byId : Cancel(id)
    BY <1>3 DEF CancelStep
  <2>2. /\ fired' = fired /\ Scheduled' \subseteq Scheduled
        /\ \A i \in 0 .. seq - 1 : /\ event'[i].time = event[i].time
                                   /\ event'[i].priority = event[i].priority
    BY <2>1, ScheduledAfter DEF Cancel
  <2>3. \A i, j \in 0 .. seq - 1 : Before(i, j)' <=> Before(i, j)
    BY <2>2 DEF Before
  <2>4. QED
    BY <1>1, <2>2, <2>3 DEF OrderInv, FiringOrder, FiredBeforeScheduled
<1>4. CASE PeekStep \/ QuietStep
  <2>1. fired' = fired /\ event' = event /\ Scheduled' = Scheduled
    BY <1>4, ScheduledAfter DEF PeekStep, QuietStep
  <2>2. \A i, j : Before(i, j)' <=> Before(i, j)
    BY <2>1 DEF Before
  <2>3. QED
    BY <2>1, <2>2 DEF OrderInv, FiringOrder, FiredBeforeScheduled
<1>5. CASE FireStep
  <2>1. PICK i \in heap : IsHead(i) /\ Fire(i)
    BY <1>5 DEF FireStep
  <2>2. /\ event' = event /\ i \in Scheduled /\ Scheduled' = Scheduled \ {i}
    BY <2>1, ScheduledAfter DEF Fire
  <2>3. \A j, k : Before(j, k)' <=> Before(j, k)
    BY <2>2 DEF Before
  <2>4. /\ DOMAIN fired' = 1 .. Len(fired) + 1
        /\ \A k \in DOMAIN fired : fired'[k] = fired[k]
        /\ fired'[Len(fired) + 1].id = i
    BY <2>1, FiredAfterFire
  <2>5. \A j \in Scheduled' : Before(i, j)
    BY <2>1, <2>2 DEF IsHead
  <2>6. FiringOrder'
    <3>1. ASSUME NEW j \in DOMAIN fired', NEW k \in DOMAIN fired',
                 j < k, fired'[k].id < fired'[j].known
          PROVE  Before(fired'[j].id, fired'[k].id)
      <4>1. j \in DOMAIN fired /\ fired'[j] = fired[j]
        BY <1>1, <2>4, <3>1
      <4>2. CASE k \in DOMAIN fired
        BY <2>4, <3>1, <4>1, <4>2 DEF OrderInv, FiringOrder
      <4>3. CASE k = Len(fired) + 1
        BY <2>2, <2>4, <3>1, <4>1, <4>3 DEF OrderInv, FiredBeforeScheduled
      <4>4. QED
        BY <1>1, <2>4, <4>2, <4>3
    <3>2. QED
      BY <2>3, <3>1 DEF FiringOrder
  <2>7. FiredBeforeScheduled'
    <3>1. ASSUME NEW k \in DOMAIN fired', NEW j \in Scheduled',
                 j < fired'[k].known
          PROVE  Before(fired'[k].id, j)
      <4>1. CASE k \in DOMAIN fired
        BY <2>2, <2>4, <3>1, <4>1 DEF OrderInv, FiredBeforeScheduled
      <4>2. CASE k = Len(fired) + 1
        BY <2>4, <2>5, <4>2
      <4>3. QED
        BY <1>1, <2>4, <4>1, <4>2
    <3>2. QED
      BY <2>3, <3>1 DEF FiredBeforeScheduled
  <2>8. QED
    BY <2>6, <2>7 DEF OrderInv
<1>6. QED
  BY <1>2, <1>3, <1>4, <1>5, QueueSteps

\* The deterministic order: by time, priority and insertion, also across the
\* nested calls that fire events.
THEOREM OrderCorrect == Spec => []FiringOrder
<1>1. Init => OrderInv
  BY DEF Init, OrderInv, FiringOrder, FiredBeforeScheduled
<1>2. TypeOK /\ OrderInv /\ [Next]_vars => OrderInv'
  BY OrderStep
<1>3. OrderInv => FiringOrder
  BY DEF OrderInv
<1>4. QED
  BY <1>1, <1>2, <1>3, TypeCorrect, PTL DEF Spec

-----------------------------------------------------------------------------
(* The horizon.                                                            *)

\* Each run() on the stack has saved the horizon of the run() it is nested
\* in, which is what its finally clause puts back.
HorizonsSaved ==
    \A m \in 1 .. Len(stack) :
        stack[m].kind = "run" => IsHorizon(stack, m - 1, stack[m].prevUntil)

HorizonInv == HorizonIsInnermost /\ HorizonsSaved

\* The horizon in force depends only on the active frames.
LEMMA SameFrames ==
    ASSUME NEW s, NEW t, NEW n \in Nat, NEW h, IsHorizon(s, n, h),
           \A m \in 1 .. n : t[m] = s[m]
    PROVE  IsHorizon(t, n, h)
<1>1. RunsAmong(t, n) = RunsAmong(s, n)
  BY DEF RunsAmong
<1>2. \A m \in RunsAmong(s, n) : t[m] = s[m]
  BY DEF RunsAmong
<1>3. QED
  BY <1>1, <1>2 DEF IsHorizon

\* A run() on top puts its own horizon in force.
LEMMA HorizonOfRun ==
    ASSUME NEW s, NEW n \in Nat \ {0}, s[n].kind = "run"
    PROVE  IsHorizon(s, n, s[n].until)
<1>1. n \in RunsAmong(s, n) /\ \A l \in RunsAmong(s, n) : l <= n
  BY DEF RunsAmong
<1>2. QED
  BY <1>1 DEF IsHorizon

\* A callback on top leaves in force what was in force below it.
LEMMA HorizonOfCallback ==
    ASSUME NEW s, NEW n \in Nat \ {0}, s[n].kind # "run", NEW h
    PROVE  IsHorizon(s, n, h) <=> IsHorizon(s, n - 1, h)
<1>1. RunsAmong(s, n) = RunsAmong(s, n - 1)
  BY DEF RunsAmong
<1>2. QED
  BY <1>1 DEF IsHorizon

LEMMA HorizonStep ==
    ASSUME TypeOK, HorizonInv, [Next]_vars
    PROVE  HorizonInv'
<1>1. stack \in Seq(Frame) /\ Len(stack) \in Nat
  BY LenProperties DEF TypeOK, Frame
<1>2. ASSUME UNCHANGED <<stack, runUntil>>
      PROVE  HorizonInv'
  BY <1>2 DEF HorizonInv, HorizonIsInnermost, HorizonsSaved
<1>3. ASSUME NEW f \in Frame, stack' = Append(stack, f),
             \/ f.kind = "callback" /\ runUntil' = runUntil
             \/ f.kind = "run" /\ runUntil' = f.until /\ f.prevUntil = runUntil
      PROVE  HorizonInv'
  <2>1. /\ Len(stack') = Len(stack) + 1 /\ stack'[Len(stack) + 1] = f
        /\ \A m \in 1 .. Len(stack) : stack'[m] = stack[m]
    BY <1>1, <1>3, PushLemma
  <2>2. IsHorizon(stack', Len(stack), runUntil)
    BY <1>1, <2>1, SameFrames DEF HorizonInv, HorizonIsInnermost
  <2>3. IsHorizon(stack', Len(stack) + 1, runUntil')
    <3>1. Len(stack) + 1 \in Nat \ {0} /\ Len(stack) + 1 - 1 = Len(stack)
      BY <1>1
    <3>2. CASE f.kind = "run" /\ runUntil' = f.until
      BY <2>1, <3>1, <3>2, HorizonOfRun
    <3>3. CASE f.kind = "callback" /\ runUntil' = runUntil
      BY <2>1, <2>2, <3>1, <3>3, HorizonOfCallback
    <3>4. QED
      BY <1>3, <3>2, <3>3
  <2>4. ASSUME NEW m \in 1 .. Len(stack) + 1, stack'[m].kind = "run"
        PROVE  IsHorizon(stack', m - 1, stack'[m].prevUntil)
    <3>1. CASE m = Len(stack) + 1
      <4>1. m - 1 = Len(stack) /\ stack'[m].prevUntil = runUntil
        BY <1>1, <1>3, <2>1, <2>4, <3>1
      <4>2. QED
        BY <2>2, <4>1
    <3>2. CASE m \in 1 .. Len(stack)
      <4>1. IsHorizon(stack, m - 1, stack[m].prevUntil)
        BY <2>1, <2>4, <3>2 DEF HorizonInv, HorizonsSaved
      <4>2. m - 1 \in Nat /\ \A l \in 1 .. m - 1 : stack'[l] = stack[l]
        BY <1>1, <2>1, <3>2
      <4>3. QED
        BY <2>1, <3>2, <4>1, <4>2, SameFrames
    <3>3. QED
      BY <1>1, <3>1, <3>2
  <2>5. QED
    BY <2>1, <2>3, <2>4 DEF HorizonInv, HorizonIsInnermost, HorizonsSaved
<1>4. ASSUME stack # <<>>, stack' = Pop,
             \/ Top.kind # "run" /\ runUntil' = runUntil
             \/ Top.kind = "run" /\ runUntil' = Top.prevUntil
      PROVE  HorizonInv'
  <2>1. /\ Len(stack) \in Nat \ {0} /\ Len(stack') = Len(stack) - 1
        /\ \A m \in 1 .. Len(stack) - 1 : stack'[m] = stack[m]
    BY <1>1, <1>4, PopLemma DEF Pop
  <2>2. IsHorizon(stack, Len(stack) - 1, runUntil')
    <3>1. CASE Top.kind = "run" /\ runUntil' = Top.prevUntil
      BY <2>1, <3>1 DEF HorizonInv, HorizonsSaved, Top
    <3>2. CASE Top.kind # "run" /\ runUntil' = runUntil
      BY <2>1, <3>2, HorizonOfCallback DEF HorizonInv, HorizonIsInnermost, Top
    <3>3. QED
      BY <1>4, <3>1, <3>2
  <2>3. IsHorizon(stack', Len(stack'), runUntil')
    <3>1. Len(stack) - 1 \in Nat
      BY <2>1
    <3>2. QED
      BY <2>1, <2>2, <3>1, SameFrames
  <2>4. ASSUME NEW m \in 1 .. Len(stack'), stack'[m].kind = "run"
        PROVE  IsHorizon(stack', m - 1, stack'[m].prevUntil)
    <3>1. /\ m \in 1 .. Len(stack) /\ m - 1 \in Nat /\ stack'[m] = stack[m]
          /\ \A l \in 1 .. m - 1 : stack'[l] = stack[l]
      BY <2>1
    <3>2. IsHorizon(stack, m - 1, stack[m].prevUntil)
      BY <2>4, <3>1 DEF HorizonInv, HorizonsSaved
    <3>3. QED
      BY <3>1, <3>2, SameFrames
  <2>5. QED
    BY <2>3, <2>4 DEF HorizonInv, HorizonIsInnermost, HorizonsSaved
<1>5. CASE Step \/ RunFire
  <2>1. PICK i \in heap : Fire(i)
    BY <1>5 DEF Step, RunFire
  <2>2. [kind |-> "callback", id |-> i] \in Frame
    BY DEF TypeOK, Frame, CallbackFrame
  <2>3. QED
    BY <1>3, <2>1, <2>2 DEF Fire
<1>6. CASE \E until \in Times \cup {None}, limit \in Limits \cup {None} :
              Run(until, limit)
  <2>1. PICK until \in Times \cup {None}, limit \in Limits \cup {None} :
            Run(until, limit)
    BY <1>6
  <2> DEFINE f == [kind |-> "run", until |-> until, limit |-> limit,
                   start |-> processed, prevUntil |-> runUntil]
  <2>2. f \in Frame
    BY DEF TypeOK, Frame, RunFrame
  <2>3. QED
    BY <1>3, <2>1, <2>2 DEF Run
<1>7. CASE RunEndAtLimit \/ RunEnd \/ UnwindRun
  BY <1>4, <1>7 DEF RunEndAtLimit, RunEnd, UnwindRun, InRun, LeaveRun
<1>8. CASE Return \/ Raise
  BY <1>4, <1>8 DEF Return, Raise, InCallback
<1>9. CASE \/ \E delay \in Times, priority \in Priorities :
                 Schedule(delay, priority)
           \/ \E time \in Times, priority \in Priorities : At(time, priority)
           \/ \E id \in byId : Cancel(id)
           \/ NextTime
           \/ \E time \in Times : AdvanceTo(time)
           \/ Catch
           \/ UNCHANGED vars
  BY <1>2, <1>9 DEF Schedule, At, Push, Cancel, NextTime, AdvanceTo, Catch, vars
<1>10. QED
  BY <1>5, <1>6, <1>7, <1>8, <1>9 DEF Next, ClientCall, Kernel, EndCallback

\* The horizon _advance_to() consults is the innermost active run()'s,
\* through nested runs and exceptions, at any depth.
THEOREM HorizonCorrect == Spec => []HorizonIsInnermost
<1>1. Init => HorizonInv
  <2>1. ASSUME Init
        PROVE  stack = <<>> /\ runUntil = None
    BY <2>1 DEF Init
  <2>2. ASSUME stack = <<>>
        PROVE  Len(stack) = 0 /\ RunsAmong(stack, 0) = {}
    BY <2>2 DEF RunsAmong
  <2>3. QED
    BY <2>1, <2>2
    DEF HorizonInv, HorizonIsInnermost, HorizonsSaved, IsHorizon
<1>2. TypeOK /\ HorizonInv /\ [Next]_vars => HorizonInv'
  BY HorizonStep
<1>3. HorizonInv => HorizonIsInnermost
  BY DEF HorizonInv
<1>4. QED
  BY <1>1, <1>2, <1>3, TypeCorrect, PTL DEF Spec

-----------------------------------------------------------------------------
(* Refinement.                                                             *)

\* A step of the simulator is a step of the future event list: scheduling,
\* cancelling, firing the earliest event, or time passing up to it.
LEMMA RefinementStep ==
    ASSUME TypeOK, IdsMatchHeap, NothingSkipped, [Next]_vars
    PROVE  [EL!Next]_EL!vars
<1> DEFINE Rec(i) == [id |-> i, time |-> event[i].time,
                      priority |-> event[i].priority]
<1>1. /\ event \in [0 .. seq - 1 -> Entry] /\ seq \in Nat
      /\ Scheduled \subseteq 0 .. seq - 1 /\ now \in Times
  <2>1. event \in [0 .. seq - 1 -> Entry] /\ seq \in Nat /\ now \in Times
    BY DEF TypeOK, Entry
  <2>2. Scheduled \subseteq 0 .. seq - 1
    BY DEF TypeOK, Scheduled
  <2>3. QED
    BY <2>1, <2>2
<1>2. \A i \in Scheduled : event[i] \in Entry
  BY <1>1
<1>3. Pending = {Rec(i) : i \in Scheduled}
  BY DEF Pending
<1>4. CASE PushStep
  <2>1. PICK time \in Times, priority \in Priorities :
            time >= now /\ Push(time, priority)
    BY <1>4 DEF PushStep
  <2>2. /\ event'[seq].time = time /\ event'[seq].priority = priority
        /\ seq' = seq + 1 /\ now' = now
    BY <1>1, <2>1 DEF Push
  <2>3. /\ Scheduled' = Scheduled \cup {seq}
        /\ \A i \in Scheduled : event'[i] = event[i]
    BY <1>1, <1>4, ScheduledAfter
  <2>4. Pending' = Pending \cup
          {[id |-> seq, time |-> time, priority |-> priority]}
    BY <2>2, <2>3 DEF Pending
  <2>5. QED
    BY <2>1, <2>2, <2>4 DEF EL!Next, EL!Schedule
<1>5. CASE CancelStep
  <2>1. PICK id \in byId : Cancel(id)
    BY <1>5 DEF CancelStep
  <2>2. id \in Scheduled /\ now' = now /\ seq' = seq
    BY <2>1 DEF Cancel, IdsMatchHeap, Scheduled
  <2>3. /\ Scheduled' = Scheduled \ {id}
        /\ \A i \in Scheduled : /\ event'[i].time = event[i].time
                                /\ event'[i].priority = event[i].priority
    BY <1>1, <2>1, ScheduledAfter
  <2>4. Pending' = Pending \ {Rec(id)}
    BY <2>2, <2>3 DEF Pending
  <2>5. Rec(id) \in Pending
    BY <2>2 DEF Pending
  <2>6. QED
    BY <2>2, <2>4, <2>5 DEF EL!Next, EL!Cancel
<1>6. CASE PeekStep
  <2>1. Pending' = Pending /\ seq' = seq
    BY <1>6, ScheduledAfter DEF PeekStep, Pending
  <2>2. CASE now' = now
    BY <2>1, <2>2 DEF EL!vars
  <2>3. CASE now' # now
    <3>1. /\ now' \in Times /\ now' >= now
          /\ \A e \in Pending : e.time >= now'
      BY <1>6, <2>3 DEF PeekStep, Pending
    <3>2. QED
      BY <2>1, <3>1 DEF EL!Next, EL!Advance
  <2>4. QED
    BY <2>2, <2>3
<1>7. CASE FireStep
  <2>1. PICK i \in heap : IsHead(i) /\ Fire(i)
    BY <1>7 DEF FireStep
  <2>2. /\ i \in Scheduled /\ Scheduled' = Scheduled \ {i}
        /\ event' = event /\ seq' = seq /\ now' = event[i].time
    BY <2>1, ScheduledAfter DEF Fire
  <2>3. Pending' = Pending \ {Rec(i)} /\ Rec(i) \in Pending
    BY <2>2 DEF Pending
  <2>4. EL!Earliest(Rec(i))
    <3>1. \A j \in Scheduled \ {i} : EL!Precedes(Rec(i), Rec(j))
      BY <2>1 DEF IsHead, Before, EL!Precedes
    <3>2. QED
      BY <3>1 DEF Pending, EL!Earliest
  <2>5. QED
    BY <2>2, <2>3, <2>4 DEF EL!Next, EL!Fire
<1>8. CASE QuietStep
  <2>1. Pending' = Pending /\ seq' = seq /\ now' = now
    BY <1>8, ScheduledAfter DEF QuietStep, Pending
  <2>2. QED
    BY <2>1 DEF EL!vars
<1>9. QED
  BY <1>4, <1>5, <1>6, <1>7, <1>8, QueueSteps

\* Whatever its clients nest, raise or cancel, the simulator is a future
\* event list.
THEOREM Refinement == Spec => ImplementsEventList
<1>1. Init => EL!Init
  <2>1. ASSUME Init
        PROVE  now = 0 /\ seq = 0 /\ Pending = {}
    BY <2>1 DEF Init, Pending, Scheduled
  <2>2. QED
    BY <2>1 DEF EL!Init
<1>2. TypeOK /\ IdsMatchHeap /\ NothingSkipped /\ [Next]_vars
          => [EL!Next]_EL!vars
  BY RefinementStep
<1>3. QED
  BY <1>1, <1>2, TypeCorrect, IdsCorrect, NeverSkips, PTL
  DEF Spec, EL!Spec, ImplementsEventList
=============================================================================
